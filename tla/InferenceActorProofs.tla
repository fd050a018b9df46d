------------------------ MODULE InferenceActorProofs ------------------------
(***************************************************************************)
(* Proofs about InferenceActor for any number of jobs and calls and any    *)
(* value of its bounds.                                                    *)
(***************************************************************************)
EXTENDS InferenceActor, FiniteSetTheorems, SequenceTheorems, TLAPS

Work == Jobs \cup Calls

\* x precedes y in the sequence s.
Before(s, x, y) == \E i, k \in 1 .. Len(s) : i < k /\ s[i] = x /\ s[k] = y

-----------------------------------------------------------------------------
(* The queue with one element more or less.                                *)

LEMMA AppendIs ==
  ASSUME NEW s \in Seq(Work), NEW e \in Work
  PROVE  LET t == Append(s, e) IN
         /\ t \in Seq(Work) /\ ToSet(t) = ToSet(s) \cup {e}
         /\ IsInjective(s) /\ e \notin ToSet(s) => IsInjective(t)
         /\ \A x, y : Before(t, x, y) => Before(s, x, y) \/ (x \in ToSet(s) /\ y = e)
<1>. DEFINE t == Append(s, e)
<1>1. t \in Seq(Work) /\ Len(t) = Len(s) + 1 /\ t[Len(s) + 1] = e
      /\ \A i \in 1 .. Len(s) : t[i] = s[i]
  OBVIOUS
<1>2. ToSet(t) = ToSet(s) \cup {e}
  BY <1>1 DEF ToSet
<1>3. ASSUME IsInjective(s), e \notin ToSet(s) PROVE IsInjective(t)
  BY <1>1, <1>3 DEF IsInjective, ToSet
<1>4. ASSUME NEW x, NEW y, Before(t, x, y)
      PROVE  Before(s, x, y) \/ (x \in ToSet(s) /\ y = e)
  BY <1>1, <1>4 DEF Before, ToSet
<1>. QED
  BY <1>1, <1>2, <1>3, <1>4

LEMMA FrontIs ==
  ASSUME NEW s \in Seq(Work), NEW e \in Work
  PROVE  LET t == <<e>> \o s IN
         /\ t \in Seq(Work) /\ ToSet(t) = ToSet(s) \cup {e}
         /\ IsInjective(s) /\ e \notin ToSet(s) => IsInjective(t)
         /\ \A x, y : Before(t, x, y) => Before(s, x, y) \/ (x = e /\ y \in ToSet(s))
<1>. DEFINE t == <<e>> \o s
<1>1. t \in Seq(Work) /\ Len(t) = Len(s) + 1 /\ t[1] = e
      /\ \A i \in 2 .. Len(s) + 1 : t[i] = s[i - 1]
  OBVIOUS
<1>. HIDE DEF t
<1>2. ToSet(t) = ToSet(s) \cup {e}
  <2>1. ASSUME NEW x \in ToSet(s) PROVE x \in ToSet(t)
    <3>1. PICK i \in 1 .. Len(s) : x = s[i]
      BY DEF ToSet
    <3>2. i + 1 \in DOMAIN t /\ t[i + 1] = x
      BY <1>1, <3>1
    <3>. QED
      BY <3>2 DEF ToSet
  <2>2. ASSUME NEW x \in ToSet(t) PROVE x \in ToSet(s) \cup {e}
    BY <1>1 DEF ToSet
  <2>3. e \in ToSet(t)
    BY <1>1 DEF ToSet
  <2>. QED
    BY <2>1, <2>2, <2>3
<1>3. ASSUME IsInjective(s), e \notin ToSet(s) PROVE IsInjective(t)
  BY SMTT(30), <1>1, <1>3 DEF IsInjective, ToSet
<1>4. ASSUME NEW x, NEW y, Before(t, x, y)
      PROVE  Before(s, x, y) \/ (x = e /\ y \in ToSet(s))
  <2>1. PICK i \in 1 .. Len(t), k \in 1 .. Len(t) : i < k /\ t[i] = x /\ t[k] = y
    BY <1>4 DEF Before
  <2>2. k - 1 \in 1 .. Len(s) /\ y = s[k - 1] /\ (i # 1 => i - 1 \in 1 .. Len(s) /\ x = s[i - 1])
    BY <1>1, <2>1
  <2>. QED
    BY <1>1, <2>1, <2>2 DEF Before, ToSet
<1>. QED
  BY <1>1, <1>2, <1>3, <1>4 DEF t

LEMMA TailIs ==
  ASSUME NEW s \in Seq(Work), s # <<>>
  PROVE  LET t == Tail(s) IN
         /\ t \in Seq(Work) /\ Head(s) \in ToSet(s)
         /\ ToSet(s) = ToSet(t) \cup {Head(s)}
         /\ IsInjective(s) => IsInjective(t) /\ Head(s) \notin ToSet(t)
         /\ \A x, y : Before(t, x, y) => Before(s, x, y)
         /\ \A y \in ToSet(t) : Before(s, Head(s), y)
<1>. DEFINE t == Tail(s)
<1>1. t \in Seq(Work) /\ Len(t) = Len(s) - 1 /\ Len(s) > 0 /\ Head(s) = s[1]
      /\ \A i \in 1 .. Len(t) : t[i] = s[i + 1]
  OBVIOUS
<1>. HIDE DEF t
<1>2. ASSUME NEW y \in ToSet(t) PROVE Before(s, Head(s), y) /\ y \in ToSet(s)
  <2>1. PICK i \in 1 .. Len(t) : y = t[i]
    BY <1>1 DEF ToSet
  <2>2. i + 1 \in 1 .. Len(s) /\ 1 \in 1 .. Len(s) /\ 1 < i + 1 /\ s[i + 1] = y
    BY <1>1, <2>1
  <2>. QED
    BY <1>1, <2>2 DEF Before, ToSet
<1>3. ASSUME NEW x \in ToSet(s) PROVE x \in ToSet(t) \cup {Head(s)}
  <2>1. PICK i \in 1 .. Len(s) : x = s[i]
    BY DEF ToSet
  <2>2. CASE i # 1
    <3>1. i - 1 \in 1 .. Len(t) /\ t[i - 1] = x
      BY <1>1, <2>1, <2>2
    <3>. QED
      BY <1>1, <3>1 DEF ToSet
  <2>. QED
    BY <1>1, <2>1, <2>2
<1>4. Head(s) \in ToSet(s)
  BY <1>1 DEF ToSet
<1>5. ASSUME IsInjective(s) PROVE IsInjective(t) /\ Head(s) \notin ToSet(t)
  <2>1. ASSUME NEW i \in 1 .. Len(t), NEW k \in 1 .. Len(t), t[i] = t[k] PROVE i = k
    <3>1. i + 1 \in DOMAIN s /\ k + 1 \in DOMAIN s /\ s[i + 1] = s[k + 1]
      BY <1>1, <2>1
    <3>2. i + 1 = k + 1
      BY <3>1, <1>5 DEF IsInjective
    <3>. QED
      BY <1>1, <3>2
  <2>2. ASSUME NEW i \in 1 .. Len(t), t[i] = Head(s) PROVE FALSE
    <3>1. i + 1 \in DOMAIN s /\ 1 \in DOMAIN s /\ s[i + 1] = s[1]
      BY <1>1, <2>2
    <3>2. i + 1 = 1
      BY <3>1, <1>5 DEF IsInjective
    <3>. QED
      BY <1>1, <3>2
  <2>. QED
    BY <1>1, <2>1, <2>2 DEF IsInjective, ToSet
<1>6. ASSUME NEW x, NEW y, Before(t, x, y) PROVE Before(s, x, y)
  <2>1. PICK i \in 1 .. Len(t), k \in 1 .. Len(t) : i < k /\ t[i] = x /\ t[k] = y
    BY <1>6 DEF Before
  <2>2. i + 1 \in 1 .. Len(s) /\ k + 1 \in 1 .. Len(s) /\ i + 1 < k + 1
        /\ s[i + 1] = x /\ s[k + 1] = y
    BY <1>1, <2>1
  <2>. QED
    BY <2>2 DEF Before
<1>. QED
  BY <1>1, <1>2, <1>3, <1>4, <1>5, <1>6 DEF t

LEMMA InsertIs ==
  ASSUME NEW s \in Seq(Work), NEW e \in Work, NEW p \in 1 .. Len(s) + 1
  PROVE  LET t == InsertAt(s, p, e) IN
         /\ t \in Seq(Work) /\ ToSet(t) = ToSet(s) \cup {e}
         /\ IsInjective(s) /\ e \notin ToSet(s) => IsInjective(t)
         /\ \A x, y : Before(t, x, y) =>
               \/ Before(s, x, y)
               \/ y = e /\ \E i \in 1 .. p - 1 : x = s[i]
               \/ x = e /\ y \in ToSet(s)
<1>. DEFINE t == InsertAt(s, p, e)
<1>1. t \in Seq(Work) /\ Len(t) = Len(s) + 1 /\ t[p] = e
      /\ (\A i \in 1 .. p - 1 : t[i] = s[i])
      /\ (\A i \in p .. Len(s) : t[i + 1] = s[i])
  <2>. DEFINE a == SubSeq(s, 1, p - 1)
              b == SubSeq(s, p, Len(s))
  <2>1. a \in Seq(Work) /\ Len(a) = p - 1 /\ \A i \in 1 .. p - 1 : a[i] = s[i]
    OBVIOUS
  <2>2. b \in Seq(Work) /\ Len(b) = Len(s) - p + 1
        /\ \A i \in p .. Len(s) : i - p + 1 \in 1 .. Len(b) /\ b[i - p + 1] = s[i]
    OBVIOUS
  <2>3. t = a \o <<e>> \o b
    BY DEF InsertAt
  <2>. HIDE DEF a, b, t
  <2>4. t \in Seq(Work) /\ Len(t) = Len(s) + 1 /\ t[p] = e
    <3>. DEFINE c == a \o <<e>>
    <3>1. c \in Seq(Work) /\ Len(c) = p /\ c[p] = e
      BY <2>1
    <3>. HIDE DEF c
    <3>2. t = c \o b /\ b \in Seq(Work) /\ Len(b) = Len(s) - p + 1
      BY <2>2, <2>3 DEF c
    <3>3. /\ c \o b \in Seq(Work) /\ Len(c \o b) = Len(c) + Len(b)
          /\ \A i \in 1 .. Len(c) + Len(b) : (c \o b)[i] = IF i <= Len(c) THEN c[i] ELSE b[i - Len(c)]
      BY <3>1, <3>2, ConcatProperties
    <3>4. p \in 1 .. Len(c) + Len(b)
      BY <3>1, <3>2
    <3>5. p <= Len(c)
      BY <3>1
    <3>6. (c \o b)[p] = c[p]
      BY <3>3, <3>4, <3>5
    <3>7. Len(c) + Len(b) = Len(s) + 1
      BY <3>1, <3>2
    <3>. QED
      BY <3>1, <3>2, <3>3, <3>6, <3>7
  <2>5. \A i \in 1 .. p - 1 : t[i] = s[i]
    BY <2>1, <2>2, <2>3
  <2>6. ASSUME NEW i \in p .. Len(s) PROVE t[i + 1] = s[i]
    <3>1. t[i + 1] = b[(i + 1) - p]
      BY <2>1, <2>2, <2>3
    <3>2. (i + 1) - p = i - p + 1
      OBVIOUS
    <3>. QED
      BY <2>2, <3>1, <3>2
  <2>. QED
    BY <2>4, <2>5, <2>6
<1>. HIDE DEF t
<1>. DEFINE at(n) == IF n < p THEN n ELSE n - 1
<1>5. \A i \in 1 .. Len(s) + 1 : i # p => at(i) \in 1 .. Len(s) /\ t[i] = s[at(i)]
  <2>1. ASSUME NEW i \in 1 .. Len(s) + 1, i > p PROVE i - 1 \in p .. Len(s) /\ t[i] = s[i - 1]
    <3>1. i - 1 \in p .. Len(s) /\ (i - 1) + 1 = i
      BY <2>1
    <3>2. t[(i - 1) + 1] = s[i - 1]
      BY ONLY <1>1, <3>1
    <3>. QED
      BY <3>1, <3>2
  <2>. QED
    BY <1>1, <2>1
<1>2. ToSet(t) = ToSet(s) \cup {e}
  <2>1. ASSUME NEW x \in ToSet(s) PROVE x \in ToSet(t)
    <3>1. PICK i \in 1 .. Len(s) : x = s[i]
      BY DEF ToSet
    <3>2. i \in DOMAIN t /\ i + 1 \in DOMAIN t
      BY <1>1, <3>1
    <3>3. i \in 1 .. p - 1 \/ i \in p .. Len(s)
      BY <3>1
    <3>4. t[i + 1] = x \/ t[i] = x
      BY <1>1, <3>1, <3>3
    <3>. QED
      BY <3>2, <3>4 DEF ToSet
  <2>2. ASSUME NEW x \in ToSet(t) PROVE x \in ToSet(s) \cup {e}
    <3>1. PICK i \in 1 .. Len(s) + 1 : x = t[i]
      BY <1>1 DEF ToSet
    <3>. QED
      BY <1>5, <1>1, <3>1 DEF ToSet
  <2>3. p \in DOMAIN t
    BY <1>1
  <2>4. e \in ToSet(t)
    BY <1>1, <2>3 DEF ToSet
  <2>. QED
    BY <2>1, <2>2, <2>4
<1>3. ASSUME IsInjective(s), e \notin ToSet(s) PROVE IsInjective(t)
  <2>1. ASSUME NEW i \in 1 .. Len(s) + 1, NEW k \in 1 .. Len(s) + 1, t[i] = t[k] PROVE i = k
    <3>1. CASE i = p \/ k = p
      BY <1>1, <1>3, <1>5, <2>1, <3>1 DEF ToSet
    <3>2. CASE i # p /\ k # p
      <4>1. at(i) \in DOMAIN s /\ at(k) \in DOMAIN s /\ s[at(i)] = s[at(k)]
        BY <1>5, <2>1, <3>2
      <4>2. at(i) = at(k)
        BY <4>1, <1>3 DEF IsInjective
      <4>. QED
        BY <3>2, <4>2
    <3>. QED
      BY <3>1, <3>2
  <2>. QED
    BY <1>1, <2>1 DEF IsInjective
<1>4. ASSUME NEW x, NEW y, Before(t, x, y)
      PROVE  \/ Before(s, x, y)
             \/ y = e /\ \E i \in 1 .. p - 1 : x = s[i]
             \/ x = e /\ y \in ToSet(s)
  <2>1. PICK i \in 1 .. Len(t), k \in 1 .. Len(t) : i < k /\ t[i] = x /\ t[k] = y
    BY <1>4 DEF Before
  <2>2. CASE i # p /\ k # p
    <3>1. at(i) \in 1 .. Len(s) /\ at(k) \in 1 .. Len(s) /\ at(i) < at(k)
          /\ s[at(i)] = x /\ s[at(k)] = y
      BY <1>1, <1>5, <2>1, <2>2
    <3>. QED
      BY <3>1 DEF Before
  <2>3. CASE i = p
    <3>1. at(k) \in 1 .. Len(s) /\ s[at(k)] = y
      BY <1>1, <1>5, <2>1, <2>3
    <3>. QED
      BY <1>1, <2>1, <2>3, <3>1 DEF ToSet
  <2>4. CASE k = p
    BY <1>1, <2>1, <2>4
  <2>. QED
    BY <2>2, <2>3, <2>4
<1>. QED
  BY <1>1, <1>2, <1>3, <1>4 DEF t

-----------------------------------------------------------------------------
(* The queue without some of its jobs.                                     *)

Keep(S) == {i \in DOMAIN pending : pending[i] \notin S}
Rank(S, i) == Cardinality({k \in Keep(S) : k <= i})
Nth(S, n) == CHOOSE i \in Keep(S) : Rank(S, i) = n

LEMMA KeepFinite ==
  ASSUME pending \in Seq(Work), NEW S
  PROVE  /\ IsFiniteSet(Keep(S)) /\ Cardinality(Keep(S)) \in Nat
         /\ \A i : IsFiniteSet({k \in Keep(S) : k <= i})
<1>1. IsFiniteSet(1 .. Len(pending))
  BY FS_Interval
<1>2. IsFiniteSet(Keep(S))
  BY <1>1, FS_Subset DEF Keep
<1>3. \A i : {k \in Keep(S) : k <= i} \in SUBSET Keep(S)
  OBVIOUS
<1>. QED
  BY <1>2, <1>3, FS_Subset, FS_CardinalityType

\* The ranks of what is kept are different, in its order, and from 1 to its number.
LEMMA Ranks ==
  ASSUME pending \in Seq(Work), NEW S
  PROVE  /\ \A i \in Keep(S) : Rank(S, i) \in 1 .. Cardinality(Keep(S))
         /\ \A i, k \in Keep(S) : i < k => Rank(S, i) < Rank(S, k)
<1>. DEFINE U(i) == {k \in Keep(S) : k <= i}
<1>0. Keep(S) \subseteq Nat
  BY DEF Keep
<1>1. \A i \in Keep(S) : /\ U(i) \in SUBSET Keep(S) /\ i \in U(i)
                         /\ Cardinality(U(i)) \in Nat /\ U(i) # {}
  BY <1>0, KeepFinite, FS_CardinalityType
<1>2. \A i \in Keep(S) : Cardinality(U(i)) <= Cardinality(Keep(S)) /\ Cardinality(U(i)) # 0
  BY <1>1, KeepFinite, FS_Subset, FS_EmptySet
<1>3. ASSUME NEW i \in Keep(S), NEW k \in Keep(S), i < k
      PROVE  Cardinality(U(i)) < Cardinality(U(k))
  <2>1. U(i) \in SUBSET U(k) /\ k \in U(k) /\ k \notin U(i)
    BY <1>0, <1>3
  <2>2. Cardinality(U(i)) <= Cardinality(U(k)) /\ (Cardinality(U(k)) = Cardinality(U(i)) => U(k) = U(i))
    BY <2>1, KeepFinite, FS_Subset
  <2>. QED
    BY <2>1, <2>2, <1>1
<1>. QED
  BY <1>1, <1>2, <1>3, KeepFinite DEF Rank

\* Every rank is taken: a map of the ranks into as many places is onto.
LEMMA NthIs ==
  ASSUME pending \in Seq(Work), NEW S, NEW n \in 1 .. Cardinality(Keep(S))
  PROVE  Nth(S, n) \in Keep(S) /\ Rank(S, Nth(S, n)) = n
<1>. DEFINE N == Cardinality(Keep(S))
            f == [i \in Keep(S) |-> Rank(S, i)]
<1>1. Keep(S) \subseteq Nat
  BY DEF Keep
<1>2. \A i, k \in Keep(S) : f[i] = f[k] => i = k
  BY <1>1, Ranks
<1>3. f \in Injection(Keep(S), 1 .. N)
  BY <1>2, Ranks DEF Injection, IsInjective
<1>4. N \in Nat /\ IsFiniteSet(1 .. N) /\ Cardinality(1 .. N) = N
  BY KeepFinite, FS_Interval
<1>5. f \in Surjection(Keep(S), 1 .. N)
  BY <1>3, <1>4, FS_Injection
<1>6. \E i \in Keep(S) : Rank(S, i) = n
  BY <1>5 DEF Surjection
<1>. QED
  BY <1>6 DEF Nth

\* Remaining keeps what is not in S, in its order.
LEMMA RemainingIs ==
  ASSUME pending \in Seq(Work), IsInjective(pending), NEW S
  PROVE  LET rest == Remaining(S) IN
         /\ rest \in Seq(Work) /\ IsInjective(rest)
         /\ ToSet(rest) = ToSet(pending) \ S
         /\ \A x, y : Before(rest, x, y) => Before(pending, x, y)
<1>. DEFINE N == Cardinality(Keep(S))
            rest == Remaining(S)
<1>1. rest = [n \in 1 .. N |-> pending[Nth(S, n)]]
  BY DEF Remaining, Nth, Keep, Rank
<1>2. N \in Nat /\ Keep(S) \subseteq 1 .. Len(pending)
  <2>1. Keep(S) \subseteq 1 .. Len(pending)
    BY DEF Keep
  <2>. QED
    BY <2>1, KeepFinite
<1>. HIDE DEF N, rest
<1>3. \A n \in 1 .. N : Nth(S, n) \in Keep(S) /\ Rank(S, Nth(S, n)) = n
  BY NthIs DEF N
<1>4. rest \in Seq(Work) /\ Len(rest) = N
  BY <1>1, <1>2, <1>3
<1>5. \A i \in Keep(S) : Rank(S, i) \in 1 .. N /\ i = Nth(S, Rank(S, i))
  <2>1. ASSUME NEW i \in Keep(S), NEW k \in Keep(S), Rank(S, i) = Rank(S, k) PROVE i = k
    BY <1>2, <2>1, Ranks
  <2>. QED
    BY <1>3, <2>1, Ranks DEF N
<1>6. ToSet(rest) = ToSet(pending) \ S
  <2>1. ASSUME NEW x \in ToSet(rest) PROVE x \in ToSet(pending) \ S
    BY <1>1, <1>3 DEF ToSet, Keep
  <2>2. ASSUME NEW x \in ToSet(pending) \ S PROVE x \in ToSet(rest)
    <3>1. PICK i \in Keep(S) : x = pending[i]
      BY <2>2 DEF ToSet, Keep
    <3>. QED
      BY <1>1, <1>5, <3>1 DEF ToSet
  <2>. QED
    BY <2>1, <2>2
<1>7. ASSUME NEW m \in 1 .. N, NEW n \in 1 .. N, m < n
      PROVE  Nth(S, m) < Nth(S, n)
  <2>1. CASE Nth(S, m) = Nth(S, n)
    BY <1>3, <1>7, <2>1, <1>2
  <2>2. CASE Nth(S, n) < Nth(S, m)
    <3>1. Rank(S, Nth(S, n)) < Rank(S, Nth(S, m))
      BY <1>3, <2>2, Ranks
    <3>. QED
      BY <3>1, <1>3, <1>7, <1>2
  <2>. QED
    BY <1>2, <1>3, <2>1, <2>2
<1>8. IsInjective(rest)
  <2>1. ASSUME NEW m \in 1 .. N, NEW n \in 1 .. N, rest[m] = rest[n] PROVE m = n
    <3>1. Nth(S, m) = Nth(S, n)
      BY <1>1, <1>2, <1>3, <2>1 DEF IsInjective
    <3>. QED
      BY <3>1, <1>3
  <2>. QED
    BY <1>1, <2>1 DEF IsInjective
<1>9. ASSUME NEW m \in 1 .. N, NEW n \in 1 .. N, m < n
      PROVE  \E i, k \in 1 .. Len(pending) : i < k /\ rest[m] = pending[i] /\ rest[n] = pending[k]
  BY <1>1, <1>2, <1>3, <1>7, <1>9
<1>10. ASSUME NEW x, NEW y, Before(rest, x, y) PROVE Before(pending, x, y)
  <2>1. PICK m \in 1 .. N, n \in 1 .. N : m < n /\ rest[m] = x /\ rest[n] = y
    BY <1>4, <1>10 DEF Before
  <2>. QED
    BY <1>9, <2>1 DEF Before
<1>. QED
  BY <1>4, <1>6, <1>8, <1>10 DEF rest

-----------------------------------------------------------------------------
(* The jobs before the first call.                                         *)

Prefix == {n \in 1 .. Len(pending) : \A m \in 1 .. n : pending[m] \in Jobs}

LEMMA AheadIs ==
  ASSUME pending \in Seq(Work), IsInjective(pending)
  PROVE  /\ Ahead \subseteq Queued
         /\ \A c \in Calls, j \in Ahead : ~Before(pending, c, j)
         /\ Cardinality(Ahead) \in 0 .. Len(pending)
         /\ \A i \in 1 .. Cardinality(Ahead) : pending[i] \in Jobs
<1>. USE InferenceActorAssumption
<1>1. Ahead = {pending[n] : n \in Prefix}
  BY DEF Ahead, Prefix
<1>2. IsFiniteSet(Prefix) /\ Prefix \in SUBSET (1 .. Len(pending))
  <2>1. IsFiniteSet(1 .. Len(pending)) /\ Prefix \in SUBSET (1 .. Len(pending))
    BY FS_Interval DEF Prefix
  <2>. QED
    BY <2>1, FS_Subset
<1>3. Cardinality(Prefix) \in 0 .. Len(pending)
  <2>1. IsFiniteSet(1 .. Len(pending)) /\ Cardinality(1 .. Len(pending)) = Len(pending)
    BY FS_Interval
  <2>2. Cardinality(Prefix) <= Len(pending) /\ Cardinality(Prefix) \in Nat
    <3>. DEFINE T == 1 .. Len(pending)
    <3>1. IsFiniteSet(T) /\ Prefix \in SUBSET T
      BY <1>2, <2>1
    <3>2. Cardinality(Prefix) <= Cardinality(T) /\ Cardinality(Prefix) \in Nat
      <4>. HIDE DEF T
      <4>. QED
        BY <1>2, <3>1, FS_Subset, FS_CardinalityType
    <3>. QED
      BY <2>1, <3>2
  <2>. QED
    BY <2>2
<1>4. Cardinality(Ahead) = Cardinality(Prefix)
  <2>. DEFINE f == [n \in Prefix |-> pending[n]]
  <2>1. f \in Surjection(Prefix, Ahead)
    BY <1>1 DEF Surjection
  <2>2. \A m, n \in Prefix : f[m] = f[n] => m = n
    BY DEF Prefix, IsInjective
  <2>3. f \in Injection(Prefix, Ahead)
    BY <1>1, <2>2 DEF Injection, IsInjective
  <2>. QED
    BY <1>2, <2>1, <2>3, FS_Surjection
<1>5. ASSUME NEW i \in 1 .. Cardinality(Prefix) PROVE i \in Prefix
  <2>1. SUFFICES ASSUME i \notin Prefix PROVE FALSE
    OBVIOUS
  <2>2. i \in 1 .. Len(pending)
    BY <1>3
  <2>3. \A n \in Prefix : n < i
    BY <2>1, <2>2 DEF Prefix
  <2>4. Prefix \in SUBSET (1 .. i - 1)
    BY <1>2, <2>2, <2>3
  <2>5. IsFiniteSet(1 .. i - 1) /\ Cardinality(1 .. i - 1) = i - 1
    BY <2>2, FS_Interval
  <2>6. Cardinality(Prefix) <= Cardinality(1 .. i - 1)
    BY <2>4, <2>5, FS_Subset
  <2>. QED
    BY <1>3, <2>2, <2>5, <2>6
<1>6. \A i \in 1 .. Cardinality(Ahead) : pending[i] \in Jobs
  BY <1>3, <1>4, <1>5 DEF Prefix
<1>7. Ahead \subseteq Queued
  BY <1>1 DEF Prefix, Queued, ToSet
<1>8. ASSUME NEW c \in Calls, NEW j \in Ahead, Before(pending, c, j) PROVE FALSE
  <2>1. PICK i \in 1 .. Len(pending), k \in 1 .. Len(pending) :
          i < k /\ pending[i] = c /\ pending[k] = j
    BY <1>8 DEF Before
  <2>2. PICK n \in Prefix : j = pending[n]
    BY <1>1
  <2>3. n = k
    BY <2>1, <2>2 DEF Prefix, IsInjective
  <2>4. pending[i] \in Jobs
    BY <2>1, <2>2, <2>3 DEF Prefix
  <2>. QED
    BY <2>1, <2>4
<1>. QED
  BY <1>3, <1>4, <1>6, <1>7, <1>8
-----------------------------------------------------------------------------
(* The inductive invariant.                                                *)

Held == Queued \cup active \cup paused \cup Unpausing
Looping == pc \notin {"crashed", "stopping", "stopped"}

\* A job in the actor's hands lives and is in one of them.  A job that lives is in
\* its hands while the loop runs; at most one is not when the thread stops.
Places ==
    /\ \A j \in Held : Live(j)
    /\ Looping => \A j \in Jobs : Live(j) => j \in Held
    /\ pc # "stopped" =>
           \A i, j \in Jobs : Live(i) /\ Live(j) /\ i \notin Held /\ j \notin Held => i = j
    /\ Queued \cap active = {} /\ Queued \cap paused = {} /\ active \cap paused = {}
    /\ Unpausing \cap (Queued \cup active \cup paused) = {}

\* What each phase of the loop has before it.
Hands ==
    /\ pc \notin {"unpause", "advance"} => cur = {}
    /\ pc = "unpause" => todo \subseteq paused
    /\ pc = "advance" => cur \cup todo \subseteq active /\ cur \cap todo = {}
    /\ pc \in {"forward", "commit"} => todo \subseteq active \cap requested
    /\ pc = "commit" => todo \cap group = {} /\ \A j \in group : j \in active \/ Terminal(j)
    /\ Looping /\ pc # "commit" => group = {}
    /\ Looping /\ pc \notin {"barrier", "call"} => calling = {}
    /\ \A j \in started \cup requested : Live(j)

\* What the actor and the cache count of a job, between forward and commit.
Counts ==
    /\ \A j \in requested : computed[j] < MaxForwards
    /\ \A j \in Jobs \ Uncounted : cached[j] = computed[j]
    /\ \A j \in Uncounted :
           /\ cached[j] = computed[j] \/ cached[j] = computed[j] + 1
           /\ j \in cancel \cup late \/ cached[j] = computed[j] + 1

\* Where calls are, and how jobs and calls are ordered.  A call whose turn a
\* refused device call cut short is in hand for ever.
CallsQueued ==
    /\ \A c \in Calls : call[c] = "running" <=> pc = "call" /\ c \in calling
    /\ \A c \in Calls : c \in ToSet(pending) \/ (pc # "call" /\ c \in calling) => call[c] = "queued"
    /\ pc # "stopped" => \A c \in Calls : call[c] = "queued" => c \in ToSet(pending) \cup calling
    /\ calling \cap ToSet(pending) = {}

Unanswered(c) == call[c] \in {"queued", "running"}
Ordered ==
    /\ \A c \in Calls, j \in Jobs : Before(pending, c, j) => c \in behind[j]
    /\ \A c \in Calls, j \in Jobs : Before(pending, j, c) => c \notin behind[j]
    /\ \A j \in active \cup paused \cup Unpausing \cup started :
           \A c \in behind[j] : ~Unanswered(c)
    /\ \A j \in Jobs : \A c \in behind[j] : call[c] # "new"

\* While a call is taken from the queue and run, what is queued was submitted later.
Alone ==
    /\ pc \in {"barrier", "call"} =>
           active = {} /\ \A j \in Queued : calling \subseteq behind[j]
    /\ pc = "call" => paused = {}

AInv == TypeOK /\ Places /\ Hands /\ Counts /\ CallsQueued /\ Ordered /\ Alone

LEMMA InitInv == Init => AInv
<1>. SUFFICES ASSUME Init PROVE AInv
  OBVIOUS
<1>. USE InferenceActorAssumption DEF Init
<1>1. ToSet(pending) = {} /\ pending \in Seq(Work) /\ IsInjective(pending)
      /\ \A x, y : ~Before(pending, x, y)
  BY DEF ToSet, IsInjective, Before
<1>2. TypeOK
  <2>1. /\ pc \in Steps /\ todo \subseteq Jobs /\ group \subseteq Jobs /\ turn \in 0 .. Buffer + 1
        /\ cur \subseteq Jobs /\ calling \subseteq Calls /\ AtMostOne(cur) /\ AtMostOne(calling)
        /\ active \subseteq Jobs /\ paused \subseteq Jobs
        /\ epoch \in Nat
        /\ started \subseteq Jobs /\ requested \subseteq Jobs /\ delayed \subseteq Jobs
        /\ cancel \subseteq Jobs /\ late \subseteq Jobs
    BY DEF Steps, AtMostOne
  <2>4. closed \in BOOLEAN
    OBVIOUS
  <2>2. /\ phase \in [Jobs -> Ended \cup {"new", "refused", "live"}]
        /\ reader \in [Jobs -> {"none", "reading", "checking", "ended", "left"}]
        /\ call \in [Calls -> {"new", "refused", "queued", "running", "done", "failed", "stopped"}]
        /\ model \in [Jobs -> SUBSET Nat] /\ behind \in [Jobs -> SUBSET Calls]
    OBVIOUS
  <2>3. /\ computed \in [Jobs -> 0 .. MaxForwards] /\ cached \in [Jobs -> 0 .. MaxForwards]
        /\ items \in [Jobs -> 0 .. MaxItems] /\ unread \in [Jobs -> 0 .. Buffer]
        /\ defers \in [Jobs -> 0 .. MaxDefers]
    OBVIOUS
  <2>. QED
    BY <1>1, <2>1, <2>2, <2>3, <2>4 DEF TypeOK, Work
<1>3. Places
  BY <1>1 DEF Places, Held, Looping, Queued, Unpausing, Live
<1>4. Hands /\ Counts
  BY DEF Hands, Looping, Counts, Uncounted
<1>5. CallsQueued /\ Ordered /\ Alone
  BY <1>1 DEF CallsQueued, Ordered, Alone, Unpausing
<1>. QED
  BY <1>2, <1>3, <1>4, <1>5 DEF AInv

-----------------------------------------------------------------------------
(* The end of jobs.                                                        *)

\* The state loses all of the jobs in S but their answers.
Gone(S) ==
    /\ phase' \in [Jobs -> Ended \cup {"new", "refused", "live"}]
    /\ \A j \in Jobs : IF j \in S THEN phase'[j] \in Ended ELSE phase'[j] = phase[j]
    /\ active' = active \ S /\ paused' = paused \ S
    /\ started' = started \ S /\ requested' = requested \ S
    /\ delayed' = delayed \ S /\ cancel' = cancel \ S /\ late' = late \ S
    /\ model' \in [Jobs -> SUBSET Nat] /\ behind' \in [Jobs -> SUBSET Calls]
    /\ computed' \in [Jobs -> 0 .. MaxForwards] /\ cached' \in [Jobs -> 0 .. MaxForwards]
    /\ items' \in [Jobs -> 0 .. MaxItems] /\ defers' \in [Jobs -> 0 .. MaxDefers]
    /\ \A j \in Jobs : /\ computed'[j] = IF j \in S THEN 0 ELSE computed[j]
                       /\ cached'[j] = IF j \in S THEN 0 ELSE cached[j]
                       /\ behind'[j] = IF j \in S THEN {} ELSE behind[j]

LEMMA FinishIs ==
  ASSUME TypeOK, NEW S \in SUBSET Jobs, NEW out \in [S -> Ended], Finish(out)
  PROVE  Gone({j \in S : Live(j)})
<1>. USE InferenceActorAssumption
<1>. DEFINE G == {j \in S : Live(j)}
<1>0. G = {j \in DOMAIN out : Live(j)}
  OBVIOUS
<1>1. PICK broken \in SUBSET G :
        phase' = [j \in Jobs |-> IF j \in broken THEN "failed"
                                ELSE IF j \in G THEN out[j] ELSE phase[j]]
  BY <1>0 DEF Finish
<1>2. /\ phase' \in [Jobs -> Ended \cup {"new", "refused", "live"}]
      /\ \A j \in Jobs : IF j \in G THEN phase'[j] \in Ended ELSE phase'[j] = phase[j]
  BY <1>1 DEF TypeOK, Ended
<1>3. /\ active' = active \ G /\ paused' = paused \ G
      /\ started' = started \ G /\ requested' = requested \ G
      /\ delayed' = delayed \ G /\ cancel' = cancel \ G /\ late' = late \ G
  BY <1>0 DEF Finish
<1>4. /\ model' = [j \in Jobs |-> IF j \in G THEN {} ELSE model[j]]
      /\ computed' = [j \in Jobs |-> IF j \in G THEN 0 ELSE computed[j]]
      /\ cached' = [j \in Jobs |-> IF j \in G THEN 0 ELSE cached[j]]
      /\ items' = [j \in Jobs |-> IF j \in G THEN 0 ELSE items[j]]
      /\ defers' = [j \in Jobs |-> IF j \in G THEN 0 ELSE defers[j]]
      /\ behind' = [j \in Jobs |-> IF j \in G THEN {} ELSE behind[j]]
  BY <1>0 DEF Finish
<1>. HIDE DEF G
<1>5. /\ model' \in [Jobs -> SUBSET Nat] /\ behind' \in [Jobs -> SUBSET Calls]
      /\ computed' \in [Jobs -> 0 .. MaxForwards] /\ cached' \in [Jobs -> 0 .. MaxForwards]
      /\ items' \in [Jobs -> 0 .. MaxItems] /\ defers' \in [Jobs -> 0 .. MaxDefers]
  BY <1>4 DEF TypeOK
<1>6. Gone(G)
  BY <1>2, <1>3, <1>4, <1>5 DEF Gone
<1>. QED
  BY <1>6 DEF G

-----------------------------------------------------------------------------
(* Steps that leave the queue and the answers alone.                       *)

LEMMA CloseStep ==
  ASSUME AInv, Close
  PROVE  AInv'
<1>. USE InferenceActorAssumption DEF AInv
<1>1. TypeOK'
  BY DEF TypeOK, Steps, AtMostOne, Ended, Close, lists, flow, held, state, output, retry
<1>2. Places'
  BY DEF TypeOK, Places, Held, Looping, Hands, Queued, Unpausing, Live, Close, lists, flow, held,
     state, output, retry
<1>3. Hands'
  BY DEF TypeOK, Places, Held, Looping, Hands, Queued, Unpausing, Live, Terminal, Close, lists,
     flow, held, state, output, retry
<1>4. Counts'
  BY DEF TypeOK, Hands, Looping, Counts, Uncounted, Close, lists, flow, held, state, output, retry
<1>5. CallsQueued'
  BY DEF TypeOK, Hands, Looping, CallsQueued, Close, lists, flow, held, state, output, retry
<1>6. Ordered'
  BY DEF TypeOK, Places, Held, Looping, Hands, Ordered, CallsQueued, Unanswered, Unpausing,
     Queued, Live, Close, lists, flow, held, state, output, retry
<1>7. Alone'
  BY DEF TypeOK, Places, Held, Looping, Hands, Alone, CallsQueued, Queued, Unpausing, Live, Close,
     lists, flow, held, state, output, retry
<1>. QED
  BY <1>1, <1>2, <1>3, <1>4, <1>5, <1>6, <1>7

LEMMA ExpireStep ==
  ASSUME AInv, NEW j \in Jobs, Expire(j)
  PROVE  AInv'
<1>. USE InferenceActorAssumption DEF AInv
<1>1. TypeOK'
  BY DEF TypeOK, Steps, AtMostOne, Ended, Expire, lists, flow, held, state, output, retry
<1>2. Places'
  BY DEF TypeOK, Places, Held, Looping, Hands, Queued, Unpausing, Live, Expire, lists, flow, held,
     state, output, retry
<1>3. Hands'
  BY DEF TypeOK, Places, Held, Looping, Hands, Queued, Unpausing, Live, Terminal, Expire, lists,
     flow, held, state, output, retry
<1>4. Counts'
  BY DEF TypeOK, Hands, Looping, Counts, Uncounted, Expire, lists, flow, held, state, output, retry
<1>5. CallsQueued'
  BY DEF TypeOK, Hands, Looping, CallsQueued, Expire, lists, flow, held, state, output, retry
<1>6. Ordered'
  BY DEF TypeOK, Places, Held, Looping, Hands, Ordered, CallsQueued, Unanswered, Unpausing,
     Queued, Live, Expire, lists, flow, held, state, output, retry
<1>7. Alone'
  BY DEF TypeOK, Places, Held, Looping, Hands, Alone, CallsQueued, Queued, Unpausing, Live,
     Expire, lists, flow, held, state, output, retry
<1>. QED
  BY <1>1, <1>2, <1>3, <1>4, <1>5, <1>6, <1>7

LEMMA RetryElapsesStep ==
  ASSUME AInv, NEW j \in Jobs, RetryElapses(j)
  PROVE  AInv'
<1>. USE InferenceActorAssumption DEF AInv
<1>1. TypeOK'
  BY DEF TypeOK, Steps, AtMostOne, Ended, RetryElapses, lists, flow, held, state, output
<1>2. Places'
  BY DEF TypeOK, Places, Held, Looping, Hands, Queued, Unpausing, Live, RetryElapses, lists, flow,
     held, state, output
<1>3. Hands'
  BY DEF TypeOK, Places, Held, Looping, Hands, Queued, Unpausing, Live, Terminal, RetryElapses,
     lists, flow, held, state, output
<1>4. Counts'
  BY DEF TypeOK, Hands, Looping, Counts, Uncounted, RetryElapses, lists, flow, held, state, output
<1>5. CallsQueued'
  BY DEF TypeOK, Hands, Looping, CallsQueued, RetryElapses, lists, flow, held, state, output
<1>6. Ordered'
  BY DEF TypeOK, Places, Held, Looping, Hands, Ordered, CallsQueued, Unanswered, Unpausing,
     Queued, Live, RetryElapses, lists, flow, held, state, output
<1>7. Alone'
  BY DEF TypeOK, Places, Held, Looping, Hands, Alone, CallsQueued, Queued, Unpausing, Live,
     RetryElapses, lists, flow, held, state, output
<1>. QED
  BY <1>1, <1>2, <1>3, <1>4, <1>5, <1>6, <1>7

LEMMA GetStep ==
  ASSUME AInv, NEW j \in Jobs, Get(j)
  PROVE  AInv'
<1>. USE InferenceActorAssumption DEF AInv
<1>1. TypeOK'
  BY SMTT(30) DEF TypeOK, Steps, AtMostOne, Ended, Get, lists, flow, held, state, retry, Reads
<1>2. Places'
  BY DEF TypeOK, Places, Held, Looping, Hands, Queued, Unpausing, Live, Get, lists, flow, held,
     state, retry, Reads
<1>3. Hands'
  BY DEF TypeOK, Places, Held, Looping, Hands, Queued, Unpausing, Live, Terminal, Get, lists,
     flow, held, state, retry, Reads
<1>4. Counts'
  BY DEF TypeOK, Hands, Looping, Counts, Uncounted, Get, lists, flow, held, state, retry, Reads
<1>5. CallsQueued'
  BY DEF TypeOK, Hands, Looping, CallsQueued, Get, lists, flow, held, state, retry, Reads
<1>6. Ordered'
  BY DEF TypeOK, Places, Held, Looping, Hands, Ordered, CallsQueued, Unanswered, Unpausing,
     Queued, Live, Get, lists, flow, held, state, retry, Reads
<1>7. Alone'
  BY DEF TypeOK, Places, Held, Looping, Hands, Alone, CallsQueued, Queued, Unpausing, Live, Get,
     lists, flow, held, state, retry, Reads
<1>. QED
  BY <1>1, <1>2, <1>3, <1>4, <1>5, <1>6, <1>7

LEMMA GetTimesOutStep ==
  ASSUME AInv, NEW j \in Jobs, GetTimesOut(j)
  PROVE  AInv'
<1>. USE InferenceActorAssumption DEF AInv
<1>1. TypeOK'
  BY DEF TypeOK, Steps, AtMostOne, Ended, GetTimesOut, lists, flow, held, state, retry, Reads
<1>2. Places'
  BY DEF TypeOK, Places, Held, Looping, Hands, Queued, Unpausing, Live, GetTimesOut, lists, flow,
     held, state, retry, Reads
<1>3. Hands'
  BY DEF TypeOK, Places, Held, Looping, Hands, Queued, Unpausing, Live, Terminal, GetTimesOut,
     lists, flow, held, state, retry, Reads
<1>4. Counts'
  BY DEF TypeOK, Hands, Looping, Counts, Uncounted, GetTimesOut, lists, flow, held, state, retry,
     Reads
<1>5. CallsQueued'
  BY DEF TypeOK, Hands, Looping, CallsQueued, GetTimesOut, lists, flow, held, state, retry, Reads
<1>6. Ordered'
  BY DEF TypeOK, Places, Held, Looping, Hands, Ordered, CallsQueued, Unanswered, Unpausing,
     Queued, Live, GetTimesOut, lists, flow, held, state, retry, Reads
<1>7. Alone'
  BY DEF TypeOK, Places, Held, Looping, Hands, Alone, CallsQueued, Queued, Unpausing, Live,
     GetTimesOut, lists, flow, held, state, retry, Reads
<1>. QED
  BY <1>1, <1>2, <1>3, <1>4, <1>5, <1>6, <1>7

LEMMA CheckTerminalStep ==
  ASSUME AInv, NEW j \in Jobs, CheckTerminal(j)
  PROVE  AInv'
<1>. USE InferenceActorAssumption DEF AInv
<1>1. TypeOK'
  BY DEF TypeOK, Steps, AtMostOne, Ended, CheckTerminal, lists, flow, held, state, retry, Reads
<1>2. Places'
  BY DEF TypeOK, Places, Held, Looping, Hands, Queued, Unpausing, Live, CheckTerminal, lists,
     flow, held, state, retry, Reads
<1>3. Hands'
  BY DEF TypeOK, Places, Held, Looping, Hands, Queued, Unpausing, Live, Terminal, CheckTerminal,
     lists, flow, held, state, retry, Reads
<1>4. Counts'
  BY DEF TypeOK, Hands, Looping, Counts, Uncounted, CheckTerminal, lists, flow, held, state,
     retry, Reads
<1>5. CallsQueued'
  BY DEF TypeOK, Hands, Looping, CallsQueued, CheckTerminal, lists, flow, held, state, retry, Reads
<1>6. Ordered'
  BY DEF TypeOK, Places, Held, Looping, Hands, Ordered, CallsQueued, Unanswered, Unpausing,
     Queued, Live, CheckTerminal, lists, flow, held, state, retry, Reads
<1>7. Alone'
  BY DEF TypeOK, Places, Held, Looping, Hands, Alone, CallsQueued, Queued, Unpausing, Live,
     CheckTerminal, lists, flow, held, state, retry, Reads
<1>. QED
  BY <1>1, <1>2, <1>3, <1>4, <1>5, <1>6, <1>7

LEMMA AbandonStep ==
  ASSUME AInv, NEW j \in Jobs, Abandon(j)
  PROVE  AInv'
<1>. USE InferenceActorAssumption DEF AInv
<1>1. TypeOK'
  BY DEF TypeOK, Steps, AtMostOne, Ended, Abandon, lists, flow, held, state, retry, Reads
<1>2. Places'
  BY DEF TypeOK, Places, Held, Looping, Hands, Queued, Unpausing, Live, Abandon, lists, flow,
     held, state, retry, Reads
<1>3. Hands'
  BY DEF TypeOK, Places, Held, Looping, Hands, Queued, Unpausing, Live, Terminal, Abandon, lists,
     flow, held, state, retry, Reads
<1>4. Counts'
  BY DEF TypeOK, Hands, Looping, Counts, Uncounted, Abandon, lists, flow, held, state, retry, Reads
<1>5. CallsQueued'
  BY DEF TypeOK, Hands, Looping, CallsQueued, Abandon, lists, flow, held, state, retry, Reads
<1>6. Ordered'
  BY DEF TypeOK, Places, Held, Looping, Hands, Ordered, CallsQueued, Unanswered, Unpausing,
     Queued, Live, Abandon, lists, flow, held, state, retry, Reads
<1>7. Alone'
  BY DEF TypeOK, Places, Held, Looping, Hands, Alone, CallsQueued, Queued, Unpausing, Live,
     Abandon, lists, flow, held, state, retry, Reads
<1>. QED
  BY <1>1, <1>2, <1>3, <1>4, <1>5, <1>6, <1>7

LEMMA BeginStep ==
  ASSUME AInv, Begin
  PROVE  AInv'
<1>. USE InferenceActorAssumption DEF AInv
<1>1. TypeOK'
  BY DEF TypeOK, Steps, AtMostOne, Ended, Begin, Quiet, NoneEnds, lists, held, state, output,
     retry, Goto
<1>2. Places'
  BY DEF TypeOK, Places, Held, Looping, Hands, Queued, Unpausing, Live, Begin, Quiet, NoneEnds,
     lists, held, state, output, retry, Goto
<1>3. Hands'
  BY DEF TypeOK, Places, Held, Looping, Hands, Queued, Unpausing, Live, Begin, Quiet, NoneEnds,
     lists, held, state, output, retry, Goto
<1>4. Counts'
  BY DEF TypeOK, Hands, Looping, Counts, Uncounted, Begin, Quiet, NoneEnds, lists, held, state,
     output, retry, Goto
<1>5. CallsQueued'
  BY DEF TypeOK, Hands, Looping, CallsQueued, Begin, Quiet, NoneEnds, lists, held, state, output,
     retry, Goto
<1>6. Ordered'
  BY DEF TypeOK, Places, Held, Looping, Hands, Ordered, CallsQueued, Unanswered, Unpausing,
     Queued, Live, Begin, Quiet, NoneEnds, lists, held, state, output, retry, Goto
<1>7. Alone'
  BY DEF TypeOK, Places, Held, Looping, Hands, Alone, CallsQueued, Queued, Unpausing, Live, Begin,
     Quiet, NoneEnds, lists, held, state, output, retry, Goto
<1>. QED
  BY <1>1, <1>2, <1>3, <1>4, <1>5, <1>6, <1>7

LEMMA UnpauseStep ==
  ASSUME AInv, NEW j \in Jobs, Unpause(j)
  PROVE  AInv'
<1>. USE InferenceActorAssumption DEF AInv
<1>1. TypeOK'
  BY DEF TypeOK, Steps, AtMostOne, Ended, Unpause, Quiet, NoneEnds, held, state, output, retry,
     Visited, Full
<1>2. Places'
  BY DEF TypeOK, Places, Held, Looping, Hands, Queued, Unpausing, Live, Unpause, Quiet, NoneEnds,
     held, state, output, retry, Visited, Full
<1>3. Hands'
  BY DEF TypeOK, Places, Held, Looping, Hands, Queued, Unpausing, Live, Unpause, Quiet, NoneEnds,
     held, state, output, retry, Visited, Full
<1>4. Counts'
  BY DEF TypeOK, Hands, Looping, Counts, Uncounted, Unpause, Quiet, NoneEnds, held, state, output,
     retry, Visited, Full
<1>5. CallsQueued'
  BY DEF TypeOK, Hands, Looping, CallsQueued, Unpause, Quiet, NoneEnds, held, state, output, retry,
     Visited, Full
<1>6. Ordered'
  BY DEF TypeOK, Places, Held, Looping, Hands, Ordered, CallsQueued, Unanswered, Unpausing,
     Queued, Live, Unpause, Quiet, NoneEnds, held, state, output, retry, Visited, Full
<1>7. Alone'
  BY DEF TypeOK, Places, Held, Looping, Hands, Alone, CallsQueued, Queued, Unpausing, Live,
     Unpause, Quiet, NoneEnds, held, state, output, retry, Visited, Full
<1>. QED
  BY <1>1, <1>2, <1>3, <1>4, <1>5, <1>6, <1>7

LEMMA StallStep ==
  ASSUME AInv, NEW j \in Jobs, Stall(j)
  PROVE  AInv'
<1>. USE InferenceActorAssumption DEF AInv
<1>1. TypeOK'
  BY DEF TypeOK, Steps, AtMostOne, Ended, Stall, Quiet, NoneEnds, held, state, output, retry,
     Visited, Full
<1>2. Places'
  BY DEF TypeOK, Places, Held, Looping, Hands, Queued, Unpausing, Live, Stall, Quiet, NoneEnds,
     held, state, output, retry, Visited, Full
<1>3. Hands'
  BY DEF TypeOK, Places, Held, Looping, Hands, Queued, Unpausing, Live, Stall, Quiet, NoneEnds,
     held, state, output, retry, Visited, Full
<1>4. Counts'
  BY DEF TypeOK, Hands, Looping, Counts, Uncounted, Stall, Quiet, NoneEnds, held, state, output,
     retry, Visited, Full
<1>5. CallsQueued'
  BY DEF TypeOK, Hands, Looping, CallsQueued, Stall, Quiet, NoneEnds, held, state, output, retry,
     Visited, Full
<1>6. Ordered'
  BY DEF TypeOK, Places, Held, Looping, Hands, Ordered, CallsQueued, Unanswered, Unpausing,
     Queued, Live, Stall, Quiet, NoneEnds, held, state, output, retry, Visited, Full
<1>7. Alone'
  BY DEF TypeOK, Places, Held, Looping, Hands, Alone, CallsQueued, Queued, Unpausing, Live, Stall,
     Quiet, NoneEnds, held, state, output, retry, Visited, Full
<1>. QED
  BY <1>1, <1>2, <1>3, <1>4, <1>5, <1>6, <1>7

LEMMA ResumeStep ==
  ASSUME AInv, NEW j \in Jobs, Resume(j)
  PROVE  AInv'
<1>. USE InferenceActorAssumption DEF AInv
<1>1. TypeOK'
  BY DEF TypeOK, Steps, AtMostOne, Ended, Resume, Quiet, NoneEnds, lists, held, state, output,
     retry, Visited, Full
<1>2. Places'
  BY DEF TypeOK, Places, Held, Looping, Hands, Queued, Unpausing, Live, Resume, Quiet, NoneEnds,
     lists, held, state, output, retry, Visited, Full
<1>3. Hands'
  BY DEF TypeOK, Places, Held, Looping, Hands, Queued, Unpausing, Live, Resume, Quiet, NoneEnds,
     lists, held, state, output, retry, Visited, Full
<1>4. Counts'
  BY DEF TypeOK, Hands, Looping, Counts, Uncounted, Resume, Quiet, NoneEnds, lists, held, state,
     output, retry, Visited, Full
<1>5. CallsQueued'
  BY DEF TypeOK, Hands, Looping, CallsQueued, Resume, Quiet, NoneEnds, lists, held, state, output,
     retry, Visited, Full
<1>6. Ordered'
  BY DEF TypeOK, Places, Held, Looping, Hands, Ordered, CallsQueued, Unanswered, Unpausing,
     Queued, Live, Resume, Quiet, NoneEnds, lists, held, state, output, retry, Visited, Full
<1>7. Alone'
  BY DEF TypeOK, Places, Held, Looping, Hands, Alone, CallsQueued, Queued, Unpausing, Live,
     Resume, Quiet, NoneEnds, lists, held, state, output, retry, Visited, Full
<1>. QED
  BY <1>1, <1>2, <1>3, <1>4, <1>5, <1>6, <1>7

LEMMA RequestStep ==
  ASSUME AInv, NEW j \in Jobs, Request(j)
  PROVE  AInv'
<1>. USE InferenceActorAssumption DEF AInv
<1>1. TypeOK'
  <2>1. /\ model' \in [Jobs -> SUBSET Nat] /\ started' \subseteq Jobs /\ requested' \subseteq Jobs
        /\ turn' \in 0 .. Buffer + 1 /\ cur' \subseteq Jobs /\ AtMostOne(cur')
    <3>1. model' \in [Jobs -> SUBSET Nat]
      BY SMTT(30) DEF TypeOK, Request
    <3>. QED
      BY <3>1 DEF TypeOK, Request, Unhand, AtMostOne
  <2>2. UNCHANGED <<pc, todo, group, calling, pending, active, paused, closed, epoch, phase,
                    computed, cached, items, unread, reader, delayed, defers, cancel, late, call,
                    behind>>
    BY DEF Request, Quiet, lists, output, retry
  <2>. QED
    BY <2>1, <2>2 DEF TypeOK, AtMostOne
<1>2. Places'
  BY DEF TypeOK, Places, Held, Looping, Hands, Queued, Unpausing, Live, Request, Quiet, lists,
     output, retry, Unhand, Full, Goes
<1>3. Hands'
  BY DEF TypeOK, Places, Held, Looping, Hands, Queued, Unpausing, Live, Request, Quiet, lists,
     output, retry, Unhand, Full, Goes
<1>4. Counts'
  BY DEF TypeOK, Hands, Looping, Counts, Uncounted, Request, Quiet, lists, output, retry, Unhand,
     Full, Goes
<1>5. CallsQueued'
  BY DEF TypeOK, Hands, Looping, CallsQueued, Request, Quiet, lists, output, retry, Unhand, Full,
     Goes
<1>6. Ordered'
  BY DEF TypeOK, Places, Held, Looping, Hands, Ordered, CallsQueued, Unanswered, Unpausing,
     Queued, Live, Request, Quiet, lists, output, retry, Unhand, Full, Goes
<1>7. Alone'
  BY DEF TypeOK, Places, Held, Looping, Hands, Alone, CallsQueued, Queued, Unpausing, Live,
     Request, Quiet, lists, output, retry, Unhand, Full, Goes
<1>. QED
  BY <1>1, <1>2, <1>3, <1>4, <1>5, <1>6, <1>7

LEMMA EmitStep ==
  ASSUME AInv, NEW j \in Jobs, Emit(j)
  PROVE  AInv'
<1>. USE InferenceActorAssumption DEF AInv
<1>1. TypeOK'
  <2>1. /\ items' \in [Jobs -> 0 .. MaxItems] /\ unread' \in [Jobs -> 0 .. Buffer]
        /\ turn' \in 0 .. Buffer + 1
    BY DEF TypeOK, Emit, Full, Goes
  <2>. QED
    BY <2>1 DEF TypeOK, Emit, lists, state, retry
<1>2. Places'
  BY DEF TypeOK, Places, Held, Looping, Hands, Queued, Unpausing, Live, Emit, lists, state, retry,
     Full, Goes
<1>3. Hands'
  BY DEF TypeOK, Places, Held, Looping, Hands, Queued, Unpausing, Live, Emit, lists, state, retry,
     Full, Goes
<1>4. Counts'
  BY DEF TypeOK, Hands, Looping, Counts, Uncounted, Emit, lists, state, retry, Full, Goes
<1>5. CallsQueued'
  BY DEF TypeOK, Hands, Looping, CallsQueued, Emit, lists, state, retry, Full, Goes
<1>6. Ordered'
  BY DEF TypeOK, Places, Held, Looping, Hands, Ordered, CallsQueued, Unanswered, Unpausing,
     Queued, Live, Emit, lists, state, retry, Full, Goes
<1>7. Alone'
  BY DEF TypeOK, Places, Held, Looping, Hands, Alone, CallsQueued, Queued, Unpausing, Live, Emit,
     lists, state, retry, Full, Goes
<1>. QED
  BY <1>1, <1>2, <1>3, <1>4, <1>5, <1>6, <1>7

LEMMA LeaveStep ==
  ASSUME AInv, NEW j \in Jobs, Leave(j)
  PROVE  AInv'
<1>. USE InferenceActorAssumption DEF AInv
<1>1. TypeOK'
  BY SMTT(30) DEF TypeOK, Steps, AtMostOne, Ended, Leave, Quiet, NoneEnds, lists, held, state,
     output, retry, Unhand, Full
<1>2. Places'
  BY DEF TypeOK, Places, Held, Looping, Hands, Queued, Unpausing, Live, Leave, Quiet, NoneEnds,
     lists, held, state, output, retry, Unhand, Full
<1>3. Hands'
  BY DEF TypeOK, Places, Held, Looping, Hands, Queued, Unpausing, Live, Leave, Quiet, NoneEnds,
     lists, held, state, output, retry, Unhand, Full
<1>4. Counts'
  BY DEF TypeOK, Hands, Looping, Counts, Uncounted, Leave, Quiet, NoneEnds, lists, held, state,
     output, retry, Unhand, Full
<1>5. CallsQueued'
  BY DEF TypeOK, Hands, Looping, CallsQueued, Leave, Quiet, NoneEnds, lists, held, state, output,
     retry, Unhand, Full
<1>6. Ordered'
  BY DEF TypeOK, Places, Held, Looping, Hands, Ordered, CallsQueued, Unanswered, Unpausing,
     Queued, Live, Leave, Quiet, NoneEnds, lists, held, state, output, retry, Unhand, Full
<1>7. Alone'
  BY DEF TypeOK, Places, Held, Looping, Hands, Alone, CallsQueued, Queued, Unpausing, Live, Leave,
     Quiet, NoneEnds, lists, held, state, output, retry, Unhand, Full
<1>. QED
  BY <1>1, <1>2, <1>3, <1>4, <1>5, <1>6, <1>7

LEMMA RunCallStep ==
  ASSUME AInv, RunCall
  PROVE  AInv'
<1>. USE InferenceActorAssumption DEF AInv
<1>1. TypeOK'
  BY DEF TypeOK, Steps, AtMostOne, Ended, RunCall, NoneEnds, lists, held, state, output, retry,
     Goto
<1>2. Places'
  BY DEF TypeOK, Places, Held, Looping, Hands, Queued, Unpausing, Live, RunCall, NoneEnds, lists,
     held, state, output, retry, Goto
<1>3. Hands'
  BY DEF TypeOK, Places, Held, Looping, Hands, Queued, Unpausing, Live, RunCall, NoneEnds, lists,
     held, state, output, retry, Goto
<1>4. Counts'
  BY DEF TypeOK, Hands, Looping, Counts, Uncounted, RunCall, NoneEnds, lists, held, state, output,
     retry, Goto
<1>5. CallsQueued'
  BY DEF TypeOK, Hands, Looping, CallsQueued, RunCall, NoneEnds, lists, held, state, output,
     retry, Goto
<1>6. Ordered'
  BY DEF TypeOK, Places, Held, Looping, Hands, Ordered, CallsQueued, Unanswered, Unpausing,
     Queued, Live, RunCall, NoneEnds, lists, held, state, output, retry, Goto
<1>7. Alone'
  BY DEF TypeOK, Places, Held, Looping, Hands, Alone, CallsQueued, Queued, Unpausing, Live,
     RunCall, NoneEnds, lists, held, state, output, retry, Goto
<1>. QED
  BY <1>1, <1>2, <1>3, <1>4, <1>5, <1>6, <1>7

-----------------------------------------------------------------------------
(* Steps that change the queue.                                            *)

LEMMA BeforeIn ==
  ASSUME NEW s \in Seq(Work), NEW x, NEW y, Before(s, x, y)
  PROVE  x \in ToSet(s) /\ y \in ToSet(s)
  BY DEF Before, ToSet

LEMMA BeforeTotal ==
  ASSUME NEW s \in Seq(Work), NEW x \in ToSet(s), NEW y \in ToSet(s), x # y
  PROVE  Before(s, x, y) \/ Before(s, y, x)
<1>1. PICK i \in 1 .. Len(s), k \in 1 .. Len(s) : s[i] = x /\ s[k] = y
  BY DEF ToSet
<1>. QED
  BY <1>1 DEF Before

LEMMA QueueType ==
  ASSUME AInv
  PROVE  pending \in Seq(Work) /\ IsInjective(pending) /\ ToSet(pending) \subseteq Work
  BY DEF AInv, TypeOK, Work, ToSet

LEMMA HandsType ==
  ASSUME AInv
  PROVE  /\ active \cup paused \cup Unpausing \cup started \subseteq Jobs
         /\ \A j \in Jobs : behind[j] \subseteq Calls
  BY DEF AInv, TypeOK, Unpausing

LEMMA SubmitStep ==
  ASSUME AInv, NEW j \in Jobs, Submit(j)
  PROVE  AInv'
<1>. USE InferenceActorAssumption DEF AInv
<1>1. /\ pending' \in Seq(Work) /\ IsInjective(pending')
      /\ ToSet(pending') = IF pending' = pending THEN ToSet(pending) ELSE ToSet(pending) \cup {j}
      /\ \A x, y : Before(pending', x, y) => Before(pending, x, y)
                                           \/ (x \in ToSet(pending) /\ y = j /\ pending' # pending)
      /\ j \notin ToSet(pending) /\ ~Live(j)
  <2>1. ~Live(j) /\ j \notin ToSet(pending)
    BY DEF Submit, Live, Places, Held, Looping, Queued
  <2>2. CASE pending' = pending
    BY <2>1, <2>2, QueueType
  <2>3. CASE pending' # pending
    <3>1. pending' = Append(pending, j)
      BY <2>3 DEF Submit
    <3>. QED
      BY <2>1, <2>3, <3>1, QueueType, AppendIs DEF Work
  <2>. QED
    BY <2>2, <2>3
<1>2. \A x, y : Before(pending, x, y) => x \in ToSet(pending) /\ y \in ToSet(pending)
  BY QueueType, BeforeIn
<1>3. /\ \A i \in Jobs \ {j} : behind'[i] = behind[i]
      /\ UNCHANGED <<call, active, paused, started, Unpausing>>
      /\ behind'[j] \in {behind[j], {c \in Calls : Unanswered(c)}}
      /\ \A c \in Calls : pending' # pending /\ Unanswered(c) => c \in behind'[j]
  BY DEF TypeOK, Submit, flow, held, Unpausing, Unanswered
<1>4. j \notin active \cup paused \cup Unpausing \cup started
  BY <1>1 DEF Places, Held, Looping, Hands
<1>5. TypeOK'
  <2>1. behind' \in [Jobs -> SUBSET Calls]
    <3>. DEFINE S == {c \in Calls : call[c] \in {"queued", "running"}}
    <3>1. S \in SUBSET Calls
      OBVIOUS
    <3>2. behind' = behind \/ behind' = [behind EXCEPT ![j] = S]
      BY DEF Submit
    <3>. HIDE DEF S
    <3>. QED
      BY SMTT(30), <3>1, <3>2 DEF TypeOK
  <2>. QED
    <3>1. pending' \in Seq(Jobs \cup Calls) /\ IsInjective(pending')
      BY <1>1 DEF Work
    <3>2. phase' \in [Jobs -> Ended \cup {"new", "refused", "live"}]
      BY ZenonT(60) DEF TypeOK, Submit
    <3>3. reader' \in [Jobs -> {"none", "reading", "checking", "ended", "left"}]
      BY DEF TypeOK, Submit
    <3>4. UNCHANGED <<pc, todo, cur, turn, group, calling, active, paused, closed, epoch, started,
                      requested, model, computed, cached, items, unread, delayed, defers, cancel,
                      late, call>>
      BY DEF Submit, flow, held, state, retry
    <3>. QED
      BY <2>1, <3>1, <3>2, <3>3, <3>4 DEF TypeOK, AtMostOne
<1>6. Places'
  <2>1. UNCHANGED <<active, paused, Unpausing>> /\ j \notin active \cup paused \cup Unpausing
    BY <1>3, <1>4
  <2>2. \A i \in Jobs \ {j} : Live(i)' <=> Live(i)
    BY DEF TypeOK, Submit, Live
  <2>3. Live(j)' <=> pending' # pending
    <3>1. Append(pending, j) # pending
      BY QueueType
    <3>. QED
      BY <3>1 DEF TypeOK, Submit, Live
  <2>4. Queued' = IF pending' = pending THEN Queued ELSE Queued \cup {j}
    BY <1>1 DEF Queued
  <2>. QED
    <3>1. Held' = (IF pending' = pending THEN Held ELSE Held \cup {j}) /\ j \notin Held /\ ~Live(j)
      BY <2>1, <2>4, <1>4, <1>1 DEF Held, Submit, Live, Queued
    <3>2. UNCHANGED pc
      BY DEF Submit, flow
    <3>3. \A i \in Held' : Live(i)'
      BY <2>2, <2>3, <3>1 DEF Places, Held, TypeOK, Queued, Unpausing
    <3>4. Looping' => \A i \in Jobs : Live(i)' => i \in Held'
      BY <2>2, <2>3, <3>1, <3>2 DEF Places, Looping
    <3>5. pc' # "stopped" => \A i, k \in Jobs :
             Live(i)' /\ Live(k)' /\ i \notin Held' /\ k \notin Held' => i = k
      BY <2>2, <2>3, <3>1, <3>2 DEF Places
    <3>6. \A i : i \in Queued' => i \in Queued \/ i = j
      BY <2>4
    <3>. QED
      BY <2>1, <3>3, <3>4, <3>5, <3>6 DEF Places
<1>7. Hands'
  <2>1. \A i \in Jobs : (Live(i) => Live(i)') /\ (Terminal(i) => Terminal(i)')
    BY DEF TypeOK, Submit, Live, Terminal, Ended
  <2>. QED
    BY <2>1 DEF TypeOK, Looping, Hands, Submit, flow, held
<1>8. Counts'
  BY <1>1, <1>2 DEF TypeOK, Hands, Looping, Counts, Uncounted, Submit, flow, held, state, retry,
     HasRoom
<1>9. CallsQueued'
  BY <1>1, <1>2 DEF TypeOK, Hands, Looping, CallsQueued, Submit, flow, held, state, retry, HasRoom
<1>10. Ordered'
  <2>1. \A d \in Calls, i \in Jobs : Before(pending', d, i) => d \in behind'[i]
    BY <1>1, <1>2, <1>3, <1>4, HandsType DEF Ordered, CallsQueued, Unanswered
  <2>2. \A d \in Calls, i \in Jobs : Before(pending', i, d) => d \notin behind'[i]
    BY <1>1, <1>2, <1>3, <1>4, HandsType DEF Ordered, CallsQueued, Unanswered
  <2>3. \A i \in (active \cup paused \cup Unpausing \cup started)' : \A d \in behind'[i] : ~Unanswered(d)'
    BY <1>1, <1>2, <1>3, <1>4, HandsType DEF Ordered, CallsQueued, Unanswered
  <2>4. \A i \in Jobs : \A d \in behind'[i] : call'[d] # "new"
    BY <1>1, <1>2, <1>3, <1>4, HandsType DEF Ordered, CallsQueued, Unanswered
  <2>. QED
    BY <2>1, <2>2, <2>3, <2>4 DEF Ordered
<1>11. Alone'
  BY SMTT(30), <1>1, <1>2 DEF TypeOK, Places, Held, Looping, Hands, Alone, CallsQueued, Queued,
     Unpausing, Live, Submit, flow, held, state, retry, HasRoom
<1>. QED
  BY <1>5, <1>6, <1>7, <1>8, <1>9, <1>10, <1>11

LEMMA ExecuteStep ==
  ASSUME AInv, NEW c \in Calls, Execute(c)
  PROVE  AInv'
<1>. USE InferenceActorAssumption DEF AInv
<1>1. /\ pending' \in Seq(Work) /\ IsInjective(pending')
      /\ ToSet(pending') = IF pending' = pending THEN ToSet(pending) ELSE ToSet(pending) \cup {c}
      /\ \A x, y : Before(pending', x, y) => Before(pending, x, y)
                                           \/ (x \in ToSet(pending) /\ y = c /\ pending' # pending)
      /\ c \notin ToSet(pending) /\ c \notin Jobs
  <2>1. c \notin ToSet(pending) /\ c \notin Jobs
    BY DEF Execute, CallsQueued
  <2>2. CASE pending' = pending
    BY <2>1, <2>2, QueueType
  <2>3. CASE pending' # pending
    <3>1. pending' = Append(pending, c)
      BY <2>3 DEF Execute
    <3>. QED
      BY <2>1, <2>3, <3>1, QueueType, AppendIs DEF Work
  <2>. QED
    BY <2>2, <2>3
<1>2. \A x, y : Before(pending, x, y) => x \in ToSet(pending) /\ y \in ToSet(pending)
  BY QueueType, BeforeIn
<1>3. /\ UNCHANGED <<behind, active, paused, started, Unpausing>> /\ call[c] = "new"
      /\ \A d \in Calls \ {c} : call'[d] = call[d]
      /\ call'[c] # "new" /\ (c \in ToSet(pending') => call'[c] = "queued")
      /\ \A i \in Jobs : c \notin behind[i]
  BY <1>1 DEF TypeOK, Execute, flow, held, Unpausing, Ordered
<1>4. TypeOK'
  <2>1. pending' \in Seq(Jobs \cup Calls) /\ IsInjective(pending')
    BY <1>1 DEF Work
  <2>2. call' \in [Calls -> {"new", "refused", "queued", "running", "done", "failed", "stopped"}]
    BY ZenonT(60) DEF TypeOK, Execute
  <2>3. UNCHANGED <<pc, todo, cur, turn, group, calling, active, paused, closed, epoch, phase,
                    started, requested, model, computed, cached, items, unread, reader, delayed,
                    defers, cancel, late, behind>>
    BY DEF Execute, flow, held, state, output, retry
  <2>. QED
    BY <2>1, <2>2, <2>3 DEF TypeOK, AtMostOne
<1>5. Places'
  BY <1>1, <1>2 DEF TypeOK, Places, Held, Looping, Hands, Queued, Unpausing, Live, Execute, flow,
     held, state, output, retry
<1>6. Hands'
  BY <1>1, <1>2 DEF TypeOK, Places, Held, Looping, Hands, Queued, Unpausing, Live, Terminal,
     Execute, flow, held, state, output, retry
<1>7. Counts'
  BY <1>1, <1>2 DEF TypeOK, Hands, Looping, Counts, Uncounted, Execute, flow, held, state, output,
     retry
<1>8. CallsQueued'
  BY <1>1, <1>2 DEF TypeOK, Hands, Looping, CallsQueued, Execute, flow, held, state, output, retry
<1>9. Ordered'
  <2>1. \A d \in Calls, i \in Jobs : Before(pending', d, i) => d \in behind'[i]
    BY <1>1, <1>2, <1>3, HandsType DEF Ordered, CallsQueued, Unanswered
  <2>2. \A d \in Calls, i \in Jobs : Before(pending', i, d) => d \notin behind'[i]
    BY <1>1, <1>2, <1>3, HandsType DEF Ordered, CallsQueued, Unanswered
  <2>3. \A i \in (active \cup paused \cup Unpausing \cup started)' : \A d \in behind'[i] : ~Unanswered(d)'
    BY <1>1, <1>2, <1>3, HandsType DEF Ordered, CallsQueued, Unanswered
  <2>4. \A i \in Jobs : \A d \in behind'[i] : call'[d] # "new"
    BY <1>1, <1>2, <1>3, HandsType DEF Ordered, CallsQueued, Unanswered
  <2>. QED
    BY <2>1, <2>2, <2>3, <2>4 DEF Ordered
<1>10. Alone'
  BY <1>1, <1>2 DEF TypeOK, Places, Held, Looping, Hands, Alone, CallsQueued, Queued, Unpausing,
     Live, Execute, flow, held, state, output, retry
<1>. QED
  BY <1>4, <1>5, <1>6, <1>7, <1>8, <1>9, <1>10

LEMMA RequeueStep ==
  ASSUME AInv, NEW j \in Jobs, Requeue(j)
  PROVE  AInv'
<1>. USE InferenceActorAssumption DEF AInv
<1>1. /\ pending' \in Seq(Work) /\ IsInjective(pending')
      /\ ToSet(pending') = ToSet(pending) \cup {j} /\ j \notin ToSet(pending)
      /\ \A x, y : Before(pending', x, y) => Before(pending, x, y) \/ (x = j /\ y \in ToSet(pending))
  <2>1. j \notin ToSet(pending) /\ pending' = <<j>> \o pending
    BY DEF Requeue, RequeueAt, Places, Held, Looping, Queued, Unpausing
  <2>. QED
    BY <2>1, QueueType, FrontIs DEF Work
<1>2. /\ Unpausing = {j} /\ Unpausing' = {} /\ UNCHANGED <<active, paused, phase, started, behind, call>>
  BY DEF Requeue, Quiet, NoneEnds, held, Unhand, Unpausing
<1>3. TypeOK'
  BY SMTT(30), <1>1 DEF TypeOK, Steps, AtMostOne, Ended, Requeue, Quiet, NoneEnds, held,
     state, output, retry, Unhand, RequeueAt, Work
<1>4. Places'
  <2>1. Queued' = Queued \cup {j}
    BY <1>1, <1>2 DEF Queued, TypeOK, Unpausing
  <2>2. Held' = Held /\ pc = "unpause" /\ pc' = "unpause"
    BY <1>2, <2>1 DEF Held, Requeue
  <2>3. \A i \in Jobs : Live(i)' <=> Live(i)
    BY <1>2 DEF Live
  <2>4. j \notin Queued \cup active \cup paused
    BY <1>2 DEF Places
  <2>5. Held \subseteq Jobs
    BY HandsType DEF Held, Queued
  <2>6. /\ (\A i \in Held : Live(i))'
        /\ (Looping => \A i \in Jobs : Live(i) => i \in Held)'
        /\ (\A i, k \in Jobs : Live(i) /\ Live(k) /\ i \notin Held /\ k \notin Held => i = k)'
    BY <2>2, <2>3, <2>5 DEF Places, Looping
  <2>. QED
    BY <1>2, <2>1, <2>4, <2>6 DEF Places
<1>5. Hands'
  BY <1>1 DEF TypeOK, Places, Held, Looping, Hands, Queued, Unpausing, Live, Requeue, Quiet,
     NoneEnds, held, state, output, retry, Unhand, RequeueAt
<1>6. Counts'
  BY <1>1 DEF TypeOK, Hands, Looping, Counts, Uncounted, Requeue, Quiet, NoneEnds, held, state,
     output, retry, Unhand, RequeueAt
<1>7. CallsQueued'
  BY ZenonT(60), <1>1 DEF TypeOK, Hands, Looping, CallsQueued, Requeue, Quiet, NoneEnds, held,
     state, output, retry, Unhand, RequeueAt
<1>8. Ordered'
  <2>1. \A d \in Calls, i \in Jobs : Before(pending', d, i) => d \in behind'[i]
    BY <1>1, <1>2, HandsType DEF Ordered, CallsQueued, Unanswered
  <2>2. \A d \in Calls, i \in Jobs : Before(pending', i, d) => d \notin behind'[i]
    BY <1>1, <1>2, HandsType DEF Ordered, CallsQueued, Unanswered
  <2>3. \A i \in (active \cup paused \cup Unpausing \cup started)' : \A d \in behind'[i] : ~Unanswered(d)'
    BY <1>1, <1>2, HandsType DEF Ordered, CallsQueued, Unanswered
  <2>4. \A i \in Jobs : \A d \in behind'[i] : call'[d] # "new"
    BY <1>1, <1>2, HandsType DEF Ordered, CallsQueued, Unanswered
  <2>. QED
    BY <2>1, <2>2, <2>3, <2>4 DEF Ordered
<1>9. Alone'
  BY <1>1 DEF TypeOK, Places, Held, Looping, Hands, Alone, CallsQueued, Queued, Unpausing, Live,
     Requeue, Quiet, NoneEnds, held, state, output, retry, Unhand, RequeueAt
<1>. QED
  BY <1>3, <1>4, <1>5, <1>6, <1>7, <1>8, <1>9

LEMMA PostponeStep ==
  ASSUME AInv, NEW j \in Jobs, Postpone(j)
  PROVE  AInv'
<1>. USE InferenceActorAssumption DEF AInv
<1>1. /\ pending' \in Seq(Work) /\ IsInjective(pending')
      /\ ToSet(pending') = ToSet(pending) \cup {j} /\ j \notin ToSet(pending)
      /\ \A x, y : Before(pending', x, y) =>
            Before(pending, x, y) \/ (y = j /\ x \in Jobs) \/ (x = j /\ y \in ToSet(pending))
  <2>. DEFINE p == Cardinality(Ahead) + 1
  <2>1. j \in active /\ j \notin ToSet(pending)
    BY DEF Postpone, Goes, Places, Held, Looping, Queued, Hands
  <2>2. p \in 1 .. Len(pending) + 1 /\ \A i \in 1 .. p - 1 : pending[i] \in Jobs
    BY QueueType, AheadIs
  <2>3. pending' = InsertAt(pending, p, j)
    BY DEF Postpone
  <2>. HIDE DEF p
  <2>4. j \in Work
    BY DEF Work
  <2>5. /\ pending' \in Seq(Work) /\ ToSet(pending') = ToSet(pending) \cup {j}
        /\ IsInjective(pending) /\ j \notin ToSet(pending) => IsInjective(pending')
        /\ \A x, y : Before(pending', x, y) =>
              \/ Before(pending, x, y)
              \/ y = j /\ \E i \in 1 .. p - 1 : x = pending[i]
              \/ x = j /\ y \in ToSet(pending)
    BY <2>2, <2>3, <2>4, QueueType, InsertIs
  <2>. QED
    BY <2>1, <2>2, <2>5, QueueType
<1>2. j \in active
  BY DEF Postpone, Goes, Hands, Looping
<1>3. TypeOK'
  <2>1. pending' \in Seq(Jobs \cup Calls) /\ IsInjective(pending')
    BY <1>1 DEF Work
  <2>2. defers' \in [Jobs -> 0 .. MaxDefers] /\ delayed' \subseteq Jobs
    BY DEF TypeOK, Postpone
  <2>3. /\ active' \subseteq Jobs /\ started' \subseteq Jobs /\ cur' = {}
        /\ turn' \in 0 .. Buffer + 1
    BY DEF TypeOK, Postpone, Unhand
  <2>4. UNCHANGED <<pc, todo, group, calling, paused, closed, epoch, phase, requested, model,
                    computed, cached, items, unread, reader, cancel, late, call, behind>>
    BY DEF Postpone, Quiet, state, output
  <2>. QED
    BY <2>1, <2>2, <2>3, <2>4 DEF TypeOK, AtMostOne
<1>4. Places'
  BY SMTT(30), <1>1, <1>2 DEF TypeOK, Places, Held, Looping, Hands, Queued, Unpausing, Live,
     Postpone, Quiet, state, output, Unhand, Full, Goes
<1>5. Hands'
  BY <1>1, <1>2 DEF TypeOK, Places, Held, Looping, Hands, Queued, Unpausing, Live, Postpone,
     Quiet, state, output, Unhand, Full, Goes
<1>6. Counts'
  BY <1>1, <1>2 DEF TypeOK, Hands, Looping, Counts, Uncounted, Postpone, Quiet, state, output,
     Unhand, Full, Goes
<1>7. CallsQueued'
  BY <1>1, <1>2 DEF TypeOK, Hands, Looping, CallsQueued, Postpone, Quiet, state, output, Unhand,
     Full, Goes
<1>8. Ordered'
  BY SMTT(30), <1>1, <1>2 DEF TypeOK, Places, Held, Looping, Hands, Ordered, CallsQueued,
     Unanswered, Unpausing, Queued, Live, Postpone, Quiet, state, output, Unhand, Full, Goes
<1>9. Alone'
  BY <1>1, <1>2 DEF TypeOK, Places, Held, Looping, Hands, Alone, CallsQueued, Queued, Unpausing,
     Live, Postpone, Quiet, state, output, Unhand, Full, Goes
<1>. QED
  BY <1>3, <1>4, <1>5, <1>6, <1>7, <1>8, <1>9

LEMMA AdmitPending ==
  ASSUME AInv, NEW S \in SUBSET Ahead, active' = active \cup S,
         LET rest == Remaining(S) IN
            IF MayCall(rest) THEN pending' = Tail(rest) /\ calling' = {Head(rest)}
                             ELSE pending' = rest /\ calling' = {}
  PROVE  /\ pending' \in Seq(Work) /\ IsInjective(pending')
         /\ ToSet(pending') \cup calling' = ToSet(pending) \ S /\ ToSet(pending') \cap calling' = {}
         /\ \A x, y : Before(pending', x, y) => Before(pending, x, y)
         /\ \A c \in calling' : /\ c \in Calls /\ active' = {}
                               /\ \A y \in ToSet(pending') : Before(pending, c, y)
         /\ AtMostOne(calling')
<1>. DEFINE rest == Remaining(S)
<1>1. /\ rest \in Seq(Work) /\ IsInjective(rest) /\ ToSet(rest) = ToSet(pending) \ S
      /\ \A x, y : Before(rest, x, y) => Before(pending, x, y)
  BY QueueType, RemainingIs
<1>2. IF MayCall(rest) THEN pending' = Tail(rest) /\ calling' = {Head(rest)}
                       ELSE pending' = rest /\ calling' = {}
  OBVIOUS
<1>. HIDE DEF rest
<1>3. CASE MayCall(rest)
  <2>1. rest # <<>> /\ Head(rest) \in Calls /\ active' = {}
    BY <1>3 DEF MayCall
  <2>2. /\ Tail(rest) \in Seq(Work) /\ ToSet(rest) = ToSet(Tail(rest)) \cup {Head(rest)}
        /\ IsInjective(Tail(rest)) /\ Head(rest) \notin ToSet(Tail(rest))
        /\ \A x, y : Before(Tail(rest), x, y) => Before(rest, x, y)
        /\ \A y \in ToSet(Tail(rest)) : Before(rest, Head(rest), y)
    BY <1>1, <2>1, TailIs
  <2>. QED
    BY <1>1, <1>2, <1>3, <2>1, <2>2 DEF AtMostOne
<1>4. CASE ~MayCall(rest)
  BY <1>1, <1>2, <1>4 DEF AtMostOne
<1>. QED
  BY <1>3, <1>4

LEMMA AdmitStep ==
  ASSUME AInv, Admit
  PROVE  AInv'
<1>. USE InferenceActorAssumption DEF AInv
<1>1. PICK S \in SUBSET Ahead :
        /\ Admissible(S) /\ active' = active \cup S
        /\ LET rest == Remaining(S) IN
            IF MayCall(rest)
            THEN pending' = Tail(rest) /\ calling' = {Head(rest)} /\ pc' = "barrier"
            ELSE pending' = rest /\ calling' = {} /\ pc' = "sweep"
  BY DEF Admit, Goto
<1>2. /\ pending' \in Seq(Work) /\ IsInjective(pending')
      /\ ToSet(pending') \cup calling' = ToSet(pending) \ S /\ ToSet(pending') \cap calling' = {}
      /\ \A x, y : Before(pending', x, y) => Before(pending, x, y)
      /\ \A c \in calling' : /\ c \in Calls /\ active' = {}
                            /\ \A y \in ToSet(pending') : Before(pending, c, y)
      /\ AtMostOne(calling')
  BY <1>1, AdmitPending
<1>3. S \subseteq Queued /\ \A c \in Calls, j \in S : ~Before(pending, c, j)
  BY <1>1, QueueType, AheadIs
<1>4. pc' = (IF calling' = {} THEN "sweep" ELSE "barrier")
  BY <1>1
<1>5. /\ S \subseteq Jobs /\ pc = "unpause" /\ cur = {} /\ todo = {} /\ calling = {} /\ active' = active \cup S
      /\ Quiet /\ NoneEnds /\ UNCHANGED <<todo, cur, turn, group, paused, call>>
  BY <1>1, <1>3 DEF Admit, Hands, Looping, Queued
<1>6. TypeOK'
  BY <1>2, <1>3, <1>4, <1>5 DEF TypeOK, Steps, AtMostOne, Ended, Quiet, NoneEnds, held, state,
     output, retry, Work
<1>7. Places'
  BY <1>2, <1>3, <1>4, <1>5 DEF TypeOK, Places, Held, Looping, Hands, Queued, Unpausing, Live,
     Quiet, NoneEnds, held, state, output, retry
<1>8. Hands'
  BY <1>2, <1>3, <1>4, <1>5 DEF TypeOK, Places, Held, Looping, Hands, Queued, Unpausing, Live,
     Quiet, NoneEnds, held, state, output, retry
<1>9. Counts'
  BY <1>2, <1>3, <1>4, <1>5 DEF TypeOK, Hands, Looping, Counts, Uncounted, Quiet, NoneEnds, held,
     state, output, retry
<1>10. CallsQueued'
  BY <1>2, <1>3, <1>4, <1>5 DEF TypeOK, Hands, Looping, CallsQueued, Quiet, NoneEnds, held, state,
     output, retry
<1>11. Ordered'
  <2>1. ASSUME NEW j \in S PROVE \A c \in behind[j] : ~Unanswered(c)
    <3>1. SUFFICES ASSUME NEW c \in Calls, c \in behind[j], Unanswered(c) PROVE FALSE
      BY <1>3, HandsType DEF Queued
    <3>2. c \in ToSet(pending) /\ j \in ToSet(pending) /\ j # c
      BY <1>3, <1>5, <3>1 DEF CallsQueued, Unanswered, Queued
    <3>3. Before(pending, c, j) \/ Before(pending, j, c)
      BY <3>2, QueueType, BeforeTotal
    <3>. QED
      BY <1>3, <3>1, <3>3 DEF Ordered, Queued
  <2>2. /\ (active \cup paused \cup Unpausing \cup started)' \subseteq active \cup paused \cup Unpausing \cup started \cup S
        /\ UNCHANGED <<call, behind>>
    BY <1>4, <1>5 DEF NoneEnds, held, Unpausing
  <2>. QED
    BY <1>2, <2>1, <2>2 DEF Ordered, Unanswered
<1>12. Alone'
  BY <1>2, <1>3, <1>4, <1>5 DEF TypeOK, Places, Held, Looping, Hands, Alone, CallsQueued, Queued,
     Unpausing, Live, Quiet, NoneEnds, held, state, output, retry, Ordered
<1>. QED
  BY <1>6, <1>7, <1>8, <1>9, <1>10, <1>11, <1>12

-----------------------------------------------------------------------------
(* Steps that end jobs.                                                    *)

LEMMA AllEnd ==
  ASSUME AInv, NEW S \in SUBSET Jobs, NEW p \in Ended, Finish(All(S, p))
  PROVE  Gone({j \in S : Live(j)})
  BY FinishIs DEF AInv, All

LEMMA GonePlaces ==
  ASSUME AInv, NEW S \in SUBSET Jobs, Gone(S), Queued' = Queued \ S,
         Unpausing' = Unpausing, Unpausing \cap S = {},
         Looping' => Looping, pc = "stopped" => pc' = "stopped"
  PROVE  Places'
<1>1. \A j \in Jobs : Live(j)' <=> Live(j) /\ j \notin S
  BY DEF Gone, Live, Ended
<1>2. active' = active \ S /\ paused' = paused \ S
  BY DEF Gone
<1>3. Held' = Held \ S /\ Held \subseteq Jobs
  BY <1>2, HandsType DEF Held, Queued
<1>. QED
  BY <1>1, <1>2, <1>3 DEF AInv, Places

LEMMA GoneOrdered ==
  ASSUME AInv, NEW S \in SUBSET Jobs, Gone(S), pending' \in Seq(Work),
         ToSet(pending') \cap S = {}, \A x, y : Before(pending', x, y) => Before(pending, x, y),
         \A c \in Calls : /\ (Unanswered(c)' => Unanswered(c))
                           /\ (call[c] # "new" => call'[c] # "new"),
         Unpausing' = Unpausing, Unpausing \cap S = {}
  PROVE  Ordered'
<1>1. \A x, y : Before(pending', x, y) => x \notin S /\ y \notin S
  BY BeforeIn
<1>2. \A j \in Jobs : behind'[j] = IF j \in S THEN {} ELSE behind[j]
  BY DEF Gone
<1>3. \A c \in Calls, j \in Jobs : Before(pending', c, j) => c \in behind'[j]
  BY <1>1, <1>2 DEF AInv, Ordered
<1>4. \A c \in Calls, j \in Jobs : Before(pending', j, c) => c \notin behind'[j]
  BY <1>1, <1>2 DEF AInv, Ordered
<1>5. \A j \in (active \cup paused \cup Unpausing \cup started)' :
        \A c \in behind'[j] : ~Unanswered(c)'
  BY ZenonT(60), <1>2, HandsType DEF Gone, AInv, Ordered
<1>6. \A j \in Jobs : \A c \in behind'[j] : call'[c] # "new"
  BY <1>2, HandsType DEF AInv, Ordered
<1>. QED
  BY <1>3, <1>4, <1>5, <1>6 DEF Ordered

LEMMA StallTimesOutStep ==
  ASSUME AInv, NEW j \in Jobs, StallTimesOut(j)
  PROVE  AInv'
<1>. USE InferenceActorAssumption DEF AInv
<1>1. Gone({j})
  <2>1. {i \in {j} : Live(i)} = {j} /\ {j} \in SUBSET Jobs
    BY DEF Places, Held, Looping, Hands, TypeOK, Live, StallTimesOut
  <2>2. Finish(All({j}, "timed_out"))
    BY DEF StallTimesOut
  <2>. QED
    BY <2>1, <2>2, AllEnd DEF Ended
<1>2. TypeOK'
  BY <1>1 DEF TypeOK, Steps, AtMostOne, Ended, StallTimesOut, Quiet, output, Visited, Full, Gone
<1>3. Places'
  <2>1. Unpausing' = Unpausing /\ Unpausing \cap {j} = {}
    BY <1>1 DEF Places, Held, Looping, Hands, TypeOK, Unpausing, StallTimesOut, Quiet, output,
       Visited, Full, Queued
  <2>2. Queued' = Queued \ {j} /\ {j} \in SUBSET Jobs
    BY DEF Places, Held, Looping, Hands, TypeOK, Queued, StallTimesOut, Quiet, output, Visited, Full
  <2>. QED
    BY <1>1, <2>1, <2>2, GonePlaces DEF Looping, StallTimesOut
<1>4. Hands'
  BY <1>1 DEF TypeOK, Places, Held, Looping, Hands, Queued, Unpausing, Live, StallTimesOut, Quiet,
     output, Visited, Full, Gone
<1>5. Counts'
  BY <1>1 DEF TypeOK, Hands, Looping, Counts, Uncounted, StallTimesOut, Quiet, output, Visited,
     Full, Gone
<1>6. CallsQueued'
  BY <1>1 DEF TypeOK, Hands, Looping, CallsQueued, StallTimesOut, Quiet, output, Visited, Full, Gone
<1>7. Ordered'
  <2>1. Unpausing' = Unpausing /\ Unpausing \cap {j} = {}
    BY <1>1 DEF Places, Held, Looping, Hands, TypeOK, Unpausing, StallTimesOut, Quiet, output,
       Visited, Full, Queued
  <2>2. ToSet(pending') = ToSet(pending) \ {j} /\ {j} \in SUBSET Jobs
    BY DEF Places, Held, Looping, Hands, TypeOK, Queued, StallTimesOut, Quiet, output, Visited, Full
  <2>3. \A c \in Calls : (Unanswered(c)' => Unanswered(c)) /\ (call[c] # "new" => call'[c] # "new")
    BY <1>1 DEF TypeOK, CallsQueued, Unanswered, StallTimesOut, Quiet, Hands, Looping
  <2>4. pending' \in Seq(Work) /\ \A x, y : Before(pending', x, y) => Before(pending, x, y)
    BY QueueType DEF StallTimesOut
  <2>. QED
    BY <1>1, <2>1, <2>2, <2>3, <2>4, GoneOrdered
<1>8. Alone'
  BY <1>1 DEF TypeOK, Places, Held, Looping, Hands, Alone, CallsQueued, Queued, Unpausing, Live,
     StallTimesOut, Quiet, output, Visited, Full, Gone
<1>. QED
  BY <1>2, <1>3, <1>4, <1>5, <1>6, <1>7, <1>8

LEMMA BarrierStep ==
  ASSUME AInv, Barrier
  PROVE  AInv'
<1>. USE InferenceActorAssumption DEF AInv
<1>1. Gone(paused)
  <2>1. {i \in paused : Live(i)} = paused /\ paused \in SUBSET Jobs
    BY DEF Places, Held, Looping, Hands, TypeOK, Live
  <2>2. Finish(All(paused, "cancelled"))
    BY DEF Barrier
  <2>. QED
    BY <2>1, <2>2, AllEnd DEF Ended
<1>2. TypeOK'
  BY <1>1 DEF TypeOK, Steps, AtMostOne, Ended, Barrier, Quiet, output, Goto, Gone
<1>3. Places'
  <2>1. Unpausing' = Unpausing /\ Unpausing \cap paused = {}
    BY <1>1 DEF Places, Held, Looping, Hands, TypeOK, Unpausing, Barrier, Quiet, output, Goto,
       Queued
  <2>2. Queued' = Queued \ paused /\ paused \in SUBSET Jobs
    BY DEF Places, Held, Looping, Hands, TypeOK, Queued, Barrier, Quiet, output, Goto
  <2>. QED
    BY <1>1, <2>1, <2>2, GonePlaces DEF Looping, Barrier, Goto
<1>4. Hands'
  BY <1>1 DEF TypeOK, Places, Held, Looping, Hands, Queued, Unpausing, Live, Barrier, Quiet,
     output, Goto, Gone
<1>5. Counts'
  BY <1>1 DEF TypeOK, Hands, Looping, Counts, Uncounted, Barrier, Quiet, output, Goto, Gone
<1>6. CallsQueued'
  BY <1>1 DEF TypeOK, Hands, Looping, CallsQueued, Barrier, Quiet, output, Goto, Gone
<1>7. Ordered'
  <2>1. Unpausing' = Unpausing /\ Unpausing \cap paused = {}
    BY <1>1 DEF Places, Held, Looping, Hands, TypeOK, Unpausing, Barrier, Quiet, output, Goto,
       Queued
  <2>2. ToSet(pending') = ToSet(pending) \ paused /\ paused \in SUBSET Jobs
    BY DEF Places, Held, Looping, Hands, TypeOK, Queued, Barrier, Quiet, output, Goto
  <2>3. \A c \in Calls : (Unanswered(c)' => Unanswered(c)) /\ (call[c] # "new" => call'[c] # "new")
    BY <1>1 DEF TypeOK, CallsQueued, Unanswered, Barrier, Quiet, Hands, Looping
  <2>4. pending' \in Seq(Work) /\ \A x, y : Before(pending', x, y) => Before(pending, x, y)
    BY QueueType DEF Barrier
  <2>. QED
    BY <1>1, <2>1, <2>2, <2>3, <2>4, GoneOrdered
<1>8. Alone'
  BY <1>1 DEF TypeOK, Places, Held, Looping, Hands, Alone, CallsQueued, Queued, Unpausing, Live,
     Barrier, Quiet, output, Goto, Gone
<1>. QED
  BY <1>2, <1>3, <1>4, <1>5, <1>6, <1>7, <1>8

LEMMA StopRunningStep ==
  ASSUME AInv, StopRunning
  PROVE  AInv'
<1>. USE InferenceActorAssumption DEF AInv
<1>1. Gone(Running)
  <2>1. {i \in Running : Live(i)} = Running /\ Running \in SUBSET Jobs
    BY DEF Places, Held, Looping, Hands, TypeOK, Live, Running
  <2>2. Finish(All(Running, "cancelled"))
    BY DEF StopRunning
  <2>. QED
    BY <2>1, <2>2, AllEnd DEF Ended
<1>2. TypeOK'
  BY <1>1 DEF TypeOK, Steps, AtMostOne, Ended, StopRunning, Quiet, output, Goto, Running,
     LoopEnds, Gone
<1>3. Places'
  <2>1. Unpausing' = Unpausing /\ Unpausing \cap Running = {}
    BY <1>1 DEF Places, Held, Looping, Hands, TypeOK, Unpausing, StopRunning, Quiet, output, Goto,
       Running, LoopEnds, Queued
  <2>2. Queued' = Queued \ Running /\ Running \in SUBSET Jobs
    BY DEF Places, Held, Looping, Hands, TypeOK, Queued, StopRunning, Quiet, output, Goto,
       Running, LoopEnds
  <2>. QED
    BY <1>1, <2>1, <2>2, GonePlaces DEF Looping, StopRunning, Goto, LoopEnds
<1>4. Hands'
  BY <1>1 DEF TypeOK, Places, Held, Looping, Hands, Queued, Unpausing, Live, StopRunning, Quiet,
     output, Goto, Running, LoopEnds, Gone
<1>5. Counts'
  BY <1>1 DEF TypeOK, Hands, Looping, Counts, Uncounted, StopRunning, Quiet, output, Goto,
     Running, LoopEnds, Gone
<1>6. CallsQueued'
  BY <1>1 DEF TypeOK, Hands, Looping, CallsQueued, StopRunning, Quiet, output, Goto, Running,
     LoopEnds, Gone
<1>7. Ordered'
  <2>1. Unpausing' = Unpausing /\ Unpausing \cap Running = {}
    BY <1>1 DEF Places, Held, Looping, Hands, TypeOK, Unpausing, StopRunning, Quiet, output, Goto,
       Running, LoopEnds, Queued
  <2>2. ToSet(pending') = ToSet(pending) \ Running /\ Running \in SUBSET Jobs
    BY DEF Places, Held, Looping, Hands, TypeOK, Queued, StopRunning, Quiet, output, Goto,
       Running, LoopEnds
  <2>3. \A c \in Calls : (Unanswered(c)' => Unanswered(c)) /\ (call[c] # "new" => call'[c] # "new")
    BY <1>1 DEF TypeOK, CallsQueued, Unanswered, StopRunning, Quiet, Hands, Looping
  <2>4. pending' \in Seq(Work) /\ \A x, y : Before(pending', x, y) => Before(pending, x, y)
    BY QueueType DEF StopRunning
  <2>. QED
    BY <1>1, <2>1, <2>2, <2>3, <2>4, GoneOrdered
<1>8. Alone'
  BY <1>1 DEF TypeOK, Places, Held, Looping, Hands, Alone, CallsQueued, Queued, Unpausing, Live,
     StopRunning, Quiet, output, Goto, Running, LoopEnds, Gone
<1>. QED
  BY <1>2, <1>3, <1>4, <1>5, <1>6, <1>7, <1>8

LEMMA StopPendingStep ==
  ASSUME AInv, StopPending
  PROVE  AInv'
<1>. USE InferenceActorAssumption DEF AInv
<1>1. Gone(Queued)
  <2>1. {i \in Queued : Live(i)} = Queued /\ Queued \in SUBSET Jobs
    BY DEF Places, Held, Looping, Hands, TypeOK, Live, Queued
  <2>2. Finish(All(Queued, "cancelled"))
    BY DEF StopPending
  <2>. QED
    BY <2>1, <2>2, AllEnd DEF Ended
<1>2. /\ pending' = <<>> /\ pending' \in Seq(Work) /\ IsInjective(pending') /\ ToSet(pending') = {}
      /\ \A x, y : ~Before(pending', x, y)
  BY DEF StopPending, IsInjective, ToSet, Before
<1>3. TypeOK'
  BY <1>1, <1>2 DEF TypeOK, Steps, AtMostOne, Ended, StopPending, Quiet, output, Goto, Answered,
     Gone, Work
<1>4. Places'
  <2>1. Unpausing' = Unpausing /\ Unpausing \cap Queued = {}
    BY <1>2, <1>1 DEF Places, Held, Looping, Hands, TypeOK, Unpausing, StopPending, Quiet, output,
       Goto, Answered, Queued
  <2>2. Queued' = Queued \ Queued /\ Queued \in SUBSET Jobs
    BY <1>2, <1>1 DEF TypeOK, Queued
  <2>. QED
    BY <1>1, <2>1, <2>2, GonePlaces DEF Looping, StopPending, Goto
<1>5. Hands'
  BY <1>1, <1>2 DEF TypeOK, Places, Held, Looping, Hands, Queued, Unpausing, Live, StopPending,
     Quiet, output, Goto, Answered, Gone
<1>6. Counts'
  BY <1>1, <1>2 DEF TypeOK, Hands, Looping, Counts, Uncounted, StopPending, Quiet, output, Goto,
     Answered, Gone
<1>7. CallsQueued'
  BY <1>1, <1>2 DEF TypeOK, Hands, Looping, CallsQueued, StopPending, Quiet, output, Goto,
     Answered, Gone
<1>8. Ordered'
  BY <1>1, <1>2 DEF TypeOK, Places, Held, Looping, Hands, Ordered, CallsQueued, Unanswered,
     Unpausing, Queued, Live, StopPending, Quiet, output, Goto, Answered, Gone
<1>9. Alone'
  BY <1>1, <1>2 DEF TypeOK, Places, Held, Looping, Hands, Alone, CallsQueued, Queued, Unpausing,
     Live, StopPending, Quiet, output, Goto, Answered, Gone
<1>. QED
  BY <1>3, <1>4, <1>5, <1>6, <1>7, <1>8, <1>9

LEMMA CompleteStep ==
  ASSUME AInv, NEW j \in Jobs, Complete(j)
  PROVE  AInv'
<1>. USE InferenceActorAssumption DEF AInv
<1>1. Gone({j})
  <2>1. {i \in {j} : Live(i)} = {j} /\ {j} \in SUBSET Jobs
    BY DEF Places, Held, Looping, Hands, TypeOK, Live, Complete, Goes
  <2>2. \E p \in Ended : Finish(All({j}, p))
    BY DEF Complete, Ended
  <2>. QED
    BY <2>1, <2>2, AllEnd
<1>2. TypeOK'
  BY SMTT(30), <1>1 DEF TypeOK, Steps, AtMostOne, Ended, Complete, Quiet, output, Unhand,
     Full, Goes, Gone
<1>3. Places'
  <2>1. Unpausing' = Unpausing /\ Unpausing \cap {j} = {}
    BY <1>1 DEF Places, Held, Looping, Hands, TypeOK, Unpausing, Complete, Quiet, output, Unhand,
       Full, Goes, Queued
  <2>2. Queued' = Queued \ {j} /\ {j} \in SUBSET Jobs
    BY DEF Places, Held, Looping, Hands, TypeOK, Queued, Complete, Quiet, output, Unhand, Full, Goes
  <2>. QED
    BY <1>1, <2>1, <2>2, GonePlaces DEF Looping, Complete, Goes
<1>4. Hands'
  BY <1>1 DEF TypeOK, Places, Held, Looping, Hands, Queued, Unpausing, Live, Complete, Quiet,
     output, Unhand, Full, Goes, Gone
<1>5. Counts'
  BY <1>1 DEF TypeOK, Hands, Looping, Counts, Uncounted, Complete, Quiet, output, Unhand, Full,
     Goes, Gone
<1>6. CallsQueued'
  BY <1>1 DEF TypeOK, Hands, Looping, CallsQueued, Complete, Quiet, output, Unhand, Full, Goes, Gone
<1>7. Ordered'
  <2>1. Unpausing' = Unpausing /\ Unpausing \cap {j} = {}
    BY <1>1 DEF Places, Held, Looping, Hands, TypeOK, Unpausing, Complete, Quiet, output, Unhand,
       Full, Goes, Queued
  <2>2. ToSet(pending') = ToSet(pending) \ {j} /\ {j} \in SUBSET Jobs
    BY DEF Places, Held, Looping, Hands, TypeOK, Queued, Complete, Quiet, output, Unhand, Full, Goes
  <2>3. \A c \in Calls : (Unanswered(c)' => Unanswered(c)) /\ (call[c] # "new" => call'[c] # "new")
    BY <1>1 DEF TypeOK, CallsQueued, Unanswered, Complete, Quiet, Hands, Looping
  <2>4. pending' \in Seq(Work) /\ \A x, y : Before(pending', x, y) => Before(pending, x, y)
    BY QueueType DEF Complete
  <2>. QED
    BY <1>1, <2>1, <2>2, <2>3, <2>4, GoneOrdered
<1>8. Alone'
  BY <1>1 DEF TypeOK, Places, Held, Looping, Hands, Alone, CallsQueued, Queued, Unpausing, Live,
     Complete, Quiet, output, Unhand, Full, Goes, Gone
<1>. QED
  BY <1>2, <1>3, <1>4, <1>5, <1>6, <1>7, <1>8

LEMMA SweepStep ==
  ASSUME AInv, Sweep
  PROVE  AInv'
<1>. USE InferenceActorAssumption DEF AInv
<1>. DEFINE S == Swept
<1>1. Gone(S)
  <2>1. {i \in S : Live(i)} = S /\ S \in SUBSET Jobs
    BY DEF Places, Held, TypeOK, Live, Queued, Swept
  <2>2. Sweeping(S) \in [S -> Ended]
    BY DEF Ended, Sweeping
  <2>3. Finish(Sweeping(S))
    BY DEF Sweep
  <2>. QED
    BY <2>1, <2>2, <2>3, FinishIs
<1>2. /\ pending' \in Seq(Work) /\ IsInjective(pending') /\ ToSet(pending') = ToSet(pending) \ S
      /\ \A x, y : Before(pending', x, y) => Before(pending, x, y)
  <2>1. pending' = Remaining(S)
    BY DEF Sweep
  <2>. QED
    BY <2>1, QueueType, RemainingIs
<1>3. /\ pc = "sweep" /\ todo' = active \ S /\ pc' = "advance"
      /\ Quiet /\ UNCHANGED <<cur, turn, group, calling, call>>
  BY DEF Sweep, Goto
<1>4. S \subseteq Jobs
  BY DEF TypeOK, Queued, Swept
<1>. HIDE DEF S
<1>5. TypeOK'
  BY <1>1, <1>2, <1>3, <1>4 DEF TypeOK, Steps, AtMostOne, Ended, Quiet, NoneEnds, held, state,
     output, retry, Gone, Work
<1>6. Places'
  <2>1. Unpausing' = Unpausing /\ Unpausing \cap S = {}
    BY <1>2, <1>3, <1>4, <1>1 DEF Places, Held, Looping, Hands, TypeOK, Unpausing, Queued
  <2>2. Queued' = Queued \ S /\ S \in SUBSET Jobs
    BY <1>2, <1>3, <1>4, <1>1 DEF TypeOK, Queued
  <2>. QED
    BY <1>1, <1>3, <2>1, <2>2, GonePlaces DEF Looping
<1>7. Hands'
  BY <1>1, <1>2, <1>3, <1>4 DEF TypeOK, Places, Held, Looping, Hands, Queued, Unpausing, Live,
     Quiet, NoneEnds, held, state, output, retry, Gone
<1>8. Counts'
  BY <1>1, <1>2, <1>3, <1>4 DEF TypeOK, Hands, Looping, Counts, Uncounted, Quiet, NoneEnds, held,
     state, output, retry, Gone
<1>9. CallsQueued'
  BY <1>1, <1>2, <1>3, <1>4 DEF TypeOK, Hands, Looping, CallsQueued, Quiet, NoneEnds, held, state,
     output, retry, Gone
<1>10. Ordered'
  <2>1. Unpausing' = Unpausing /\ Unpausing \cap S = {}
    BY <1>2, <1>3, <1>4, <1>1 DEF Places, Held, Looping, Hands, TypeOK, Unpausing, Queued
  <2>2. ToSet(pending') = ToSet(pending) \ S /\ S \in SUBSET Jobs
    BY <1>2, <1>3, <1>4, <1>1 DEF TypeOK, Queued
  <2>3. \A c \in Calls : (Unanswered(c)' => Unanswered(c)) /\ (call[c] # "new" => call'[c] # "new")
    BY <1>2, <1>3, <1>4, <1>1 DEF TypeOK, CallsQueued, Unanswered, Quiet, Hands, Looping
  <2>4. pending' \in Seq(Work) /\ \A x, y : Before(pending', x, y) => Before(pending, x, y)
    BY <1>2, <1>3, <1>4, QueueType
  <2>. QED
    BY <1>1, <2>1, <2>2, <2>3, <2>4, GoneOrdered
<1>11. Alone'
  BY <1>1, <1>2, <1>3, <1>4 DEF TypeOK, Places, Held, Looping, Hands, Alone, CallsQueued, Queued,
     Unpausing, Live, Quiet, NoneEnds, held, state, output, retry, Gone
<1>. QED
  BY <1>5, <1>6, <1>7, <1>8, <1>9, <1>10, <1>11

LEMMA SelectPicks ==
  ASSUME AInv, pc = "advance", todo = {}, cur = {}, NEW S \in SUBSET Ready, pc' = "forward",
         Quiet, UNCHANGED <<cur, turn, group, calling, pending, call>>,
         todo' = S, NoneEnds, UNCHANGED <<active, paused>>
  PROVE  AInv'
<1>. USE InferenceActorAssumption DEF AInv
<1>1. S \subseteq active \cap requested
  BY DEF Ready
<1>2. TypeOK'
  BY <1>1 DEF TypeOK, Steps, AtMostOne, Ended, Ready, Quiet, NoneEnds, held, state, output,
     retry
<1>3. Places'
  BY <1>1 DEF TypeOK, Places, Held, Looping, Hands, Queued, Unpausing, Live, Ready, Quiet,
     NoneEnds, held, state, output, retry
<1>4. Hands'
  BY <1>1 DEF TypeOK, Places, Held, Looping, Hands, Queued, Unpausing, Live, Ready, Quiet,
     NoneEnds, held, state, output, retry
<1>5. Counts'
  BY <1>1 DEF TypeOK, Hands, Looping, Counts, Uncounted, Ready, Quiet, NoneEnds, held, state,
     output, retry
<1>6. CallsQueued'
  BY <1>1 DEF TypeOK, Hands, Looping, CallsQueued, Ready, Quiet, NoneEnds, held, state, output,
     retry
<1>7. Ordered'
  BY <1>1 DEF TypeOK, Places, Held, Looping, Hands, Ordered, CallsQueued, Unanswered, Unpausing,
     Queued, Live, Ready, Quiet, NoneEnds, held, state, output, retry
<1>8. Alone'
  BY <1>1 DEF TypeOK, Places, Held, Looping, Hands, Alone, CallsQueued, Queued, Unpausing, Live,
     Ready, Quiet, NoneEnds, held, state, output, retry
<1>. QED
  BY <1>2, <1>3, <1>4, <1>5, <1>6, <1>7, <1>8

LEMMA SelectFails ==
  ASSUME AInv, pc = "advance", todo = {}, cur = {}, NEW S \in SUBSET Ready, pc' = "forward",
         Quiet, UNCHANGED <<cur, turn, group, calling, pending, call>>,
         Finish(All(S, "failed")), UNCHANGED todo
  PROVE  AInv'
<1>. USE InferenceActorAssumption DEF AInv
<1>1. Gone(S) /\ S \subseteq active /\ S \in SUBSET Jobs
  <2>1. {i \in S : Live(i)} = S /\ S \in SUBSET Jobs /\ S \subseteq active
    BY DEF Ready, Places, Held, Looping, TypeOK
  <2>. QED
    BY <2>1, AllEnd DEF Ended
<1>2. TypeOK'
  BY <1>1 DEF TypeOK, Steps, AtMostOne, Ended, Quiet, output, Gone
<1>3. Places'
  <2>1. Unpausing' = Unpausing /\ Unpausing \cap S = {}
    BY <1>1 DEF Hands, Looping, Unpausing
  <2>2. UNCHANGED Queued /\ Queued \cap S = {}
    BY <1>1 DEF Places, Held, Looping, Queued
  <2>. QED
    BY <1>1, <2>1, <2>2, GonePlaces DEF Looping
<1>4. Hands'
  BY <1>1 DEF TypeOK, Places, Held, Looping, Hands, Queued, Unpausing, Live, Quiet, output, Gone
<1>5. Counts'
  BY ZenonT(60), <1>1 DEF TypeOK, Hands, Looping, Counts, Uncounted, Quiet, output, Gone
<1>6. CallsQueued'
  BY <1>1 DEF TypeOK, Hands, Looping, CallsQueued, Quiet, output, Gone
<1>7. Ordered'
  <2>1. Unpausing' = Unpausing /\ Unpausing \cap S = {}
    BY <1>1 DEF Hands, Looping, Unpausing
  <2>2. UNCHANGED pending /\ ToSet(pending) \cap S = {}
    BY <1>1 DEF Places, Held, Looping, Queued, CallsQueued, TypeOK, ToSet
  <2>. QED
    BY <1>1, <2>1, <2>2, QueueType, GoneOrdered DEF Unanswered
<1>8. Alone'
  BY <1>1 DEF TypeOK, Places, Held, Looping, Hands, Alone, CallsQueued, Queued, Unpausing, Live,
     Quiet, output, Gone
<1>. QED
  BY <1>2, <1>3, <1>4, <1>5, <1>6, <1>7, <1>8

LEMMA SelectStep ==
  ASSUME AInv, Select
  PROVE  AInv'
<1>1. PICK S \in SUBSET Ready :
        \/ todo' = S /\ NoneEnds /\ UNCHANGED <<active, paused>>
        \/ S # {} /\ Finish(All(S, "failed")) /\ UNCHANGED todo
  BY DEF Select
<1>. QED
  BY <1>1, SelectPicks, SelectFails DEF Select, Goto

LEMMA ForwardAdopts ==
  ASSUME AInv, NEW B \in SUBSET Jobs, pc = "forward", B \subseteq todo, todo' = todo \ B,
         Quiet, UNCHANGED <<cur, turn, calling, pending, call>>,
         cached' = [j \in Jobs |-> IF j \in Adopted(B) THEN cached[j] + 1 ELSE cached[j]],
         cancel' = cancel \cup (B \cap late), group' = B, pc' = "commit",
         UNCHANGED <<active, paused, phase, held, model, computed, items, retry, late, behind>>
  PROVE  AInv'
<1>. USE InferenceActorAssumption DEF AInv
<1>1. group = {} /\ B \subseteq active \cap requested
  BY DEF Hands, Looping
<1>2. \A j \in Jobs : cached'[j] = IF j \in Adopted(B) THEN cached[j] + 1 ELSE cached[j]
  OBVIOUS
<1>3. cached' \in [Jobs -> 0 .. MaxForwards]
  <2>1. \A j \in Adopted(B) : cached[j] + 1 \in 0 .. MaxForwards
    BY <1>1 DEF Adopted, TypeOK, Counts, Uncounted
  <2>. QED
    BY <2>1 DEF TypeOK
<1>4. TypeOK'
  BY <1>1, <1>2, <1>3 DEF TypeOK, Steps, AtMostOne, Ended, Adopted, Quiet, held, output, retry
<1>5. Places'
  BY <1>1, <1>2, <1>3 DEF TypeOK, Places, Held, Looping, Hands, Queued, Unpausing, Live, Adopted,
     Quiet, held, output, retry
<1>6. Hands'
  BY <1>1, <1>2, <1>3 DEF TypeOK, Places, Held, Looping, Hands, Queued, Unpausing, Live, Adopted,
     Quiet, held, output, retry
<1>7. Counts'
  BY <1>1, <1>2, <1>3 DEF TypeOK, Hands, Looping, Counts, Uncounted, Adopted, Quiet, held, output,
     retry
<1>8. CallsQueued'
  BY <1>1, <1>2, <1>3 DEF TypeOK, Hands, Looping, CallsQueued, Adopted, Quiet, held, output, retry
<1>9. Ordered'
  BY <1>1, <1>2, <1>3 DEF TypeOK, Places, Held, Looping, Hands, Ordered, CallsQueued, Unanswered,
     Unpausing, Queued, Live, Adopted, Quiet, held, output, retry
<1>10. Alone'
  BY <1>1, <1>2, <1>3 DEF TypeOK, Places, Held, Looping, Hands, Alone, CallsQueued, Queued,
     Unpausing, Live, Adopted, Quiet, held, output, retry
<1>. QED
  BY <1>4, <1>5, <1>6, <1>7, <1>8, <1>9, <1>10

LEMMA ForwardFails ==
  ASSUME AInv, NEW B \in SUBSET Jobs, pc = "forward", B \subseteq todo, todo' = todo \ B,
         Quiet, UNCHANGED <<cur, turn, calling, pending, call>>,
         Finish(All(B, "failed")), UNCHANGED <<pc, group>>
  PROVE  AInv'
<1>. USE InferenceActorAssumption DEF AInv
<1>1. Gone(B) /\ B \subseteq active /\ B \in SUBSET Jobs
  <2>1. {i \in B : Live(i)} = B /\ B \in SUBSET Jobs /\ B \subseteq active
    BY DEF Hands, Places, Held, Looping, TypeOK
  <2>. QED
    BY <2>1, AllEnd DEF Ended
<1>2. TypeOK'
  BY <1>1 DEF TypeOK, Steps, AtMostOne, Ended, Quiet, output, Gone
<1>3. Places'
  <2>1. Unpausing' = Unpausing /\ Unpausing \cap B = {}
    BY <1>1 DEF Hands, Looping, Unpausing
  <2>2. UNCHANGED Queued /\ Queued \cap B = {}
    BY <1>1 DEF Places, Held, Looping, Queued
  <2>. QED
    BY <1>1, <2>1, <2>2, GonePlaces DEF Looping
<1>4. Hands'
  BY <1>1 DEF TypeOK, Places, Held, Looping, Hands, Queued, Unpausing, Live, Quiet, output, Gone
<1>5. Counts'
  BY <1>1 DEF TypeOK, Hands, Looping, Counts, Uncounted, Quiet, output, Gone
<1>6. CallsQueued'
  BY <1>1 DEF TypeOK, Hands, Looping, CallsQueued, Quiet, output, Gone
<1>7. Ordered'
  <2>1. Unpausing' = Unpausing /\ Unpausing \cap B = {}
    BY <1>1 DEF Hands, Looping, Unpausing
  <2>2. UNCHANGED pending /\ ToSet(pending) \cap B = {}
    BY <1>1 DEF Places, Held, Looping, Queued, CallsQueued, TypeOK, ToSet
  <2>. QED
    BY <1>1, <2>1, <2>2, QueueType, GoneOrdered DEF Unanswered
<1>8. Alone'
  BY <1>1 DEF TypeOK, Places, Held, Looping, Hands, Alone, CallsQueued, Queued, Unpausing, Live,
     Quiet, output, Gone
<1>. QED
  BY <1>2, <1>3, <1>4, <1>5, <1>6, <1>7, <1>8

LEMMA ForwardStep ==
  ASSUME AInv, NEW G \in SUBSET Jobs, Forward(G)
  PROVE  AInv'
<1>1. CASE Finish(All(G, "failed")) /\ UNCHANGED <<pc, group>>
  BY <1>1, ForwardFails DEF Forward
<1>2. CASE /\ cached' = [j \in Jobs |-> IF j \in Adopted(G) THEN cached[j] + 1 ELSE cached[j]]
           /\ cancel' = cancel \cup (G \cap late)
           /\ group' = G
           /\ pc' = "commit"
           /\ UNCHANGED <<active, paused, phase, held, model, computed, items, retry, late, behind>>
  BY <1>2, ForwardAdopts DEF Forward
<1>. QED
  BY <1>1, <1>2 DEF Forward, Goto

LEMMA CommitEnds ==
  ASSUME AInv, NEW j \in Jobs, pc = "commit", j \in Uncounted,
         IF Uncounted = {j} THEN group' = {} /\ pc' = "forward" ELSE UNCHANGED <<group, pc>>,
         Quiet, UNCHANGED <<todo, cur, turn, calling, pending, call>>,
         Finish(All({j}, IF j \in late THEN "timed_out" ELSE "cancelled"))
  PROVE  AInv'
<1>. USE InferenceActorAssumption DEF AInv
<1>1. Gone({j}) /\ {j} \subseteq active /\ {j} \in SUBSET Jobs
  <2>1. {i \in {j} : Live(i)} = {j} /\ {j} \in SUBSET Jobs /\ {j} \subseteq active
    <3>1. j \in group /\ j \in requested
      BY DEF Uncounted
    <3>2. Live(j)
      BY <3>1 DEF Hands
    <3>3. j \in active
      BY <3>1, <3>2 DEF Hands, Live, Terminal, Ended
    <3>. QED
      BY <3>2, <3>3
  <2>2. (IF j \in late THEN "timed_out" ELSE "cancelled") \in Ended
    BY DEF Ended
  <2>. QED
    BY <2>1, <2>2, AllEnd
<1>2. TypeOK'
  BY <1>1 DEF TypeOK, Steps, AtMostOne, Ended, Quiet, output, Gone
<1>3. Places'
  <2>1. Unpausing' = Unpausing /\ Unpausing \cap {j} = {}
    BY <1>1 DEF Hands, Looping, Unpausing
  <2>2. UNCHANGED Queued /\ Queued \cap {j} = {}
    BY <1>1 DEF Places, Held, Looping, Queued
  <2>. QED
    BY <1>1, <2>1, <2>2, GonePlaces DEF Looping
<1>4. Hands'
  <2>1. /\ cur = {} /\ cur' = {} /\ calling = {} /\ calling' = {} /\ todo' = todo
        /\ todo \cap group = {} /\ j \notin todo /\ todo \subseteq active \cap requested
        /\ group' \subseteq group /\ pc' \in {"forward", "commit"}
        /\ (pc' = "forward" => group' = {})
    BY DEF Hands, Looping, Uncounted
  <2>2. todo' \subseteq active' \cap requested' /\ todo' \cap group' = {}
    BY <1>1, <2>1 DEF Gone
  <2>3. \A i \in started' \cup requested' : Live(i)'
    BY <1>1 DEF Gone, Hands, Live, TypeOK
  <2>4. \A i \in group : (i \in active \/ Terminal(i))'
    BY <1>1 DEF Gone, Hands, Terminal, TypeOK
  <2>. QED
    BY <2>1, <2>2, <2>3, <2>4 DEF Hands, Looping
<1>5. Counts'
  BY <1>1 DEF TypeOK, Hands, Looping, Counts, Uncounted, Quiet, output, Gone
<1>6. CallsQueued'
  BY <1>1 DEF TypeOK, Hands, Looping, CallsQueued, Quiet, output, Gone
<1>7. Ordered'
  <2>1. Unpausing' = Unpausing /\ Unpausing \cap {j} = {}
    BY <1>1 DEF Hands, Looping, Unpausing
  <2>2. UNCHANGED pending /\ ToSet(pending) \cap {j} = {}
    BY <1>1 DEF Places, Held, Looping, Queued, CallsQueued, TypeOK, ToSet
  <2>. QED
    BY <1>1, <2>1, <2>2, QueueType, GoneOrdered DEF Unanswered
<1>8. Alone'
  BY <1>1 DEF TypeOK, Places, Held, Looping, Hands, Alone, CallsQueued, Queued, Unpausing, Live,
     Quiet, output, Gone
<1>. QED
  BY <1>2, <1>3, <1>4, <1>5, <1>6, <1>7, <1>8

LEMMA CommitTokens ==
  ASSUME AInv, NEW j \in Jobs, pc = "commit", j \in Uncounted,
         IF Uncounted = {j} THEN group' = {} /\ pc' = "forward" ELSE UNCHANGED <<group, pc>>,
         Quiet, UNCHANGED <<todo, cur, turn, calling, pending, call>>,
         j \notin Dropped, computed' = [computed EXCEPT ![j] = @ + 1], requested' = requested \ {j},
         UNCHANGED <<active, paused, phase, started, model, cached, items, retry, cancel, late, behind>>
  PROVE  AInv'
<1>. USE InferenceActorAssumption DEF AInv
<1>1. j \in active /\ j \in requested /\ j \in group /\ cached[j] = computed[j] + 1
      /\ Uncounted' = Uncounted \ {j}
  BY DEF Hands, Counts, Dropped, Uncounted, Terminal, Live, Ended
<1>2. \A i \in Jobs : computed'[i] = IF i = j THEN computed[i] + 1 ELSE computed[i]
  BY DEF TypeOK
<1>3. computed' \in [Jobs -> 0 .. MaxForwards]
  BY <1>1 DEF TypeOK, Counts, Uncounted
<1>4. TypeOK'
  BY <1>1, <1>2, <1>3 DEF TypeOK, Steps, AtMostOne, Ended, Dropped, Quiet, output, retry
<1>5. Places'
  BY <1>1, <1>2, <1>3 DEF TypeOK, Places, Held, Looping, Hands, Queued, Unpausing, Live, Dropped,
     Quiet, output, retry
<1>6. Hands'
  BY SMTT(30), <1>1, <1>2, <1>3 DEF TypeOK, Places, Held, Looping, Hands, Queued, Unpausing, Live,
     Terminal, Dropped, Quiet, output, retry
<1>7. Counts'
  BY <1>1, <1>2, <1>3 DEF TypeOK, Hands, Looping, Counts, Uncounted, Dropped, Quiet, output, retry
<1>8. CallsQueued'
  BY <1>1, <1>2, <1>3 DEF TypeOK, Hands, Looping, CallsQueued, Dropped, Quiet, output, retry
<1>9. Ordered'
  BY <1>1, <1>2, <1>3 DEF TypeOK, Places, Held, Looping, Hands, Ordered, CallsQueued, Unanswered,
     Unpausing, Queued, Live, Dropped, Quiet, output, retry
<1>10. Alone'
  BY <1>1, <1>2, <1>3 DEF TypeOK, Places, Held, Looping, Hands, Alone, CallsQueued, Queued,
     Unpausing, Live, Dropped, Quiet, output, retry
<1>. QED
  BY <1>4, <1>5, <1>6, <1>7, <1>8, <1>9, <1>10

LEMMA CommitOneStep ==
  ASSUME AInv, NEW j \in Jobs, CommitOne(j)
  PROVE  AInv'
<1>1. CASE j \in Dropped /\ Finish(All({j}, IF j \in late THEN "timed_out" ELSE "cancelled"))
  BY <1>1, CommitEnds DEF CommitOne, Goto
<1>2. CASE /\ j \notin Dropped
           /\ computed' = [computed EXCEPT ![j] = @ + 1]
           /\ requested' = requested \ {j}
           /\ UNCHANGED <<active, paused, phase, started, model, cached, items, retry, cancel,
                          late, behind>>
  BY <1>2, CommitTokens DEF CommitOne, Goto
<1>. QED
  BY <1>1, <1>2 DEF CommitOne

-----------------------------------------------------------------------------
(* Device calls that are refused.                                          *)

\* The thread leaves its loop, or gives up its clean-up: the jobs of S have ended,
\* and one that ended in no queue may have lost its place.
LEMMA LeavesStep ==
  ASSUME AInv, NEW S \in SUBSET Jobs, NEW R \in SUBSET Jobs, Gone(S), AtMostOne(R),
         pc # "call", Unpausing = {}, cur' = {},
         \/ Looping /\ pc' = "crashed" /\ todo' = {} /\ turn' = 0
         \/ pc' = "stopped" /\ UNCHANGED <<todo, turn>>,
         pending' \in Seq(Work), IsInjective(pending'), ToSet(pending') = ToSet(pending) \ (S \cup R),
         \A x, y : Before(pending', x, y) => Before(pending, x, y),
         Quiet, UNCHANGED <<group, calling, call>>
  PROVE  AInv'
<1>. USE InferenceActorAssumption DEF AInv
<1>1. pc' \in {"crashed", "stopped"} /\ ~Looping' /\ Unpausing' = {}
  BY DEF Looping, Unpausing
<1>2. TypeOK'
  <2>1. /\ pc' \in Steps /\ todo' \subseteq Jobs /\ turn' \in 0 .. Buffer + 1
        /\ cur' \subseteq Jobs /\ AtMostOne(cur')
    BY <1>1 DEF TypeOK, Steps, AtMostOne
  <2>2. pending' \in Seq(Jobs \cup Calls) /\ IsInjective(pending')
    BY DEF Work
  <2>3. /\ UNCHANGED <<group, calling, closed, epoch, call, unread, reader>>
        /\ active' \subseteq Jobs /\ paused' \subseteq Jobs
        /\ started' \subseteq Jobs /\ requested' \subseteq Jobs /\ delayed' \subseteq Jobs
        /\ cancel' \subseteq Jobs /\ late' \subseteq Jobs
    BY DEF TypeOK, Quiet, output, Gone
  <2>. QED
    BY <2>1, <2>2, <2>3 DEF TypeOK, AtMostOne, Gone
<1>3. \A j \in Jobs : Live(j)' <=> Live(j) /\ j \notin S
  BY DEF Gone, Live, Ended
<1>4. Held' = Held \ (S \cup (R \cap Queued))
  <2>1. Queued' = Queued \ (S \cup R)
    BY DEF Queued
  <2>. QED
    BY <1>1, <2>1 DEF Held, Gone, Places
<1>5. Places'
  <2>1. \A j \in Held' : Live(j)'
    BY <1>3, <1>4, HandsType DEF Places, Held, Queued
  <2>2. pc' # "stopped" => \A i, j \in Jobs : Live(i)' /\ Live(j)' /\ i \notin Held' /\ j \notin Held' => i = j
    BY <1>3, <1>4 DEF Places, Looping, AtMostOne
  <2>3. (Queued \cap active = {} /\ Queued \cap paused = {} /\ active \cap paused = {})'
    BY DEF Places, Queued, Gone
  <2>. QED
    BY <1>1, <2>1, <2>2, <2>3 DEF Places
<1>6. Hands'
  <2>1. \A j \in started' \cup requested' : Live(j)'
    BY <1>3 DEF Hands, Gone, TypeOK
  <2>. QED
    BY <1>1, <2>1 DEF Hands
<1>7. Counts'
  BY DEF TypeOK, Counts, Uncounted, Gone
<1>8. CallsQueued'
  <2>1. \A c \in Calls : c \in ToSet(pending') <=> c \in ToSet(pending)
    OBVIOUS
  <2>2. \A c \in Calls : call[c] # "running"
    BY DEF CallsQueued
  <2>3. pc # "stopped" \/ pc' = "stopped"
    BY DEF Looping
  <2>. QED
    BY <1>1, <2>1, <2>2, <2>3 DEF CallsQueued
<1>9. Ordered'
  <2>1. \A c \in Calls : (Unanswered(c)' => Unanswered(c)) /\ (call[c] # "new" => call'[c] # "new")
    BY DEF Unanswered
  <2>. QED
    BY <1>1, <2>1, GoneOrdered
<1>10. Alone'
  BY <1>1 DEF Alone
<1>. QED
  BY <1>2, <1>5, <1>6, <1>7, <1>8, <1>9, <1>10

LEMMA RefusedIs ==
  ASSUME AInv, NEW S \in SUBSET Jobs, NEW p \in Ended, Refused(All(S, p))
  PROVE  \E F \in SUBSET S : Gone({j \in F : Live(j)})
<1>1. PICK F \in SUBSET S : Finish(Restrict(All(S, p), F))
  BY DEF Refused, All
<1>2. Restrict(All(S, p), F) \in [F -> Ended]
  BY DEF Restrict, All
<1>. QED
  BY <1>1, <1>2, FinishIs DEF AInv

LEMMA RefusedStep ==
  ASSUME AInv, NEW S \in SUBSET Jobs, NEW p \in Ended, Refused(All(S, p)),
         \A j \in S : j \in active \cup paused \/ Terminal(j),
         pc # "call", Unpausing = {}, cur' = {},
         \/ Looping /\ pc' = "crashed" /\ todo' = {} /\ turn' = 0
         \/ pc' = "stopped" /\ UNCHANGED <<todo, turn>>,
         Quiet, UNCHANGED <<group, calling, pending, call>>
  PROVE  AInv'
<1>1. PICK F \in SUBSET S : Gone({j \in F : Live(j)})
  BY RefusedIs
<1>. DEFINE G == {j \in F : Live(j)}
<1>2. G \in SUBSET Jobs /\ G \subseteq active \cup paused
  BY DEF Live, Terminal, Ended
<1>3. ToSet(pending) \cap G = {}
  BY <1>2, QueueType DEF AInv, Places, Queued, Work
<1>4. Gone(G)
  BY <1>1
<1>. HIDE DEF G
<1>5. ToSet(pending') = ToSet(pending) \ (G \cup {})
  BY <1>3
<1>6. AtMostOne({})
  BY DEF AtMostOne
<1>. QED
  BY <1>2, <1>4, <1>5, <1>6, QueueType, LeavesStep

LEMMA BarrierRefusedStep ==
  ASSUME AInv, BarrierRefused
  PROVE  AInv'
<1>1. paused \in SUBSET Jobs /\ cur = {} /\ Unpausing = {} /\ Looping
  BY DEF AInv, TypeOK, Hands, BarrierRefused, Unpausing, Looping
<1>. QED
  BY <1>1, RefusedStep DEF BarrierRefused, Raise, Goto, Unhand, Ended

LEMMA SweepRefusedStep ==
  ASSUME AInv, SweepRefused
  PROVE  AInv'
<1>1. PICK r \in Swept : \E F \in SUBSET (Swept \ {r}) :
        Finish(Sweeping(F)) /\ pending' = Remaining(F \cup {r})
  BY DEF SweepRefused
<1>2. PICK F \in SUBSET (Swept \ {r}) : Finish(Sweeping(F)) /\ pending' = Remaining(F \cup {r})
  BY <1>1
<1>3. Swept \in SUBSET Jobs /\ \A j \in Swept : Live(j)
  BY DEF AInv, TypeOK, Places, Held, Swept, Queued
<1>4. Gone(F)
  <2>1. Sweeping(F) \in [F -> Ended]
    BY DEF Sweeping, Ended
  <2>2. {j \in F : Live(j)} = F /\ F \in SUBSET Jobs
    BY <1>3
  <2>. QED
    BY <1>2, <2>1, <2>2, FinishIs DEF AInv
<1>5. /\ pending' \in Seq(Work) /\ IsInjective(pending') /\ ToSet(pending') = ToSet(pending) \ (F \cup {r})
      /\ \A x, y : Before(pending', x, y) => Before(pending, x, y)
  BY <1>2, QueueType, RemainingIs
<1>6. {r} \in SUBSET Jobs /\ F \in SUBSET Jobs /\ AtMostOne({r})
  BY <1>3 DEF AtMostOne
<1>7. cur = {} /\ Unpausing = {} /\ Looping
  BY DEF AInv, Hands, SweepRefused, Unpausing, Looping
<1>. QED
  BY <1>4, <1>5, <1>6, <1>7, LeavesStep DEF SweepRefused, Raise, Goto, Unhand

LEMMA SelectRefusedStep ==
  ASSUME AInv, SelectRefused
  PROVE  AInv'
<1>1. PICK S \in SUBSET Ready : Refused(All(S, "failed"))
  BY DEF SelectRefused
<1>2. S \in SUBSET Jobs /\ S \subseteq active /\ Unpausing = {} /\ Looping
  BY DEF AInv, TypeOK, Ready, SelectRefused, Unpausing, Looping
<1>. QED
  BY <1>1, <1>2, RefusedStep DEF SelectRefused, Raise, Goto, Unhand, Ended

LEMMA ForwardRefusedStep ==
  ASSUME AInv, ForwardRefused
  PROVE  AInv'
<1>1. PICK G \in SUBSET todo : Refused(All(G, "failed"))
  BY DEF ForwardRefused
<1>2. G \in SUBSET Jobs /\ G \subseteq active /\ Unpausing = {} /\ Looping
  BY DEF AInv, TypeOK, Hands, ForwardRefused, Unpausing, Looping
<1>. QED
  BY <1>1, <1>2, RefusedStep DEF ForwardRefused, Raise, Goto, Unhand, Ended

LEMMA CommitRefusedStep ==
  ASSUME AInv, CommitRefused
  PROVE  AInv'
<1>1. /\ group \in SUBSET Jobs /\ Unpausing = {} /\ Looping
      /\ \A j \in group : j \in active \/ Terminal(j)
  BY DEF AInv, TypeOK, Hands, CommitRefused, Unpausing, Looping
<1>. QED
  BY <1>1, RefusedStep DEF CommitRefused, Raise, Goto, Unhand, Ended

LEMMA StopRunningRefusedStep ==
  ASSUME AInv, StopRunningRefused
  PROVE  AInv'
<1>1. /\ Running \in SUBSET Jobs /\ Unpausing = {} /\ pc # "call" /\ cur' = {}
      /\ UNCHANGED <<todo, turn>>
  BY DEF AInv, TypeOK, Hands, StopRunningRefused, LoopEnds, Unpausing, Running
<1>. QED
  BY <1>1, RefusedStep DEF StopRunningRefused, Running, Goto, Ended

LEMMA CrashStep ==
  ASSUME AInv, Crash
  PROVE  AInv'
<1>1. Gone({}) /\ {} \in SUBSET Jobs /\ AtMostOne({})
  BY DEF AInv, TypeOK, Gone, Crash, NoneEnds, lists, held, state, retry, AtMostOne
<1>2. Unpausing = {} /\ pc # "call" /\ Looping
  BY DEF Crash, Goes, Unpausing, Looping
<1>3. /\ UNCHANGED <<group, calling, pending, call>> /\ Quiet
      /\ cur' = {} /\ pc' = "crashed" /\ todo' = {} /\ turn' = 0
  BY DEF Crash, lists, Raise, Goto, Unhand
<1>4. ToSet(pending') = ToSet(pending) \ ({} \cup {})
  BY <1>3
<1>. QED
  BY <1>1, <1>2, <1>3, <1>4, QueueType, LeavesStep

LEMMA StopPendingRefusedStep ==
  ASSUME AInv, StopPendingRefused
  PROVE  AInv'
<1>. USE InferenceActorAssumption DEF AInv
<1>1. PICK i \in DOMAIN pending :
        LET before == {pending[k] : k \in 1 .. i - 1} IN
        /\ Finish(All(before \cap Jobs, "cancelled"))
        /\ call' = [c \in Calls |-> IF c \in before THEN "stopped" ELSE call[c]]
  BY DEF StopPendingRefused
<1>. DEFINE B == {pending[k] : k \in 1 .. i - 1}
<1>2. i \in 1 .. Len(pending) /\ B \subseteq ToSet(pending)
  <2>1. i \in 1 .. Len(pending) /\ pending \in Seq(Work)
    BY QueueType
  <2>. QED
    BY <2>1 DEF ToSet
<1>3. Gone(B \cap Jobs) /\ B \cap Jobs \in SUBSET Jobs
  <2>1. \A j \in B \cap Jobs : Live(j)
    BY <1>2 DEF Places, Held, Queued
  <2>2. {j \in B \cap Jobs : Live(j)} = B \cap Jobs /\ B \cap Jobs \in SUBSET Jobs
    BY <2>1
  <2>. QED
    BY <1>1, <2>2, AllEnd DEF Ended
<1>4. call' = [c \in Calls |-> IF c \in B THEN "stopped" ELSE call[c]]
  BY <1>1
<1>. HIDE DEF B
<1>5. /\ pending' = <<>> /\ pending' \in Seq(Work) /\ IsInjective(pending') /\ ToSet(pending') = {}
      /\ \A x, y : ~Before(pending', x, y)
  BY DEF StopPendingRefused, IsInjective, ToSet, Before
<1>6. /\ pc = "stopping" /\ pc' = "stopped" /\ Quiet /\ UNCHANGED <<todo, cur, turn, group, calling>>
      /\ Unpausing = {} /\ Unpausing' = {} /\ cur = {}
  BY DEF StopPendingRefused, Goto, Unpausing, Hands
<1>7. TypeOK'
  <2>1. call' \in [Calls -> {"new", "refused", "queued", "running", "done", "failed", "stopped"}]
    BY <1>4 DEF TypeOK
  <2>. QED
    BY <1>3, <1>5, <1>6, <2>1 DEF TypeOK, Steps, AtMostOne, Quiet, output, Gone, Work
<1>8. \A j \in Jobs : Live(j)' <=> Live(j) /\ j \notin B
  BY <1>3 DEF Gone, Live, Ended
<1>9. Places'
  <2>1. Queued' = {} /\ active' = active \ B /\ paused' = paused \ B
    BY <1>3, <1>5 DEF Queued, Gone, TypeOK
  <2>. QED
    BY <1>6, <1>8, <2>1 DEF Places, Held, Looping, TypeOK
<1>10. Hands'
  BY <1>3, <1>6, <1>8 DEF Hands, Looping, Gone, TypeOK
<1>11. Counts'
  BY <1>3, <1>6 DEF TypeOK, Counts, Uncounted, Gone
<1>12. CallsQueued'
  <2>1. calling \cap B = {}
    BY <1>2 DEF CallsQueued
  <2>2. \A c \in Calls : call[c] # "running" /\ (c \in calling => call[c] = "queued")
    BY <1>6 DEF CallsQueued
  <2>. QED
    BY <1>4, <1>5, <1>6, <2>1, <2>2 DEF CallsQueued, TypeOK
<1>13. Ordered'
  <2>1. \A c \in Calls : (Unanswered(c)' => Unanswered(c)) /\ (call[c] # "new" => call'[c] # "new")
    BY <1>4 DEF Unanswered
  <2>. QED
    BY <1>3, <1>5, <1>6, <2>1, GoneOrdered
<1>14. Alone'
  BY <1>6 DEF Alone
<1>. QED
  BY <1>7, <1>9, <1>10, <1>11, <1>12, <1>13, <1>14

LEMMA CommitFailsStep ==
  ASSUME AInv, CommitFails
  PROVE  AInv'
<1>. USE InferenceActorAssumption DEF AInv
<1>. DEFINE S == {j \in group : Live(j)}
<1>1. Gone(S) /\ S \subseteq active /\ S \in SUBSET Jobs /\ group \cap requested \subseteq S
  <2>1. group \in SUBSET Jobs /\ \A j \in S : j \in active
    BY DEF CommitFails, Hands, TypeOK, Live, Terminal, Ended
  <2>2. Finish(All(group, "failed"))
    BY DEF CommitFails
  <2>3. group \cap requested \subseteq S
    BY DEF Hands
  <2>. QED
    BY <2>1, <2>2, <2>3, AllEnd DEF Ended
<1>2. /\ pc = "commit" /\ pc' = "forward" /\ group' = {} /\ Quiet
      /\ UNCHANGED <<todo, cur, turn, calling, pending, call>>
      /\ cur = {} /\ Unpausing = {} /\ Unpausing' = {} /\ todo \cap group = {} /\ calling = {}
  BY DEF CommitFails, Goto, Hands, Looping, Unpausing
<1>3. S \subseteq group
  OBVIOUS
<1>. HIDE DEF S
<1>4. TypeOK'
  BY <1>1, <1>2 DEF TypeOK, Steps, AtMostOne, Quiet, output, Gone
<1>5. UNCHANGED Queued /\ Queued \cap S = {} /\ ToSet(pending) \cap S = {}
  BY <1>1, <1>2, QueueType DEF Places, Queued, Work
<1>6. Places'
  BY <1>1, <1>2, <1>5, GonePlaces DEF Looping
<1>7. Hands'
  <2>1. todo' \subseteq active' \cap requested'
    BY <1>1, <1>2, <1>3 DEF Hands, Gone
  <2>2. \A j \in started' \cup requested' : Live(j)'
    BY <1>1 DEF Gone, Hands, Live, TypeOK
  <2>. QED
    BY <1>2, <2>1, <2>2 DEF Hands, Looping
<1>8. Counts'
  BY <1>1, <1>2 DEF TypeOK, Counts, Uncounted, Gone
<1>9. CallsQueued'
  BY <1>2 DEF CallsQueued
<1>10. Ordered'
  BY <1>1, <1>2, <1>5, QueueType, GoneOrdered DEF Unanswered
<1>11. Alone'
  BY <1>2 DEF Alone
<1>. QED
  BY <1>4, <1>6, <1>7, <1>8, <1>9, <1>10, <1>11

LEMMA FailsStep ==
  ASSUME AInv, Fails
  PROVE  AInv'
  BY BarrierRefusedStep, SweepRefusedStep, SelectRefusedStep, ForwardRefusedStep, CommitFailsStep,
     CommitRefusedStep, CrashStep, StopRunningRefusedStep, StopPendingRefusedStep DEF Fails

-----------------------------------------------------------------------------
(* The invariant holds.                                                    *)

LEMMA StillInv ==
  ASSUME AInv, UNCHANGED vars
  PROVE  AInv'
<1>. USE DEF vars, flow, lists, held, state, output, retry
<1>1. TypeOK'
  BY DEF AInv, TypeOK, Steps, AtMostOne, Ended
<1>2. Places' /\ Hands' /\ Counts'
  BY DEF AInv, Places, Held, Looping, Hands, Counts, Uncounted, Queued, Unpausing, Live, Terminal
<1>3. CallsQueued' /\ Alone'
  BY DEF AInv, CallsQueued, Alone, Queued
<1>4. Ordered'
  BY DEF AInv, Ordered, Unanswered, Before, Unpausing
<1>. QED
  BY <1>1, <1>2, <1>3, <1>4 DEF AInv

LEMMA NextInv == AInv /\ [Next]_vars => AInv'
<1>. SUFFICES ASSUME AInv, [Next]_vars PROVE AInv'
  OBVIOUS
<1>1. ASSUME NEW j \in Jobs, Visit(j) PROVE AInv'
  BY <1>1, UnpauseStep, RequeueStep, StallStep, StallTimesOutStep, ResumeStep, PostponeStep,
     RequestStep, EmitStep, CompleteStep, LeaveStep DEF Visit
<1>2. CASE Actor
  BY <1>1, <1>2, BeginStep, AdmitStep, BarrierStep, RunCallStep, SweepStep, SelectStep,
     ForwardStep, CommitOneStep, FailsStep, StopRunningStep, StopPendingStep DEF Actor
<1>3. ASSUME NEW j \in Jobs, Submit(j) \/ Expire(j) \/ RetryElapses(j) \/ Read(j) \/ Abandon(j)
      PROVE  AInv'
  BY <1>3, SubmitStep, ExpireStep, RetryElapsesStep, GetStep, GetTimesOutStep,
     CheckTerminalStep, AbandonStep DEF Read
<1>. QED
  BY <1>2, <1>3, CloseStep, ExecuteStep, StillInv DEF Next

\* The invariant of the actor: where every job is, or that a refused device call has
\* cost it its place, what each phase of the loop finds, and in which order jobs and
\* calls go (_run with all its steps, the device calls that fail among them, and
\* whatever clients and readers do between two of them).
THEOREM Invariance == Spec => []AInv
<1>. QED
  BY InitInv, NextInv, PTL DEF Spec

-----------------------------------------------------------------------------
(* What follows from it.                                                   *)

\* Nothing is queued twice, and put_nowait never finds an output queue full.
THEOREM TypeCorrect == Spec => []TypeOK
<1>1. AInv => TypeOK
  BY DEF AInv
<1>. QED
  BY <1>1, Invariance, PTL

LEMMA InOne ==
  ASSUME AInv, NEW j \in Jobs
  PROVE  /\ Cardinality(PlacesOf(j)) <= IF Live(j) THEN 1 ELSE 0
         /\ PlacesOf(j) # {} <=> j \in Held
<1>1. PlacesOf(j) # {} <=> j \in Held
  BY DEF PlacesOf, Held
<1>2. PlacesOf(j) = {} \/ \E x : PlacesOf(j) = {x}
  <2>1. CASE j \in Queued
    <3>1. PlacesOf(j) = {"queue"}
      BY <2>1 DEF AInv, Places, PlacesOf
    <3>. QED
      BY <3>1
  <2>2. CASE j \in active
    <3>1. PlacesOf(j) = {"slot"}
      BY <2>2 DEF AInv, Places, PlacesOf
    <3>. QED
      BY <3>1
  <2>3. CASE j \in paused
    <3>1. PlacesOf(j) = {"paused"}
      BY <2>3 DEF AInv, Places, PlacesOf
    <3>. QED
      BY <3>1
  <2>4. CASE j \in Unpausing
    <3>1. PlacesOf(j) = {"moving"}
      BY <2>4 DEF AInv, Places, PlacesOf
    <3>. QED
      BY <3>1
  <2>. QED
    BY <1>1, <2>1, <2>2, <2>3, <2>4 DEF Held
<1>3. PlacesOf(j) # {} => Live(j)
  BY <1>1 DEF AInv, Places
<1>4. CASE PlacesOf(j) = {}
  <2>1. Cardinality(PlacesOf(j)) = 0
    BY <1>4, FS_EmptySet
  <2>. QED
    BY <1>1, <2>1
<1>5. ASSUME NEW x, PlacesOf(j) = {x} PROVE Cardinality(PlacesOf(j)) <= IF Live(j) THEN 1 ELSE 0
  <2>1. Cardinality(PlacesOf(j)) = 1
    BY <1>5, FS_Singleton
  <2>. QED
    BY <1>3, <1>5, <2>1
<1>. QED
  BY <1>1, <1>2, <1>4, <1>5

LEMMA PlacesAreOne == AInv => OnePlace
<1>. SUFFICES ASSUME AInv PROVE OnePlace
  OBVIOUS
<1>1. Lost = {j \in Jobs : Live(j) /\ j \notin Held}
  BY InOne DEF Lost
<1>2. pc \notin {"crashed", "stopping", "stopped"} => Lost = {}
  BY <1>1 DEF AInv, Places, Looping
<1>3. pc # "stopped" => AtMostOne(Lost)
  BY <1>1 DEF AInv, Places, AtMostOne
<1>. QED
  BY <1>2, <1>3, InOne DEF OnePlace

\* A job in the actor's hands lives and is in one of them only; while the loop runs
\* a job that lives is in one, whatever the device has refused so far; and a refusal
\* that ends the loop costs one job its place at most (_admit, _defer, _finish and
\* the loop over _paused).
THEOREM InOnePlace == Spec => []OnePlace
<1>. QED
  BY PlacesAreOne, Invariance, PTL

LEMMA CallsRunAlone == AInv => BarrierExclusive
<1>. SUFFICES ASSUME AInv, NEW c \in Calls, NEW j \in Jobs, call[c] = "running", Live(j)
     PROVE  c \in behind[j]
  BY DEF BarrierExclusive
<1>1. pc = "call" /\ c \in calling
  BY DEF AInv, CallsQueued
<1>2. j \in Queued
  BY <1>1 DEF AInv, Places, Held, Looping, Alone, Unpausing
<1>. QED
  BY <1>1, <1>2 DEF AInv, Alone

\* While a lifecycle call runs, every job left was submitted after it (the barrier
\* of _run: no job in a slot, the paused ones cancelled, its turn in the queue).
THEOREM BarrierIsExclusive == Spec => []BarrierExclusive
<1>. QED
  BY CallsRunAlone, Invariance, PTL

\* A job that was submitted after a call starts when the call has been answered
\* (_admit takes only the jobs before the first call, _defer keeps them there).
THEOREM BarrierKeepsOrder == Spec => []BarrierOrder
<1>1. AInv => BarrierOrder
  BY DEF AInv, Ordered, Unanswered, BarrierOrder
<1>. QED
  BY <1>1, Invariance, PTL

\* The tokens the actor has counted are those the cache has adopted (_forward and
\* its commit, with a cancellation or a deadline between the two).
THEOREM CountsAgree == Spec => []CacheAgrees
<1>1. AInv => CacheAgrees
  BY DEF AInv, Counts, Uncounted, CacheAgrees
<1>. QED
  BY <1>1, Invariance, PTL

-----------------------------------------------------------------------------
(* Ends are final, and what the actor holds is bounded.                    *)

\* What a step may do: end jobs, admit some, or accept one.
Moves ==
    /\ \A j \in Jobs : ~Live(j) /\ phase[j] # "new" =>
          phase'[j] = phase[j] /\ unread'[j] <= unread[j]
    /\ active' \subseteq active \/ \E S \in SUBSET Ahead : Admissible(S) /\ active' = active \cup S
    /\ \/ \A j \in Jobs : Live(j)' => Live(j)
       \/ HasRoom /\ \E i \in Jobs : \A j \in Jobs \ {i} : Live(j)' => Live(j)

LEMMA EndsMove ==
  ASSUME AInv, NEW out, Finish(out), UNCHANGED unread
  PROVE  Moves
<1>1. \A j \in Jobs : ~Live(j) => phase'[j] = phase[j]
  BY DEF Finish
<1>2. \A j \in Jobs : unread[j] \in Nat
  BY DEF AInv, TypeOK
<1>3. active' \subseteq active
  BY DEF Finish
<1>. QED
  BY <1>1, <1>2, <1>3 DEF Moves, Live

LEMMA OthersMove ==
  ASSUME AInv, UNCHANGED <<phase, unread>>,
         active' \subseteq active \/ \E S \in SUBSET Ahead : Admissible(S) /\ active' = active \cup S
  PROVE  Moves
<1>1. \A j \in Jobs : unread[j] \in Nat
  BY DEF AInv, TypeOK
<1>. QED
  BY <1>1 DEF Moves, Live

LEMMA NextMoves ==
  ASSUME AInv, [Next]_vars
  PROVE  Moves
<1>. USE InferenceActorAssumption DEF Quiet, NoneEnds, output
<1>1. ASSUME NEW j \in Jobs, Visit(j) PROVE Moves
  <2>1. CASE StallTimesOut(j) \/ Complete(j)
    BY <2>1, EndsMove DEF StallTimesOut, Complete
  <2>2. CASE Unpause(j) \/ Requeue(j) \/ Stall(j) \/ Resume(j) \/ Postpone(j) \/ Request(j) \/ Leave(j)
    <3>1. UNCHANGED <<phase, unread>> /\ active' \subseteq active
      BY <2>2 DEF Unpause, Requeue, Stall, Resume, Postpone, Request, Leave, lists
    <3>. QED
      BY <3>1, OthersMove
  <2>3. CASE Emit(j)
    <3>1. Live(j) /\ UNCHANGED <<phase, active>>
      BY <2>3 DEF Emit, Goes, lists, AInv, Places, Held, Looping, Hands
    <3>2. \A i \in Jobs \ {j} : unread'[i] = unread[i] /\ unread[i] \in Nat
      BY <2>3 DEF Emit, AInv, TypeOK
    <3>. QED
      BY <3>1, <3>2 DEF Moves, Live
  <2>. QED
    BY <1>1, <2>1, <2>2, <2>3 DEF Visit
<1>2. CASE Actor
  <2>1. CASE Begin \/ RunCall \/ Crash
    <3>1. UNCHANGED <<phase, unread, active>>
      BY <2>1 DEF Begin, RunCall, Crash, lists
    <3>. QED
      BY <3>1, OthersMove
  <2>2. CASE Admit
    BY <2>2, OthersMove DEF Admit
  <2>3. CASE Barrier \/ Sweep \/ StopRunning \/ StopPending
    BY <2>3, EndsMove DEF Barrier, Sweep, StopRunning, StopPending
  <2>4. CASE Select
    BY <2>4, EndsMove, OthersMove DEF Select
  <2>5. ASSUME NEW G \in SUBSET Jobs, Forward(G) PROVE Moves
    BY <2>5, EndsMove, OthersMove DEF Forward
  <2>6. ASSUME NEW j \in Jobs, CommitOne(j) PROVE Moves
    BY <2>6, EndsMove, OthersMove DEF CommitOne
  <2>7. CASE Fails
    <3>1. CASE BarrierRefused \/ SelectRefused \/ ForwardRefused \/ CommitRefused \/ StopRunningRefused
      BY <3>1, EndsMove DEF BarrierRefused, SelectRefused, ForwardRefused, CommitRefused,
         StopRunningRefused, Refused
    <3>2. CASE SweepRefused \/ StopPendingRefused \/ CommitFails
      BY <3>2, EndsMove DEF SweepRefused, StopPendingRefused, CommitFails
    <3>. QED
      BY <2>1, <2>7, <3>1, <3>2 DEF Fails
  <2>. QED
    BY <1>1, <1>2, <2>1, <2>2, <2>3, <2>4, <2>5, <2>6, <2>7 DEF Actor
<1>3. ASSUME NEW j \in Jobs, Submit(j) PROVE Moves
  <2>1. UNCHANGED <<active, unread>> /\ \A i \in Jobs : unread[i] \in Nat
    BY <1>3 DEF Submit, AInv, TypeOK
  <2>2. \A i \in Jobs \ {j} : phase'[i] = phase[i]
    BY <1>3 DEF Submit, AInv, TypeOK
  <2>3. phase[j] = "new" /\ (HasRoom \/ phase'[j] = "refused")
    BY <1>3 DEF Submit, AInv, TypeOK
  <2>. QED
    BY <2>1, <2>2, <2>3 DEF Moves, Live
<1>4. ASSUME NEW j \in Jobs, Get(j) PROVE Moves
  <2>1. UNCHANGED <<active, phase>>
    BY <1>4 DEF Get, Reads, lists
  <2>2. \A i \in Jobs : unread'[i] <= unread[i]
    BY <1>4 DEF Get, AInv, TypeOK
  <2>. QED
    BY <2>1, <2>2 DEF Moves, Live
<1>5. ASSUME NEW j \in Jobs,
             Expire(j) \/ RetryElapses(j) \/ GetTimesOut(j) \/ CheckTerminal(j) \/ Abandon(j)
      PROVE  Moves
  <2>1. UNCHANGED <<phase, unread, active>>
    BY <1>5 DEF Expire, RetryElapses, GetTimesOut, CheckTerminal, Abandon, Reads, lists
  <2>. QED
    BY <2>1, OthersMove
<1>6. CASE Close \/ UNCHANGED vars \/ \E c \in Calls : Execute(c)
  <2>1. UNCHANGED <<phase, unread, active>>
    BY <1>6 DEF Close, vars, Execute, lists
  <2>. QED
    BY <2>1, OthersMove
<1>. QED
  BY <1>2, <1>3, <1>4, <1>5, <1>6 DEF Next, Read

\* A terminal phase is final, and no output follows it (_finish ignores a second
\* end, and nothing is advanced that is not in a slot).
THEOREM EndIsFinal == Spec => TerminalFinal
<1>1. Moves /\ AInv => \A j \in Jobs : Terminal(j) => phase'[j] = phase[j] /\ unread'[j] <= unread[j]
  BY DEF Moves, Terminal, Ended, Live
<1>2. AInv /\ [Next]_vars =>
        [\A j \in Jobs : Terminal(j) => phase'[j] = phase[j] /\ unread'[j] <= unread[j]]_vars
  BY <1>1, NextMoves
<1>. QED
  BY <1>2, Invariance, PTL DEF Spec, TerminalFinal

\* What the actor holds grows by a job it has room for, or not at all: also when it
\* has left its loop and holds less than what lives.
Accepts == Held' \subseteq Held \/ (HasRoom /\ \E i \in Jobs : Held' \subseteq Held \cup {i})

LEMMA LoopAccepts ==
  ASSUME AInv, [Next]_vars, Looping
  PROVE  Accepts
<1>1. Moves /\ AInv'
  BY NextMoves, NextInv
<1>2. /\ Held' \subseteq {j \in Jobs : Live(j)'} /\ Held = {j \in Jobs : Live(j)}
  <2>1. Held' \subseteq Jobs /\ Held \subseteq Jobs
    BY <1>1 DEF AInv, TypeOK, Held, Queued, Unpausing
  <2>. QED
    BY <1>1, <2>1 DEF AInv, Places
<1>. QED
  BY <1>1, <1>2 DEF Moves, Accepts

LEMMA StoppedAccepts ==
  ASSUME AInv, [Next]_vars, ~Looping
  PROVE  Accepts
<1>. USE InferenceActorAssumption
<1>1. ASSUME UNCHANGED <<pc, cur, active, paused>>, Queued' \subseteq Queued
      PROVE  Accepts
  BY <1>1 DEF Accepts, Held, Unpausing
<1>2. CASE Actor
  <2>1. /\ pc \in {"crashed", "stopping", "stopped"} /\ pc' \in {"stopping", "stopped"}
        /\ StopRunning \/ StopPending \/ StopRunningRefused \/ StopPendingRefused
    BY <1>2 DEF Looping, Actor, Fails, Visit, Begin, Admit, Barrier, RunCall, Sweep, Select,
       Forward, CommitOne, BarrierRefused, SweepRefused, SelectRefused, ForwardRefused,
       CommitFails, CommitRefused, Crash, Goes, Unpause, Requeue, Stall, StallTimesOut, Resume,
       Postpone, Request, Emit, Complete, Leave, StopRunning, StopPending, StopRunningRefused,
       StopPendingRefused, Goto
  <2>2. active' \subseteq active /\ paused' \subseteq paused
    BY <2>1 DEF StopRunning, StopPending, StopRunningRefused, StopPendingRefused, Refused, Finish
  <2>3. Queued' \subseteq Queued
    BY <2>1 DEF StopRunning, StopPending, StopRunningRefused, StopPendingRefused, Queued, ToSet
  <2>. QED
    BY <2>1, <2>2, <2>3 DEF Accepts, Held, Unpausing
<1>3. ASSUME NEW j \in Jobs, Submit(j) PROVE Accepts
  <2>1. UNCHANGED <<pc, cur, active, paused>>
    BY <1>3 DEF Submit, flow
  <2>2. CASE pending' = pending
    BY <1>1, <2>1, <2>2 DEF Queued
  <2>3. CASE HasRoom /\ pending' = Append(pending, j)
    <3>1. Queued' \subseteq Queued \cup {j}
      BY <2>3, QueueType, AppendIs DEF Queued, Work
    <3>. QED
      BY <2>1, <2>3, <3>1 DEF Accepts, Held, Unpausing
  <2>. QED
    BY <1>3, <2>2, <2>3 DEF Submit
<1>4. ASSUME NEW c \in Calls, Execute(c) PROVE Accepts
  <2>1. UNCHANGED <<pc, cur, active, paused>>
    BY <1>4 DEF Execute, flow
  <2>2. pending' = pending \/ pending' = Append(pending, c)
    BY <1>4 DEF Execute
  <2>3. ToSet(pending') \subseteq ToSet(pending) \cup {c}
    <3>1. CASE pending' = Append(pending, c)
      BY <3>1, QueueType, AppendIs DEF Work
    <3>2. CASE pending' = pending
      BY <3>2
    <3>. QED
      BY <2>2, <3>1, <3>2
  <2>. QED
    BY <1>1, <2>1, <2>3 DEF Queued
<1>5. ASSUME NEW j \in Jobs, Expire(j) \/ RetryElapses(j) \/ Read(j) \/ Abandon(j) PROVE Accepts
  <2>1. UNCHANGED <<pc, cur, active, paused, pending>>
    BY <1>5 DEF Expire, RetryElapses, Read, Get, GetTimesOut, CheckTerminal, Abandon, Reads, flow,
       lists
  <2>. QED
    BY <1>1, <2>1 DEF Queued
<1>6. CASE Close \/ UNCHANGED vars
  <2>1. UNCHANGED <<pc, cur, active, paused, pending>>
    BY <1>6 DEF Close, vars, flow, lists
  <2>. QED
    BY <1>1, <2>1 DEF Queued
<1>. QED
  BY <1>2, <1>3, <1>4, <1>5, <1>6 DEF Next

\* What is queued, paused, in a slot or on its way to the queue, counted.
LEMMA HeldCount ==
  ASSUME AInv
  PROVE  /\ IsFiniteSet(Held) /\ IsFiniteSet(active) /\ IsFiniteSet(paused)
         /\ Cardinality(Held) <= Len(pending) + Cardinality(active) + Cardinality(paused) + 1
<1>. USE InferenceActorAssumption
<1>1. /\ IsFiniteSet(Held) /\ IsFiniteSet(active) /\ IsFiniteSet(paused)
      /\ IsFiniteSet(Queued) /\ IsFiniteSet(Unpausing)
  <2>1. /\ Held \in SUBSET Jobs /\ active \in SUBSET Jobs /\ paused \in SUBSET Jobs
        /\ Queued \in SUBSET Jobs /\ Unpausing \in SUBSET Jobs
    BY DEF Held, AInv, TypeOK, Queued, Unpausing
  <2>. QED
    BY <2>1, FS_Subset
<1>2. Cardinality(Unpausing) <= 1
  <2>1. Unpausing = {} \/ \E x : Unpausing = {x}
    <3>1. \A x, y \in Unpausing : x = y
      BY DEF AInv, TypeOK, AtMostOne, Unpausing
    <3>2. ASSUME NEW x \in Unpausing PROVE Unpausing = {x}
      BY <3>1
    <3>. QED
      BY <3>2
  <2>2. CASE Unpausing = {}
    <3>1. Cardinality(Unpausing) = 0
      BY <2>2, FS_EmptySet
    <3>. QED
      BY <3>1
  <2>3. ASSUME NEW x, Unpausing = {x} PROVE Cardinality(Unpausing) <= 1
    <3>1. Cardinality(Unpausing) = 1
      BY <2>3, FS_Singleton
    <3>. QED
      BY <3>1
  <2>. QED
    BY <2>1, <2>2, <2>3
<1>3. Cardinality(Queued) <= Len(pending)
  <2>. DEFINE f == [i \in 1 .. Len(pending) |-> pending[i]]
  <2>1. f \in Surjection(1 .. Len(pending), ToSet(pending))
    BY QueueType DEF Surjection, ToSet
  <2>2. IsFiniteSet(1 .. Len(pending)) /\ Cardinality(1 .. Len(pending)) = Len(pending)
    BY QueueType, FS_Interval
  <2>3. IsFiniteSet(ToSet(pending)) /\ Cardinality(ToSet(pending)) <= Len(pending)
    BY <2>1, <2>2, FS_Surjection
  <2>4. Queued \in SUBSET ToSet(pending)
    BY DEF Queued
  <2>5. Cardinality(Queued) <= Cardinality(ToSet(pending))
    BY <2>3, <2>4, FS_Subset
  <2>. QED
    BY <1>1, <2>3, <2>5, QueueType, FS_CardinalityType
<1>4. Held = Queued \cup active \cup paused \cup Unpausing
  BY DEF Held
<1>5. ASSUME NEW A, NEW B, IsFiniteSet(A), IsFiniteSet(B)
      PROVE  /\ IsFiniteSet(A \cup B) /\ Cardinality(A \cup B) \in Nat
             /\ Cardinality(A \cup B) <= Cardinality(A) + Cardinality(B)
  <2>1. IsFiniteSet(A \cap B)
    <3>1. A \cap B \in SUBSET A
      OBVIOUS
    <3>. QED
      BY <1>5, <3>1, FS_Subset
  <2>2. /\ Cardinality(A) \in Nat /\ Cardinality(B) \in Nat /\ Cardinality(A \cap B) \in Nat
        /\ Cardinality(A \cup B) = Cardinality(A) + Cardinality(B) - Cardinality(A \cap B)
        /\ IsFiniteSet(A \cup B)
    BY <1>5, <2>1, FS_Union, FS_CardinalityType
  <2>3. Cardinality(A \cup B) \in Nat
    BY <2>2, FS_CardinalityType
  <2>. QED
    BY <2>2, <2>3
<1>6. /\ IsFiniteSet(Queued \cup active)
      /\ Cardinality(Queued \cup active) <= Cardinality(Queued) + Cardinality(active)
      /\ Cardinality(Queued \cup active) \in Nat
  BY <1>1, <1>5
<1>7. /\ IsFiniteSet(Queued \cup active \cup paused)
      /\ Cardinality(Queued \cup active \cup paused) <= Cardinality(Queued \cup active) + Cardinality(paused)
      /\ Cardinality(Queued \cup active \cup paused) \in Nat
  BY <1>1, <1>5, <1>6
<1>8. Cardinality(Held) <= Cardinality(Queued \cup active \cup paused) + Cardinality(Unpausing)
  BY <1>1, <1>4, <1>5, <1>7
<1>9. /\ Cardinality(Queued) \in Nat /\ Cardinality(active) \in Nat /\ Cardinality(paused) \in Nat
      /\ Cardinality(Unpausing) \in Nat /\ Cardinality(Held) \in Nat /\ Len(pending) \in Nat
  BY <1>1, QueueType, FS_CardinalityType
<1>. QED
  BY <1>1, <1>2, <1>3, <1>6, <1>7, <1>8, <1>9

LEMMA HeldIs == AInv => {j \in Jobs : PlacesOf(j) # {}} = Held
<1>1. AInv => Held \subseteq Jobs
  BY DEF AInv, TypeOK, Held, Queued, Unpausing
<1>. QED
  BY <1>1, InOne

LEMMA BoundedStep == AInv /\ Bounded /\ [Next]_vars => Bounded'
<1>. SUFFICES ASSUME AInv, Bounded, [Next]_vars PROVE Bounded'
  OBVIOUS
<1>. USE InferenceActorAssumption
<1>1. Moves /\ AInv'
  BY NextMoves, NextInv
<1>2. /\ IsFiniteSet(active) /\ IsFiniteSet(active') /\ IsFiniteSet(Held) /\ IsFiniteSet(Held')
      /\ IsFiniteSet(paused)
  <2>1. Held \in SUBSET Jobs /\ Held' \in SUBSET Jobs /\ active \in SUBSET Jobs
        /\ active' \in SUBSET Jobs /\ paused \in SUBSET Jobs
    BY <1>1 DEF Held, AInv, TypeOK, Queued, Unpausing
  <2>. QED
    BY <2>1, FS_Subset
<1>3. /\ Cardinality(active) \in Nat /\ Cardinality(active') \in Nat /\ Cardinality(paused) \in Nat
      /\ Cardinality(Held) \in Nat /\ Cardinality(Held') \in Nat /\ Len(pending) \in Nat
  BY <1>2, QueueType, FS_CardinalityType
<1>4. Cardinality(active') <= MaxSequences
  <2>1. CASE active' \subseteq active
    BY <1>2, <1>3, <2>1, FS_Subset DEF Bounded
  <2>2. ASSUME NEW S \in SUBSET Ahead, Admissible(S), active' = active \cup S
        PROVE  Cardinality(active') <= MaxSequences
    <3>1. S \in SUBSET Jobs
      BY QueueType, AheadIs DEF Queued
    <3>2. IsFiniteSet(S) /\ IsFiniteSet(active \cap S)
      <4>1. active \cap S \in SUBSET S
        OBVIOUS
      <4>2. IsFiniteSet(S)
        BY <3>1, FS_Subset
      <4>. QED
        BY <4>1, <4>2, FS_Subset
    <3>3. Cardinality(active') = Cardinality(active) + Cardinality(S) - Cardinality(active \cap S)
      BY <1>2, <2>2, <3>2, FS_Union
    <3>4. Cardinality(S) \in Nat /\ Cardinality(active \cap S) \in Nat
      BY <3>2, FS_CardinalityType
    <3>5. CASE S = {}
      <4>1. active' = active
        BY <2>2, <3>5
      <4>. QED
        BY <4>1 DEF Bounded
    <3>6. CASE S # {}
      <4>1. Cardinality(active) + Cardinality(S) <= MaxSequences
        BY <2>2, <3>6 DEF Admissible
      <4>. QED
        BY <1>3, <3>3, <3>4, <4>1
    <3>. QED
      BY <3>5, <3>6
  <2>. QED
    BY <1>1, <2>1, <2>2 DEF Moves
<1>5. Cardinality(Held') <= QueueSize + MaxSequences + 1
  <2>1. CASE Held' \subseteq Held
    <3>1. Held' \in SUBSET Held
      BY <2>1
    <3>2. Cardinality(Held') <= Cardinality(Held)
      BY <1>2, <3>1, FS_Subset
    <3>3. Cardinality(Held) <= QueueSize + MaxSequences + 1
      BY HeldIs DEF Bounded
    <3>. QED
      BY <1>3, <3>2, <3>3
  <2>2. ASSUME HasRoom, NEW i \in Jobs, Held' \subseteq Held \cup {i}
        PROVE  Cardinality(Held') <= QueueSize + MaxSequences + 1
    <3>1. Held' \in SUBSET (Held \cup {i})
      BY <2>2
    <3>2. /\ IsFiniteSet(Held \cup {i}) /\ Cardinality(Held \cup {i}) \in Nat
          /\ Cardinality(Held \cup {i}) <= Cardinality(Held) + 1
      <4>1. /\ IsFiniteSet(Held \cup {i})
            /\ Cardinality(Held \cup {i}) \in {Cardinality(Held), Cardinality(Held) + 1}
        BY <1>2, FS_AddElement
      <4>. QED
        BY <1>3, <4>1
    <3>3. Cardinality(Held') <= Cardinality(Held \cup {i})
      BY <3>1, <3>2, FS_Subset
    <3>4. Cardinality(Held) <= Len(pending) + Cardinality(active) + Cardinality(paused) + 1
      BY HeldCount
    <3>5. Len(pending) + Cardinality(paused) < QueueSize /\ Cardinality(active) <= MaxSequences
      BY <2>2 DEF HasRoom, Bounded
    <3>. QED
      BY <1>3, <3>2, <3>3, <3>4, <3>5
  <2>. QED
    BY <2>1, <2>2, LoopAccepts, StoppedAccepts DEF Accepts
<1>6. {j \in Jobs : PlacesOf(j) # {}}' = Held'
  <2>1. Held' \subseteq Jobs
    BY <1>1 DEF AInv, TypeOK, Held, Queued, Unpausing
  <2>. QED
    BY <2>1 DEF PlacesOf, Held
<1>. QED
  BY <1>4, <1>5, <1>6 DEF Bounded

\* Slots, and the jobs in the actor's hands, stay within max_sequences, and within queue_size and
\* max_sequences and one, whatever is deferred, paused and requeued meanwhile
\* (_enqueue counts _pending and _paused; _admit fills the free slots).
THEOREM HoldsAreBounded == Spec => []Bounded
<1>. USE InferenceActorAssumption
<1>1. ASSUME Init PROVE Bounded
  <2>1. {j \in Jobs : PlacesOf(j) # {}} = {} /\ active = {}
    BY <1>1 DEF Init, PlacesOf, Queued, Unpausing, ToSet
  <2>. QED
    BY <2>1, FS_EmptySet DEF Bounded
<1>. QED
  BY <1>1, BoundedStep, Invariance, PTL DEF Spec
=============================================================================
