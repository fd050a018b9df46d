------------------------- MODULE CacheRuntimeProofs -------------------------
(***************************************************************************)
(* Proofs about CacheRuntime for any number of requests and layers, any    *)
(* streams of tokens, page and segment size, capacity and index.           *)
(*                                                                         *)
(* The invariant CInv says that the pool, the index and the caches of all  *)
(* owners belong together (Sound), that the handles are typed and whole,   *)
(* and where the drafts of a forward are.  Sound is about any pool, index  *)
(* and family of caches, so that every operation of PagePool and of the    *)
(* index is a lemma of its own that says what becomes of them; an action   *)
(* is then a few of these lemmas and the bookkeeping of its handles.       *)
(*                                                                         *)
(* Counts are cardinalities of sets of places.  They change by bijections  *)
(* between such sets, and so no sum over the owners has to be unfolded.    *)
(***************************************************************************)
EXTENDS CacheRuntime, FiniteSetTheorems, SequenceTheorems, FunctionTheorems, WellFoundedInduction,
        TLAPS

Vocabulary == UNION {Range(Stream[r]) : r \in Requests}

(* A pool, an index and some caches, each named by a kind, a request and a *)
(* layer, that belong together.                                            *)

BlockOK(p, at) ==
    LET b == p.page[at]
    IN  /\ b \in [layer : Layers, data : Seq(Vocabulary), refs : Nat, pins : Nat, sealed : BOOLEAN]
        /\ Len(b.data) \in 1 .. PageTokens /\ b.sealed = (Len(b.data) = PageTokens)
        /\ p.seg[at[1]] = b.layer
PoolOK(p) ==
    /\ p.seg \in [Segments -> Layers \cup {None}]
    /\ Live(p) \subseteq Places /\ \A at \in Live(p) : BlockOK(p, at)

\* Page at holds the i-th page of tokens of a stream, or the start of it.
Holds(p, at, stream, i) ==
    \A j \in 1 .. Len(p.page[at].data) : p.page[at].data[j] = stream[PageTokens * (i - 1) + j]

\* A cache of layer l of request r.
CacheOK(p, c, r, l) ==
    /\ c \in Cache /\ Len(c.table) = Len(c.pages)
    /\ \A i \in 1 .. Len(c.pages) :
          /\ c.pages[i] \in Live(p) /\ p.page[c.pages[i]].layer = l
          /\ c.table[i] = Row(p, c.pages[i])
          /\ i < Len(c.pages) => p.page[c.pages[i]].sealed
          /\ Holds(p, c.pages[i], Stream[r], i)
    /\ c.offset = IF c.pages = <<>> THEN 0
                  ELSE PageTokens * (Len(c.pages) - 1) + Len(p.page[c.pages[Len(c.pages)]].data)
    /\ c.offset <= Len(Stream[r])

Nodes == [path : Seq(Vocabulary), pages : [Layers -> Places]]
NodeOK(p, e) ==
    /\ \E k \in Nat \ {0} : Len(e.path) = PageTokens * k
    /\ \E r \in Requests : Len(e.path) <= Prompt[r] /\ e.path = SubSeq(Stream[r], 1, Len(e.path))
    /\ \A l \in Layers :
          LET b == p.page[e.pages[l]]
          IN  /\ e.pages[l] \in Live(p) /\ b.sealed /\ b.layer = l
              /\ b.data = SubSeq(e.path, Len(e.path) - PageTokens + 1, Len(e.path))
IndexOK(p, ix) ==
    /\ ix \in Seq(Nodes)
    /\ \A i \in DOMAIN ix :
          /\ NodeOK(p, ix[i])
          /\ Len(ix[i].path) > PageTokens => Parent(ix[i].path) \in PathsOf(ix)

Refs(C, at) == Count(PagesIn(C), at)
Pins(ix, at) == IF at \in Stored(ix) THEN 1 ELSE 0
Counted(p, ix, C) ==
    \A at \in Live(p) :
        /\ p.page[at].refs = Refs(C, at) /\ p.page[at].pins = Pins(ix, at)
        /\ Refs(C, at) + Pins(ix, at) > 0

\* A page that can be written has one place in one cache.
Alone(p, ix, C) ==
    \A at \in Live(p) : ~p.page[at].sealed =>
        /\ at \notin Stored(ix)
        /\ \A x, y \in Uses(PagesIn(C), at) : x = y

Named(C) == IsFiniteSet(DOMAIN C) /\ \A x \in DOMAIN C : x[2] \in Requests /\ x[3] \in Layers
CachesOK(p, C) == \A x \in DOMAIN C : CacheOK(p, C[x], x[2], x[3])

Sound(p, ix, C) ==
    Named(C) /\ PoolOK(p) /\ CachesOK(p, C) /\ IndexOK(p, ix) /\ Counted(p, ix, C) /\ Alone(p, ix, C)

(* Handles and the forward.                                                *)

Whole(h) ==
    /\ \A l \in Layers : h.caches[l].offset = h.computed
    /\ h.reserved = Remainder(h)

HandlesOK ==
    /\ handles \in [Requests -> Handle \cup {None}]
    /\ \A r \in Open \ forward.active : Whole(handles[r])

ForwardTyped ==
    /\ forward = [stage |-> forward.stage, group |-> forward.group, width |-> forward.width,
                  transient |-> forward.transient, drafts |-> forward.drafts,
                  active |-> forward.active, accounts |-> forward.accounts]
    /\ forward.stage \in {"idle", "clone", "append", "reconcile"}
    /\ forward.group \subseteq Open /\ forward.active \subseteq forward.group
    /\ forward.transient \in Nat
    /\ forward.drafts \in [Requests -> Seq(Cache)]
    /\ \A r \in Requests : Len(forward.drafts[r]) <= Cardinality(Layers)
    /\ \A r \in Requests \ forward.group : forward.drafts[r] = <<>>

\* Tails that are still to be copied.
Mutable(r, l) == ~LastSealed(pool, handles[r].caches[l])
Awaiting == {x \in forward.group \X Layers : Len(forward.drafts[x[1]]) < x[2] /\ Mutable(x[1], x[2])}

Drafting ==
    /\ forward.active = {} /\ forward.group # {}
    /\ \A r \in forward.group :
          /\ forward.width[r] \in Nat
          /\ handles[r].computed + forward.width[r] <= Len(Stream[r])
Copying ==
    /\ \A r \in forward.group : \A l \in DOMAIN forward.drafts[r] :
          forward.drafts[r][l].offset = handles[r].computed
    /\ Physical(pool) + SegmentPages * Cardinality(Awaiting) <= Capacity
Complete == \A r \in forward.group : Len(forward.drafts[r]) = Cardinality(Layers)
Growing ==
    \A r \in forward.group, l \in Layers :
        forward.drafts[r][l].offset \in handles[r].computed .. (handles[r].computed + forward.width[r])

\* What a rollback makes of a handle.
Restored(r) ==
    [handles[r] EXCEPT !.caches = forward.drafts[r], !.computed = forward.accounts[r].computed,
                       !.reserved = forward.accounts[r].reserved]
Adopting ==
    /\ DOMAIN forward.accounts \subseteq forward.group /\ forward.active \subseteq DOMAIN forward.accounts
    /\ \A r \in DOMAIN forward.accounts :
          forward.accounts[r] \in [computed : Nat, reserved : Nat] /\ Whole(Restored(r))
    /\ \A r \in forward.active, l \in Layers :
          handles[r].caches[l].offset = handles[r].caches[1].offset

ForwardOK ==
    /\ ForwardTyped
    /\ Step("idle") => forward = Idle
    /\ Step("clone") => Drafting /\ Copying
    /\ Step("append") => Drafting /\ Complete /\ Growing
    /\ Step("reconcile") => Complete /\ Adopting

CInv == HandlesOK /\ ForwardOK /\ Sound(pool, index, Caches)
-----------------------------------------------------------------------------
(* Finite sets, numbers and lists.                                         *)

\* The assumptions on the constants, in the form the proofs use.
LEMMA Constants ==
  /\ IsFiniteSet(Layers) /\ Cardinality(Layers) \in Nat \ {0} /\ Layers = 1 .. Cardinality(Layers)
  /\ 1 \in Layers /\ None \notin Layers
  /\ Segments \subseteq Nat /\ IsFiniteSet(Segments) /\ Cardinality(Segments) \in Nat
  /\ SegmentPages \in Nat \ {0} /\ PageTokens \in Nat \ {0} /\ Capacity \in Nat \ {0}
  /\ Capacity <= SegmentPages * Cardinality(Segments)
  /\ Requests \subseteq Nat /\ IsFiniteSet(Requests)
  /\ \A r \in Requests : Prompt[r] \in 1 .. Len(Stream[r])
  /\ Stream \in [Requests -> Seq(Vocabulary)]
  /\ Quantum \in Nat \ {0} /\ IndexCapacity \in Nat
<1>1. IsFiniteSet(Layers) /\ IsFiniteSet(Segments)
  BY PagePoolAssumption
<1>2. Cardinality(Layers) \in Nat /\ Cardinality(Segments) \in Nat
  BY <1>1, FS_CardinalityType
<1>3. 1 \in Layers /\ Layers = 1 .. Cardinality(Layers)
  BY PagePoolAssumption
<1>4. Cardinality(Layers) # 0
  BY <1>2, <1>3
<1>. QED
  BY <1>1, <1>2, <1>3, <1>4, PagePoolAssumption, CacheRuntimeAssumption DEF Vocabulary

\* A set of numbers has a least member.
LEMMA MinIs ==
  ASSUME NEW T \in SUBSET Nat, T # {}
  PROVE  Min(T) \in T /\ \A t \in T : Min(T) <= t
<1>. DEFINE R == OpToRel(<, Nat)
<1>1. IsWellFoundedOn(R, Nat)
  BY NatLessThanWellFounded
<1>2. \A x, y \in Nat : x < y => <<x, y>> \in R
  BY DEF OpToRel
<1>. HIDE DEF R
<1>3. PICK x \in T : \A y \in T : ~(<<y, x>> \in R)
  BY <1>1, WFMin
<1>4. \A y \in T : ~(y < x)
  BY <1>2, <1>3
<1>5. \E y \in T : \A z \in T : y <= z
  BY <1>4
<1>. QED
  BY <1>5 DEF Min

\* The largest member of a set of numbers below n.
LEMMA MaxIs ==
  ASSUME NEW T \in SUBSET Nat, T # {}, NEW n \in Nat, \A t \in T : t <= n
  PROVE  Max(T) \in T /\ \A t \in T : t <= Max(T)
<1>. DEFINE U == {n - t : t \in T}
<1>1. U \in SUBSET Nat /\ U # {}
  OBVIOUS
<1>2. Min(U) \in U /\ \A u \in U : Min(U) <= u
  BY <1>1, MinIs
<1>3. PICK x \in T : Min(U) = n - x
  BY <1>2
<1>4. \A t \in T : t <= x
  <2>. TAKE t \in T
  <2>1. n - x <= n - t
    BY <1>2, <1>3
  <2>. QED
    BY <2>1
<1>. QED
  BY <1>4 DEF Max
\* The places of a selection, numbered in their order: every number up to theirs is
\* taken once.
LEMMA Numbered ==
  ASSUME NEW I, IsFiniteSet(I), I \subseteq Nat
  PROVE  LET N == Cardinality(I)
             nth == [n \in 1 .. N |-> CHOOSE i \in I : Cardinality({k \in I : k <= i}) = n] IN
         /\ N \in Nat
         /\ \A n \in 1 .. N : nth[n] \in I
         /\ \A n, m \in 1 .. N : nth[n] = nth[m] => n = m
         /\ \A i \in I : \E n \in 1 .. N : nth[n] = i
<1>. DEFINE N == Cardinality(I)
            U(i) == {k \in I : k <= i}
            rank == [i \in I |-> Cardinality(U(i))]
            nth == [n \in 1 .. N |-> CHOOSE i \in I : Cardinality(U(i)) = n]
<1>1. N \in Nat /\ IsFiniteSet(1 .. N) /\ Cardinality(1 .. N) = N
  BY FS_CardinalityType, FS_Interval
<1>2. \A i \in I : /\ U(i) \in SUBSET I /\ i \in U(i) /\ IsFiniteSet(U(i))
                   /\ Cardinality(U(i)) \in 1 .. N
  <2>. SUFFICES ASSUME NEW i \in I
                PROVE  /\ U(i) \in SUBSET I /\ i \in U(i) /\ IsFiniteSet(U(i))
                       /\ Cardinality(U(i)) \in 1 .. N
    OBVIOUS
  <2>1. U(i) \in SUBSET I /\ i \in U(i)
    OBVIOUS
  <2>2. IsFiniteSet(U(i)) /\ Cardinality(U(i)) <= N
    BY <2>1, FS_Subset
  <2>3. Cardinality(U(i)) \in Nat /\ Cardinality(U(i)) # 0
    BY <2>1, <2>2, FS_CardinalityType, FS_EmptySet
  <2>. QED
    BY <1>1, <2>1, <2>2, <2>3
<1>3. ASSUME NEW i \in I, NEW k \in I, i < k PROVE Cardinality(U(i)) # Cardinality(U(k))
  <2>0. i \in Nat /\ k \in Nat /\ \A m \in I : m \in Nat
    OBVIOUS
  <2>1. U(i) \in SUBSET U(k) /\ k \notin U(i)
    <3>1. \A m \in I : m <= i => m <= k
      BY <1>3, <2>0
    <3>2. ~(k <= i)
      BY <1>3, <2>0
    <3>. QED
      BY <3>1, <3>2
  <2>2. Cardinality(U(i)) = Cardinality(U(k)) => U(i) = U(k)
    BY <1>2, <2>1, FS_Subset
  <2>. QED
    BY <1>2, <2>1, <2>2
<1>4. \A i, k \in I : rank[i] = rank[k] => i = k
  BY <1>3
<1>5. rank \in Injection(I, 1 .. N)
  BY <1>2, <1>4 DEF Injection, IsInjective
<1>6. rank \in Surjection(I, 1 .. N)
  BY <1>1, <1>5, FS_Injection
<1>7. \A n \in 1 .. N : \E i \in I : Cardinality(U(i)) = n
  BY <1>6 DEF Surjection
<1>8. \A n \in 1 .. N : nth[n] \in I /\ rank[nth[n]] = n
  BY <1>7
<1>9. \A i \in I : rank[i] \in 1 .. N /\ nth[rank[i]] = i
  BY <1>2, <1>4, <1>8
<1>. HIDE DEF N, rank, nth
<1>10. \A n, m \in 1 .. N : nth[n] = nth[m] => n = m
  BY <1>8
<1>11. \A i \in I : \E n \in 1 .. N : nth[n] = i
  BY <1>9
<1>. QED
  BY <1>1, <1>8, <1>10, <1>11 DEF N, nth

\* A part of a list has its members, each of them once.
LEMMA PartIs ==
  ASSUME NEW S, NEW list \in Seq(S), NEW I \in SUBSET DOMAIN list
  PROVE  /\ Part(list, I) \in Seq(S)
         /\ \A n \in DOMAIN Part(list, I) : \E i \in I : Part(list, I)[n] = list[i]
         /\ \A i \in I : \E n \in DOMAIN Part(list, I) : Part(list, I)[n] = list[i]
         /\ Len(Part(list, I)) = Cardinality(I)
<1>. DEFINE N == Cardinality(I)
            nth == [n \in 1 .. N |-> CHOOSE i \in I : Cardinality({k \in I : k <= i}) = n]
            s == Part(list, I)
<1>1. DOMAIN list = 1 .. Len(list) /\ \A i \in DOMAIN list : list[i] \in S
  OBVIOUS
<1>2. IsFiniteSet(I) /\ I \subseteq Nat
  BY <1>1, FS_Interval, FS_Subset
<1>3. /\ N \in Nat /\ \A n \in 1 .. N : nth[n] \in I
      /\ \A i \in I : \E n \in 1 .. N : nth[n] = i
  BY <1>2, Numbered
<1>4. s = [n \in 1 .. N |-> list[nth[n]]]
  BY DEF Part
<1>. HIDE DEF N, nth, s
<1>5. s \in Seq(S) /\ DOMAIN s = 1 .. N /\ Len(s) = N
  BY <1>1, <1>3, <1>4
<1>6. \A n \in DOMAIN s : \E i \in I : s[n] = list[i]
  BY <1>3, <1>4, <1>5
<1>7. \A i \in I : \E n \in DOMAIN s : s[n] = list[i]
  BY <1>3, <1>4, <1>5
<1>. QED
  BY <1>5, <1>6, <1>7 DEF s, N

-----------------------------------------------------------------------------
(* Counting references.                                                    *)

Lists(L) == IsFiniteSet(DOMAIN L) /\ \A n \in DOMAIN L : L[n] \in Seq(Places)

\* The places of some lists at which a page stands.
LEMMA UsesIs ==
  ASSUME NEW L, NEW at
  PROVE  /\ \A x \in Uses(L, at) : x = <<x[1], x[2]>> /\ x[1] \in DOMAIN L /\ x[2] \in DOMAIN L[x[1]]
                                   /\ L[x[1]][x[2]] = at
         /\ \A n \in DOMAIN L : \A i \in DOMAIN L[n] : L[n][i] = at => <<n, i>> \in Uses(L, at)
<1>1. \A x \in Uses(L, at) : x = <<x[1], x[2]>> /\ x[1] \in DOMAIN L /\ x[2] \in DOMAIN L[x[1]]
                             /\ L[x[1]][x[2]] = at
  BY DEF Uses
<1>2. ASSUME NEW n \in DOMAIN L, NEW i \in DOMAIN L[n], L[n][i] = at PROVE <<n, i>> \in Uses(L, at)
  <2>1. <<n, i>> \in {n} \X DOMAIN L[n]
    OBVIOUS
  <2>2. <<n, i>> \in UNION {{m} \X DOMAIN L[m] : m \in DOMAIN L}
    BY <2>1
  <2>. QED
    BY <1>2, <2>2 DEF Uses
<1>. QED
  BY <1>1, <1>2

\* A page stands at finitely many places, and counts as zero when it stands nowhere.
LEMMA CountNat ==
  ASSUME NEW L, Lists(L), NEW at
  PROVE  /\ IsFiniteSet(Uses(L, at)) /\ Count(L, at) \in Nat
         /\ Count(L, at) = 0 <=> Uses(L, at) = {}
<1>. DEFINE F == [n \in DOMAIN L |-> {n} \X DOMAIN L[n]]
            A == {F[n] : n \in DOMAIN L}
<1>1. F \in Surjection(DOMAIN L, A)
  BY DEF Surjection
<1>2. IsFiniteSet(A)
  BY <1>1, FS_Surjection DEF Lists
<1>3. \A n \in DOMAIN L : IsFiniteSet(F[n])
  <2>. TAKE n \in DOMAIN L
  <2>1. Len(L[n]) \in Nat /\ DOMAIN L[n] = 1 .. Len(L[n])
    BY DEF Lists
  <2>2. IsFiniteSet(1 .. Len(L[n]))
    BY <2>1, FS_Interval
  <2>3. IsFiniteSet({n})
    BY FS_Singleton
  <2>. QED
    BY <2>1, <2>2, <2>3, FS_Product
<1>4. IsFiniteSet(UNION A)
  BY <1>2, <1>3, FS_UNION
<1>5. Uses(L, at) \in SUBSET UNION A
  BY DEF Uses
<1>6. IsFiniteSet(Uses(L, at))
  BY <1>4, <1>5, FS_Subset
<1>. QED
  BY <1>6, FS_CardinalityType, FS_EmptySet DEF Count

\* The same lists under other names.
Renamed(A, B, f) == f \in Bijection(DOMAIN A, DOMAIN B) /\ \A n \in DOMAIN A : B[f[n]] = A[n]
LEMMA CountRenamed ==
  ASSUME NEW A, NEW B, Lists(A), NEW f, Renamed(A, B, f), NEW at
  PROVE  Count(B, at) = Count(A, at)
<1>. DEFINE g == [x \in Uses(A, at) |-> <<f[x[1]], x[2]>>]
<1>. USE DEF Renamed
<1>1. /\ \A n \in DOMAIN A : f[n] \in DOMAIN B
      /\ \A n, m \in DOMAIN A : f[n] = f[m] => n = m
      /\ \A k \in DOMAIN B : \E n \in DOMAIN A : f[n] = k
  BY Fun_BijectionProperties DEF Bijection, Injection, Surjection, IsInjective
<1>2. \A x \in Uses(A, at) : g[x] \in Uses(B, at)
  <2>. TAKE x \in Uses(A, at)
  <2>1. x[1] \in DOMAIN A /\ x[2] \in DOMAIN A[x[1]] /\ A[x[1]][x[2]] = at
    BY UsesIs
  <2>2. f[x[1]] \in DOMAIN B /\ B[f[x[1]]] = A[x[1]]
    BY <1>1, <2>1
  <2>. QED
    BY <2>1, <2>2, UsesIs
<1>3. ASSUME NEW x \in Uses(A, at), NEW y \in Uses(A, at), g[x] = g[y] PROVE x = y
  <2>1. x = <<x[1], x[2]>> /\ y = <<y[1], y[2]>> /\ x[1] \in DOMAIN A /\ y[1] \in DOMAIN A
    BY UsesIs
  <2>2. f[x[1]] = f[y[1]] /\ x[2] = y[2]
    BY <1>3
  <2>. QED
    BY <1>1, <2>1, <2>2
<1>4. ASSUME NEW z \in Uses(B, at) PROVE \E x \in Uses(A, at) : g[x] = z
  <2>1. z = <<z[1], z[2]>> /\ z[1] \in DOMAIN B /\ z[2] \in DOMAIN B[z[1]] /\ B[z[1]][z[2]] = at
    BY UsesIs
  <2>2. PICK n \in DOMAIN A : f[n] = z[1]
    BY <1>1, <2>1
  <2>3. <<n, z[2]>> \in Uses(A, at)
    BY <2>1, <2>2, UsesIs
  <2>4. g[<<n, z[2]>>] = <<f[n], z[2]>>
    BY <2>3
  <2>. QED
    BY <2>1, <2>2, <2>3, <2>4
<1>5. g \in Bijection(Uses(A, at), Uses(B, at))
  BY <1>2, <1>3, <1>4 DEF Bijection, Injection, Surjection, IsInjective
<1>6. ExistsBijection(Uses(A, at), Uses(B, at))
  BY <1>5 DEF ExistsBijection
<1>. QED
  BY <1>6, CountNat, FS_Bijection DEF Count

\* Two collections of lists under different names.
Joined(A, B, L) ==
    /\ DOMAIN L = DOMAIN A \cup DOMAIN B /\ DOMAIN A \cap DOMAIN B = {}
    /\ \A n \in DOMAIN A : L[n] = A[n]
    /\ \A n \in DOMAIN B : L[n] = B[n]
LEMMA CountJoined ==
  ASSUME NEW A, NEW B, NEW L, Lists(A), Lists(B), Joined(A, B, L), NEW at
  PROVE  /\ Count(L, at) = Count(A, at) + Count(B, at)
         /\ Uses(L, at) = Uses(A, at) \cup Uses(B, at)
         /\ Lists(L)
<1>. USE DEF Joined
<1>1. Uses(L, at) = Uses(A, at) \cup Uses(B, at)
  <2>1. ASSUME NEW x \in Uses(L, at) PROVE x \in Uses(A, at) \cup Uses(B, at)
    <3>1. x = <<x[1], x[2]>> /\ x[1] \in DOMAIN L /\ x[2] \in DOMAIN L[x[1]] /\ L[x[1]][x[2]] = at
      BY UsesIs
    <3>2. CASE x[1] \in DOMAIN A
      <4>1. <<x[1], x[2]>> \in Uses(A, at)
        BY <3>1, <3>2, UsesIs
      <4>. QED
        BY <3>1, <4>1
    <3>3. CASE x[1] \in DOMAIN B
      <4>1. <<x[1], x[2]>> \in Uses(B, at)
        BY <3>1, <3>3, UsesIs
      <4>. QED
        BY <3>1, <4>1
    <3>. QED
      BY <3>1, <3>2, <3>3
  <2>2. ASSUME NEW x \in Uses(A, at) \cup Uses(B, at) PROVE x \in Uses(L, at)
    <3>1. x = <<x[1], x[2]>> /\ x[1] \in DOMAIN L /\ x[2] \in DOMAIN L[x[1]] /\ L[x[1]][x[2]] = at
      BY UsesIs
    <3>2. <<x[1], x[2]>> \in Uses(L, at)
      BY <3>1, UsesIs
    <3>. QED
      BY <3>1, <3>2
  <2>. QED
    BY <2>1, <2>2
<1>2. Uses(A, at) \cap Uses(B, at) = {}
  BY UsesIs
<1>3. IsFiniteSet(Uses(A, at)) /\ IsFiniteSet(Uses(B, at)) /\ Count(A, at) \in Nat /\ Count(B, at) \in Nat
  BY CountNat
<1>4. Cardinality(Uses(L, at)) = Cardinality(Uses(A, at)) + Cardinality(Uses(B, at)) - Cardinality({})
  BY <1>1, <1>2, <1>3, FS_Union
<1>5. Count(L, at) = Count(A, at) + Count(B, at)
  BY <1>3, <1>4, FS_EmptySet DEF Count
<1>6. Lists(L)
  BY FS_Union DEF Lists
<1>. QED
  BY <1>1, <1>5, <1>6
-----------------------------------------------------------------------------
(* What belongs together, when pages and counts change.                    *)

\* Page at is the same in p and q, up to its counts.
Same(p, q, at) ==
    /\ at \in Live(q)
    /\ q.page[at].data = p.page[at].data /\ q.page[at].sealed = p.page[at].sealed
    /\ q.page[at].layer = p.page[at].layer

\* A cache stays right while its pages keep what they hold.
LEMMA CacheKept ==
  ASSUME NEW p, NEW q, NEW c, NEW r, NEW l, CacheOK(p, c, r, l),
         \A i \in 1 .. Len(c.pages) : Same(p, q, c.pages[i])
  PROVE  CacheOK(q, c, r, l)
<1>1. c \in Cache /\ Len(c.pages) \in Nat
  BY DEF CacheOK, Cache
<1>2. c.pages # <<>> => Len(c.pages) \in 1 .. Len(c.pages)
  BY <1>1 DEF Cache
<1>3. ASSUME NEW i \in 1 .. Len(c.pages)
      PROVE  /\ c.pages[i] \in Live(q) /\ q.page[c.pages[i]].layer = l
             /\ c.table[i] = Row(q, c.pages[i])
             /\ i < Len(c.pages) => q.page[c.pages[i]].sealed
             /\ Holds(q, c.pages[i], Stream[r], i)
  <2>1. /\ c.pages[i] \in Live(p) /\ p.page[c.pages[i]].layer = l
        /\ c.table[i] = Row(p, c.pages[i])
        /\ i < Len(c.pages) => p.page[c.pages[i]].sealed
        /\ Holds(p, c.pages[i], Stream[r], i)
    BY DEF CacheOK
  <2>2. Same(p, q, c.pages[i])
    OBVIOUS
  <2>3. Row(q, c.pages[i]) = Row(p, c.pages[i])
    BY <2>2 DEF Same, Row
  <2>4. Holds(q, c.pages[i], Stream[r], i)
    BY <2>1, <2>2 DEF Same, Holds
  <2>. QED
    BY <2>1, <2>2, <2>3, <2>4 DEF Same
<1>4. c.pages # <<>> => q.page[c.pages[Len(c.pages)]].data = p.page[c.pages[Len(c.pages)]].data
  BY <1>2 DEF Same
<1>. QED
  BY <1>3, <1>4 DEF CacheOK

\* The pages of the index are the pages of its nodes.
LEMMA StoredIs ==
  ASSUME NEW ix \in Seq(Nodes)
  PROVE  /\ \A i \in DOMAIN ix, l \in Layers : ix[i].pages[l] \in Stored(ix)
         /\ \A at \in Stored(ix) : \E i \in DOMAIN ix, l \in Layers : at = ix[i].pages[l]
<1>1. \A i \in DOMAIN ix : ix[i] \in Nodes
  OBVIOUS
<1>2. \A i \in DOMAIN ix : DOMAIN ix[i].pages = Layers
  BY <1>1 DEF Nodes
<1>3. ASSUME NEW i \in DOMAIN ix, NEW l \in Layers PROVE ix[i].pages[l] \in Stored(ix)
  <2>1. ix[i].pages[l] \in Range(ix[i].pages)
    BY <1>2 DEF Range
  <2>. QED
    BY <2>1 DEF Stored
<1>4. ASSUME NEW at \in Stored(ix) PROVE \E i \in DOMAIN ix, l \in Layers : at = ix[i].pages[l]
  <2>1. PICK i \in DOMAIN ix : at \in Range(ix[i].pages)
    BY DEF Stored
  <2>. QED
    BY <1>2, <2>1 DEF Range
<1>. QED
  BY <1>3, <1>4

\* The index stays right while its pages keep what they hold.
LEMMA IndexKept ==
  ASSUME NEW p, NEW q, NEW ix, IndexOK(p, ix), \A at \in Stored(ix) : Same(p, q, at)
  PROVE  IndexOK(q, ix)
<1>1. ix \in Seq(Nodes)
  BY DEF IndexOK
<1>2. ASSUME NEW i \in DOMAIN ix PROVE NodeOK(q, ix[i])
  <2>1. NodeOK(p, ix[i])
    BY DEF IndexOK
  <2>2. \A l \in Layers : Same(p, q, ix[i].pages[l])
    BY <1>1, StoredIs
  <2>3. ASSUME NEW l \in Layers
        PROVE  LET b == q.page[ix[i].pages[l]]
                   path == ix[i].path
               IN  /\ ix[i].pages[l] \in Live(q) /\ b.sealed /\ b.layer = l
                   /\ b.data = SubSeq(path, Len(path) - PageTokens + 1, Len(path))
    BY <2>1, <2>2 DEF NodeOK, Same
  <2>. QED
    BY <2>1, <2>3 DEF NodeOK
<1>. QED
  BY <1>1, <1>2 DEF IndexOK

\* The pages of the caches are live and counted.
LEMMA HeldIs ==
  ASSUME NEW p, NEW C, Named(C), CachesOK(p, C)
  PROVE  /\ Lists(PagesIn(C))
         /\ \A x \in DOMAIN C : \A i \in 1 .. Len(C[x].pages) :
                Refs(C, C[x].pages[i]) > 0 /\ C[x].pages[i] \in Live(p)
         /\ \A at : Refs(C, at) \in Nat
         /\ \A at : \A u \in Uses(PagesIn(C), at) :
                u = <<u[1], u[2]>> /\ u[1] \in DOMAIN C /\ u[2] \in 1 .. Len(C[u[1]].pages)
                    /\ C[u[1]].pages[u[2]] = at
         /\ \A x \in DOMAIN C : C[x].pages \in Seq(Places)
<1>1. \A x \in DOMAIN C : C[x].pages \in Seq(Places) /\ DOMAIN C[x].pages = 1 .. Len(C[x].pages)
  BY DEF CachesOK, CacheOK, Cache
<1>2. DOMAIN PagesIn(C) = DOMAIN C /\ \A x \in DOMAIN C : PagesIn(C)[x] = C[x].pages
  BY DEF PagesIn
<1>3. Lists(PagesIn(C))
  BY <1>1, <1>2 DEF Lists, Named
<1>4. ASSUME NEW x \in DOMAIN C, NEW i \in 1 .. Len(C[x].pages)
      PROVE  Refs(C, C[x].pages[i]) > 0 /\ C[x].pages[i] \in Live(p)
  <2>1. <<x, i>> \in Uses(PagesIn(C), C[x].pages[i])
    BY <1>1, <1>2, UsesIs
  <2>2. Count(PagesIn(C), C[x].pages[i]) \in Nat \ {0}
    BY <1>3, <2>1, CountNat
  <2>. QED
    BY <2>2 DEF Refs, CachesOK, CacheOK
<1>5. \A at : Refs(C, at) \in Nat
  BY <1>3, CountNat DEF Refs
<1>6. ASSUME NEW at, NEW u \in Uses(PagesIn(C), at)
      PROVE  u = <<u[1], u[2]>> /\ u[1] \in DOMAIN C /\ u[2] \in 1 .. Len(C[u[1]].pages)
                 /\ C[u[1]].pages[u[2]] = at
  <2>1. u = <<u[1], u[2]>> /\ u[1] \in DOMAIN PagesIn(C) /\ u[2] \in DOMAIN PagesIn(C)[u[1]]
        /\ PagesIn(C)[u[1]][u[2]] = at
    BY UsesIs
  <2>. QED
    BY <1>1, <1>2, <2>1
<1>. QED
  BY <1>1, <1>3, <1>4, <1>5, <1>6

Blocks == [layer : Layers, data : Seq(Vocabulary), refs : Nat, pins : Nat, sealed : BOOLEAN]
Recount(b, d, n, m) ==
    /\ d \in Blocks /\ d.refs = n /\ d.pins = m
    /\ d.data = b.data /\ d.sealed = b.sealed /\ d.layer = b.layer

\* Sums that are not zero.
LEMMA Positives ==
  ASSUME NEW n \in Nat, NEW m \in Nat
  PROVE  (n > 0 => n + m > 0) /\ (m = 1 => n + m > 0)
OBVIOUS

\* A pool q with the counts that an index and some caches call for.
LEMMA Recounted ==
  ASSUME NEW p, NEW q, NEW ix, NEW C,
         PoolOK(p), Named(C), CachesOK(p, C), IndexOK(p, ix), Alone(p, ix, C), q.seg = p.seg,
         Live(q) = {at \in Live(p) : Refs(C, at) + Pins(ix, at) > 0},
         \A at \in Live(q) : Recount(p.page[at], q.page[at], Refs(C, at), Pins(ix, at))
  PROVE  Sound(q, ix, C)
<1>1. \A at : Refs(C, at) \in Nat /\ Pins(ix, at) \in Nat
  BY HeldIs DEF Pins
<1>2. ASSUME NEW at \in Live(q)
      PROVE  BlockOK(q, at) /\ Same(p, q, at) /\ at \in Places
             /\ q.page[at].refs = Refs(C, at) /\ q.page[at].pins = Pins(ix, at)
  <2>1. at \in Live(p) /\ at \in Places /\ BlockOK(p, at)
    BY DEF PoolOK
  <2>4. Recount(p.page[at], q.page[at], Refs(C, at), Pins(ix, at))
    OBVIOUS
  <2>5. BlockOK(q, at)
    BY <2>1, <2>4 DEF BlockOK, Recount, Blocks
  <2>. QED
    BY <2>1, <2>4, <2>5 DEF Same, Recount
<1>3. PoolOK(q)
  BY <1>2 DEF PoolOK
<1>4. CachesOK(q, C)
  <2>. SUFFICES ASSUME NEW x \in DOMAIN C PROVE CacheOK(q, C[x], x[2], x[3])
    BY DEF CachesOK
  <2>1. CacheOK(p, C[x], x[2], x[3])
    BY DEF CachesOK
  <2>2. ASSUME NEW i \in 1 .. Len(C[x].pages) PROVE Same(p, q, C[x].pages[i])
    <3>1. Refs(C, C[x].pages[i]) > 0 /\ C[x].pages[i] \in Live(p)
      BY HeldIs
    <3>2. C[x].pages[i] \in Live(q)
      <4>1. Refs(C, C[x].pages[i]) \in Nat /\ Pins(ix, C[x].pages[i]) \in Nat
        BY <1>1
      <4>2. Refs(C, C[x].pages[i]) + Pins(ix, C[x].pages[i]) > 0
        BY <3>1, <4>1, Positives
      <4>. QED
        BY <3>1, <4>2
    <3>. QED
      BY <1>2, <3>2
  <2>. QED
    BY <2>1, <2>2, CacheKept
<1>5. IndexOK(q, ix)
  <2>1. ASSUME NEW at \in Stored(ix) PROVE Same(p, q, at)
    <3>1. at \in Live(p) /\ Pins(ix, at) = 1
      <4>1. ix \in Seq(Nodes) /\ \A i \in DOMAIN ix : NodeOK(p, ix[i])
        BY DEF IndexOK
      <4>2. PICK i \in DOMAIN ix, l \in Layers : at = ix[i].pages[l]
        BY <4>1, StoredIs
      <4>. QED
        BY <4>1, <4>2 DEF NodeOK, Pins
    <3>2. at \in Live(q)
      <4>1. Refs(C, at) \in Nat /\ Pins(ix, at) \in Nat
        BY <1>1
      <4>2. Refs(C, at) + Pins(ix, at) > 0
        BY <3>1, <4>1, Positives
      <4>. QED
        BY <3>1, <4>2
    <3>. QED
      BY <1>2, <3>2
  <2>. QED
    BY <2>1, IndexKept
<1>6. Counted(q, ix, C)
  BY <1>1, <1>2 DEF Counted
<1>7. Alone(q, ix, C)
  BY <1>2 DEF Alone, Same
<1>. QED
  BY <1>3, <1>4, <1>5, <1>6, <1>7 DEF Sound

\* References go: D are the caches whose lists are released.
Without(C, D) == [x \in DOMAIN C \ D |-> C[x]]
Taken(C, D, L, f) ==
    /\ D \subseteq DOMAIN C /\ f \in Bijection(D, DOMAIN L)
    /\ \A x \in D : L[f[x]] = C[x].pages
LEMMA GoneSound ==
  ASSUME NEW p, NEW ix, NEW C, Sound(p, ix, C), NEW L, NEW D, NEW f, Taken(C, D, L, f)
  PROVE  Sound(Released(p, L), ix, Without(C, D))
<1>. DEFINE R == [x \in DOMAIN C \ D |-> C[x]]
            Gone == [x \in D |-> C[x].pages]
            q == Released(p, L)
<1>0. D \subseteq DOMAIN C /\ f \in Bijection(D, DOMAIN L) /\ \A x \in D : L[f[x]] = C[x].pages
  BY DEF Taken
<1>1. /\ Named(C) /\ PoolOK(p) /\ CachesOK(p, C) /\ IndexOK(p, ix) /\ Counted(p, ix, C)
      /\ Alone(p, ix, C)
  BY DEF Sound
<1>2. Named(R) /\ CachesOK(p, R)
  <2>1. IsFiniteSet(DOMAIN R)
    BY <1>0, <1>1, FS_Difference DEF Named
  <2>. QED
    BY <1>0, <1>1, <2>1 DEF Named, CachesOK
<1>3. Joined(PagesIn(R), Gone, PagesIn(C)) /\ Renamed(Gone, L, f)
  BY <1>0 DEF PagesIn, Joined, Renamed
<1>4. Lists(Gone)
  <2>1. IsFiniteSet(D)
    BY <1>0, <1>1, FS_Subset DEF Named
  <2>. QED
    BY <1>0, <1>1, <2>1, HeldIs DEF Lists
<1>. HIDE DEF R, Gone, q
<1>5. Lists(PagesIn(C)) /\ Lists(PagesIn(R)) /\ \A at : Refs(R, at) \in Nat
  BY <1>1, <1>2, HeldIs
<1>6. ASSUME NEW at
      PROVE  /\ Refs(C, at) = Refs(R, at) + Count(L, at) /\ Count(L, at) \in Nat
             /\ Uses(PagesIn(R), at) \subseteq Uses(PagesIn(C), at)
  <2>1. /\ Count(PagesIn(C), at) = Count(PagesIn(R), at) + Count(Gone, at)
        /\ Uses(PagesIn(C), at) = Uses(PagesIn(R), at) \cup Uses(Gone, at)
    BY <1>3, <1>4, <1>5, CountJoined
  <2>2. Count(L, at) = Count(Gone, at)
    BY <1>3, <1>4, CountRenamed
  <2>. QED
    BY <1>4, <2>1, <2>2, CountNat DEF Refs
<1>7. Alone(p, ix, R)
  BY <1>1, <1>6 DEF Alone
<1>8. ASSUME NEW at \in Live(p)
      PROVE  LET d == [p.page[at] EXCEPT !.refs = @ - Count(L, at)]
             IN  /\ Recount(p.page[at], d, Refs(R, at), Pins(ix, at))
                 /\ Orphaned(d) <=> ~(Refs(R, at) + Pins(ix, at) > 0)
  <2>. DEFINE b == p.page[at]
              d == [b EXCEPT !.refs = @ - Count(L, at)]
              n == Refs(R, at)
              m == Pins(ix, at)
  <2>1. b \in Blocks /\ b.refs = Refs(C, at) /\ b.pins = m
    BY <1>1 DEF PoolOK, BlockOK, Counted, Blocks
  <2>2. b.refs - Count(L, at) = n /\ n \in Nat /\ m \in {0, 1}
    BY <1>5, <1>6, <2>1 DEF Pins
  <2>. HIDE DEF b, n, m
  <2>3. Recount(b, d, n, m)
    BY <2>1, <2>2 DEF Recount, Blocks
  <2>. HIDE DEF d
  <2>4. Orphaned(d) <=> ~(n + m > 0)
    BY <2>2, <2>3 DEF Orphaned, Recount
  <2>. QED
    BY <2>3, <2>4 DEF b, d, n, m
<1>9. /\ Live(q) = {at \in Live(p) : Refs(R, at) + Pins(ix, at) > 0} /\ q.seg = p.seg
      /\ \A at \in Live(q) : Recount(p.page[at], q.page[at], Refs(R, at), Pins(ix, at))
  <2>. DEFINE w == [at \in Live(p) |-> [p.page[at] EXCEPT !.refs = @ - Count(L, at)]]
  <2>1. q.page = [at \in {a \in Live(p) : ~Orphaned(w[a])} |-> w[at]] /\ q.seg = p.seg
    BY DEF q, Released, Reclaimed, WithPages, Live
  <2>2. \A at \in Live(p) : /\ Recount(p.page[at], w[at], Refs(R, at), Pins(ix, at))
                            /\ Orphaned(w[at]) <=> ~(Refs(R, at) + Pins(ix, at) > 0)
    BY <1>8
  <2>. HIDE DEF w
  <2>. QED
    BY <2>1, <2>2 DEF Live
<1>10. Sound(q, ix, R)
  BY <1>1, <1>2, <1>7, <1>9, Recounted
<1>. QED
  BY <1>10 DEF R, q, Without

\* References come: the new caches hold sealed pages of the pool.
LEMMA AddedSound ==
  ASSUME NEW p, NEW ix, NEW C, Sound(p, ix, C), NEW E, Named(E), DOMAIN C \subseteq DOMAIN E,
         \A x \in DOMAIN C : E[x] = C[x],
         \A x \in DOMAIN E \ DOMAIN C :
             /\ CacheOK(p, E[x], x[2], x[3])
             /\ \A i \in 1 .. Len(E[x].pages) : p.page[E[x].pages[i]].sealed,
         NEW L, NEW f \in Bijection(DOMAIN E \ DOMAIN C, DOMAIN L),
         \A x \in DOMAIN E \ DOMAIN C : L[f[x]] = E[x].pages
  PROVE  Sound(Acquired(p, L), ix, E)
<1>. DEFINE D == DOMAIN E \ DOMAIN C
            New == [x \in D |-> E[x].pages]
            q == Acquired(p, L)
<1>1. /\ Named(C) /\ PoolOK(p) /\ CachesOK(p, C) /\ IndexOK(p, ix) /\ Counted(p, ix, C)
      /\ Alone(p, ix, C)
  BY DEF Sound
<1>2. CachesOK(p, E)
  BY <1>1 DEF CachesOK
<1>3. Joined(PagesIn(C), New, PagesIn(E)) /\ Renamed(New, L, f)
  BY DEF PagesIn, Joined, Renamed
<1>4. Lists(New)
  <2>1. IsFiniteSet(D)
    BY FS_Difference DEF Named
  <2>. QED
    BY <1>2, <2>1, HeldIs DEF Lists
<1>5. ASSUME NEW at \in Live(p), ~p.page[at].sealed, NEW u \in Uses(New, at) PROVE FALSE
  <2>1. u[1] \in D /\ u[2] \in DOMAIN E[u[1]].pages /\ E[u[1]].pages[u[2]] = at
    BY UsesIs
  <2>2. E[u[1]].pages \in Seq(Places)
    BY <1>2, <2>1, HeldIs
  <2>. QED
    BY <1>5, <2>1, <2>2
<1>. HIDE DEF D, New, q
<1>6. Lists(PagesIn(C)) /\ \A at : Refs(C, at) \in Nat
  BY <1>1, HeldIs
<1>7. Lists(PagesIn(E)) /\ \A at : Refs(E, at) \in Nat
  BY <1>2, HeldIs
<1>8. ASSUME NEW at
      PROVE  /\ Refs(E, at) = Refs(C, at) + Count(L, at) /\ Count(L, at) \in Nat
             /\ Uses(PagesIn(E), at) = Uses(PagesIn(C), at) \cup Uses(New, at)
  <2>1. /\ Count(PagesIn(E), at) = Count(PagesIn(C), at) + Count(New, at)
        /\ Uses(PagesIn(E), at) = Uses(PagesIn(C), at) \cup Uses(New, at)
    BY <1>3, <1>4, <1>6, CountJoined
  <2>2. Count(L, at) = Count(New, at)
    BY <1>3, <1>4, CountRenamed
  <2>. QED
    BY <1>4, <2>1, <2>2, CountNat DEF Refs
<1>9. Alone(p, ix, E)
  BY <1>1, <1>5, <1>8 DEF Alone
<1>10. ASSUME NEW at \in Live(p)
      PROVE  LET d == [p.page[at] EXCEPT !.refs = @ + Count(L, at)]
             IN  /\ Recount(p.page[at], d, Refs(E, at), Pins(ix, at))
                 /\ Refs(E, at) + Pins(ix, at) > 0
  <2>. DEFINE b == p.page[at]
              d == [b EXCEPT !.refs = @ + Count(L, at)]
              n == Refs(E, at)
              m == Pins(ix, at)
  <2>1. b \in Blocks /\ b.refs = Refs(C, at) /\ b.pins = m /\ Refs(C, at) + m > 0
    BY <1>1 DEF PoolOK, BlockOK, Counted, Blocks
  <2>2. b.refs + Count(L, at) = n /\ n \in Nat /\ n >= Refs(C, at) /\ m \in {0, 1}
    BY <1>6, <1>7, <1>8, <2>1 DEF Pins
  <2>3. n + m > 0
    BY <1>6, <2>1, <2>2
  <2>. HIDE DEF b, n, m
  <2>4. Recount(b, d, n, m)
    BY <2>1, <2>2 DEF Recount, Blocks
  <2>. QED
    BY <2>3, <2>4 DEF b, d, n, m
<1>11. /\ Live(q) = {at \in Live(p) : Refs(E, at) + Pins(ix, at) > 0} /\ q.seg = p.seg
      /\ \A at \in Live(q) : Recount(p.page[at], q.page[at], Refs(E, at), Pins(ix, at))
  <2>. DEFINE w == [at \in Live(p) |-> [p.page[at] EXCEPT !.refs = @ + Count(L, at)]]
  <2>1. q.page = w /\ q.seg = p.seg
    BY DEF q, Acquired, WithPages
  <2>2. \A at \in Live(p) : /\ Recount(p.page[at], w[at], Refs(E, at), Pins(ix, at))
                            /\ Refs(E, at) + Pins(ix, at) > 0
    BY <1>10
  <2>3. DOMAIN w = Live(p)
    OBVIOUS
  <2>. HIDE DEF w
  <2>. QED
    BY <2>1, <2>2, <2>3 DEF Live
<1>. QED
  BY <1>1, <1>2, <1>9, <1>11, Recounted DEF q

-----------------------------------------------------------------------------
(* The index, and the pins of its pages.                                   *)

\* The pages of the index are live and sealed.
LEMMA IndexTouches ==
  ASSUME NEW p, NEW ix, IndexOK(p, ix)
  PROVE  Stored(ix) \subseteq Live(p) /\ \A at \in Stored(ix) : p.page[at].sealed
<1>1. ix \in Seq(Nodes) /\ \A i \in DOMAIN ix : NodeOK(p, ix[i])
  BY DEF IndexOK
<1>. QED
  BY <1>1, StoredIs DEF NodeOK

\* Another index whose nodes are right, with the pins that go with it.
LEMMA ReindexedSound ==
  ASSUME NEW p, NEW q, NEW ix, NEW jx, NEW C, Sound(p, ix, C), IndexOK(p, jx), q.seg = p.seg,
         Live(q) = {at \in Live(p) : Refs(C, at) + Pins(jx, at) > 0},
         \A at \in Live(q) : Recount(p.page[at], q.page[at], Refs(C, at), Pins(jx, at))
  PROVE  Sound(q, jx, C)
<1>1. Alone(p, jx, C)
  BY IndexTouches DEF Alone, Sound
<1>. QED
  BY <1>1, Recounted DEF Sound

\* The index gets more nodes: their pages are pinned.
LEMMA PinnedSound ==
  ASSUME NEW p, NEW ix, NEW jx, NEW C, Sound(p, ix, C), IndexOK(p, jx), Stored(ix) \subseteq Stored(jx)
  PROVE  Sound(Pinned(p, Stored(jx) \ Stored(ix)), jx, C)
<1>. DEFINE new == Stored(jx) \ Stored(ix)
            q == Pinned(p, new)
            edit(b, at) == [b EXCEPT !.pins = IF at \in new THEN @ + 1 ELSE @]
            w == [at \in Live(p) |-> edit(p.page[at], at)]
<1>1. Named(C) /\ PoolOK(p) /\ CachesOK(p, C) /\ Counted(p, ix, C)
  BY DEF Sound
<1>2. \A at : Refs(C, at) \in Nat
  BY <1>1, HeldIs
<1>3. ASSUME NEW at \in Live(p)
      PROVE  /\ Recount(p.page[at], edit(p.page[at], at), Refs(C, at), Pins(jx, at))
             /\ Refs(C, at) + Pins(jx, at) > 0
  <2>. DEFINE b == p.page[at]
              n == Refs(C, at)
  <2>1. b \in Blocks /\ b.refs = n /\ b.pins = Pins(ix, at) /\ n + Pins(ix, at) > 0 /\ n \in Nat
    BY <1>1, <1>2 DEF PoolOK, BlockOK, Counted, Blocks
  <2>. HIDE DEF b, n
  <2>2. Recount(b, edit(b, at), n, Pins(jx, at)) /\ n + Pins(jx, at) > 0
    BY <2>1 DEF Recount, Blocks, Pins
  <2>. QED
    BY <2>2 DEF b, n
<1>4. q.page = w /\ q.seg = p.seg
  BY DEF Pinned, WithPages
<1>5. \A at \in Live(p) : /\ Recount(p.page[at], w[at], Refs(C, at), Pins(jx, at))
                          /\ Refs(C, at) + Pins(jx, at) > 0
  BY <1>3
<1>6. DOMAIN w = Live(p)
  OBVIOUS
<1>. HIDE DEF q, w
<1>7. /\ Live(q) = {at \in Live(p) : Refs(C, at) + Pins(jx, at) > 0}
      /\ \A at \in Live(q) : Recount(p.page[at], q.page[at], Refs(C, at), Pins(jx, at))
  BY <1>4, <1>5, <1>6 DEF Live
<1>8. Sound(q, jx, C)
  BY <1>4, <1>7, ReindexedSound
<1>. QED
  BY <1>8 DEF q

\* The index loses nodes: their pages are unpinned, and go if nobody else has them.
LEMMA UnpinnedSound ==
  ASSUME NEW p, NEW ix, NEW jx, NEW C, Sound(p, ix, C), IndexOK(p, jx), Stored(jx) \subseteq Stored(ix)
  PROVE  Sound(Unpinned(p, Stored(ix) \ Stored(jx)), jx, C)
<1>. DEFINE old == Stored(ix) \ Stored(jx)
            q == Unpinned(p, old)
            edit(b, at) == [b EXCEPT !.pins = IF at \in old THEN @ - 1 ELSE @]
            w == [at \in Live(p) |-> edit(p.page[at], at)]
<1>1. Named(C) /\ PoolOK(p) /\ CachesOK(p, C) /\ Counted(p, ix, C)
  BY DEF Sound
<1>2. \A at : Refs(C, at) \in Nat
  BY <1>1, HeldIs
<1>3. ASSUME NEW at \in Live(p)
      PROVE  /\ Recount(p.page[at], edit(p.page[at], at), Refs(C, at), Pins(jx, at))
             /\ Orphaned(edit(p.page[at], at)) <=> ~(Refs(C, at) + Pins(jx, at) > 0)
  <2>. DEFINE b == p.page[at]
              n == Refs(C, at)
              d == edit(b, at)
  <2>1. b \in Blocks /\ b.refs = n /\ b.pins = Pins(ix, at) /\ n \in Nat
    BY <1>1, <1>2 DEF PoolOK, BlockOK, Counted, Blocks
  <2>. HIDE DEF b, n
  <2>2. Recount(b, d, n, Pins(jx, at)) /\ Pins(jx, at) \in {0, 1}
    BY <2>1 DEF Recount, Blocks, Pins
  <2>. HIDE DEF d
  <2>3. Orphaned(d) <=> ~(n + Pins(jx, at) > 0)
    BY <2>1, <2>2 DEF Recount, Orphaned
  <2>. QED
    BY <2>2, <2>3 DEF b, n, d
<1>4. q.page = [at \in {a \in Live(p) : ~Orphaned(w[a])} |-> w[at]] /\ q.seg = p.seg
  BY DEF Unpinned, Reclaimed, WithPages, Live
<1>5. \A at \in Live(p) : /\ Recount(p.page[at], w[at], Refs(C, at), Pins(jx, at))
                          /\ Orphaned(w[at]) <=> ~(Refs(C, at) + Pins(jx, at) > 0)
  BY <1>3
<1>. HIDE DEF q, w
<1>6. /\ Live(q) = {at \in Live(p) : Refs(C, at) + Pins(jx, at) > 0}
      /\ \A at \in Live(q) : Recount(p.page[at], q.page[at], Refs(C, at), Pins(jx, at))
  BY <1>4, <1>5 DEF Live
<1>7. Sound(q, jx, C)
  BY <1>4, <1>6, ReindexedSound
<1>. QED
  BY <1>7 DEF q

\* The same pages under an index in another order.
LEMMA ReorderedSound ==
  ASSUME NEW p, NEW ix, NEW jx, NEW C, Sound(p, ix, C), IndexOK(p, jx), Stored(jx) = Stored(ix)
  PROVE  Sound(p, jx, C)
BY IndexTouches DEF Sound, Counted, Pins, Alone

\* Segments change, the pages do not.
LEMMA ResegmentedSound ==
  ASSUME NEW p, NEW q, NEW ix, NEW C, Sound(p, ix, C), q.page = p.page, PoolOK(q)
  PROVE  Sound(q, ix, C)
<1>1. Named(C) /\ PoolOK(p) /\ CachesOK(p, C) /\ IndexOK(p, ix) /\ Counted(p, ix, C) /\ Alone(p, ix, C)
  BY DEF Sound
<1>2. \A at \in Live(p) : Same(p, q, at)
  BY DEF Same, Live
<1>3. CachesOK(q, C)
  <2>. SUFFICES ASSUME NEW x \in DOMAIN C PROVE CacheOK(q, C[x], x[2], x[3])
    BY DEF CachesOK
  <2>1. CacheOK(p, C[x], x[2], x[3])
    BY <1>1 DEF CachesOK
  <2>2. \A i \in 1 .. Len(C[x].pages) : Same(p, q, C[x].pages[i])
    BY <1>2, <2>1 DEF CacheOK
  <2>. QED
    BY <2>1, <2>2, CacheKept
<1>4. IndexOK(q, ix)
  BY <1>1, <1>2, IndexKept, IndexTouches
<1>5. Counted(q, ix, C) /\ Alone(q, ix, C)
  BY <1>1 DEF Counted, Alone, Live
<1>. QED
  BY <1>1, <1>3, <1>4, <1>5 DEF Sound

\* discard_free leaves the pages alone and needs no more room.
LEMMA DiscardSound ==
  ASSUME NEW p, NEW ix, NEW C, Sound(p, ix, C)
  PROVE  /\ Sound(DiscardFree(p), ix, C) /\ Live(DiscardFree(p)) = Live(p)
         /\ Physical(DiscardFree(p)) <= Physical(p)
<1>. DEFINE q == DiscardFree(p)
<1>1. PoolOK(p)
  BY DEF Sound
<1>2. q.page = p.page /\ Live(q) = Live(p)
  BY DEF DiscardFree, Live
<1>3. q.seg = [s \in Segments |-> IF Cardinality(Vacant(p, s)) = SegmentPages THEN None ELSE p.seg[s]]
  BY DEF DiscardFree
<1>. HIDE DEF q
<1>4. ASSUME NEW at \in Live(p) PROVE q.seg[at[1]] = p.seg[at[1]]
  <2>1. at = <<at[1], at[2]>> /\ at[1] \in Segments /\ at[2] \in 1 .. SegmentPages
    BY <1>1 DEF PoolOK, Places
  <2>2. IsFiniteSet(1 .. SegmentPages) /\ Cardinality(1 .. SegmentPages) = SegmentPages
    BY FS_Interval, Constants
  <2>3. Vacant(p, at[1]) \in SUBSET (1 .. SegmentPages) /\ at[2] \notin Vacant(p, at[1])
    BY <2>1 DEF Vacant
  <2>4. Cardinality(Vacant(p, at[1])) # SegmentPages
    BY <2>1, <2>2, <2>3, FS_Subset
  <2>. QED
    BY <1>3, <2>1, <2>4
<1>5. q.seg \in [Segments -> Layers \cup {None}]
  BY <1>1, <1>3 DEF PoolOK
<1>6. PoolOK(q)
  BY <1>1, <1>2, <1>4, <1>5 DEF PoolOK, BlockOK
<1>7. Segments \ Unused(q) \in SUBSET (Segments \ Unused(p))
  BY <1>3 DEF Unused
<1>8. IsFiniteSet(Segments \ Unused(p))
  BY Constants, FS_Difference
<1>9. /\ Cardinality(Segments \ Unused(q)) <= Cardinality(Segments \ Unused(p))
      /\ Cardinality(Segments \ Unused(q)) \in Nat /\ Cardinality(Segments \ Unused(p)) \in Nat
  BY <1>7, <1>8, FS_Subset, FS_CardinalityType
<1>10. Physical(q) <= Physical(p)
  <2>. DEFINE m == Cardinality(Segments \ Unused(q))
              n == Cardinality(Segments \ Unused(p))
  <2>1. m \in Nat /\ n \in Nat /\ m <= n /\ SegmentPages \in Nat
    BY <1>9, Constants
  <2>. HIDE DEF m, n
  <2>2. SegmentPages * m <= SegmentPages * n
    BY <2>1
  <2>. QED
    BY <2>2 DEF Physical, m, n
<1>. QED
  BY <1>2, <1>6, <1>10, ResegmentedSound DEF q

\* The empty index.
LEMMA NoIndex ==
  ASSUME NEW p
  PROVE  IndexOK(p, <<>>) /\ Stored(<<>>) = {}
<1>1. <<>> \in Seq(Nodes) /\ DOMAIN <<>> = {}
  OBVIOUS
<1>. QED
  BY <1>1 DEF IndexOK, Stored

\* clear_prefixes and discard_free.
LEMMA ReclaimableSound ==
  ASSUME NEW p, NEW ix, NEW C, Sound(p, ix, C)
  PROVE  LET t == Reclaimable([pool |-> p, index |-> ix])
         IN  Sound(t.pool, t.index, C) /\ Physical(t.pool) <= Physical(p)
<1>. DEFINE q == Unpinned(p, Stored(ix) \ Stored(<<>>))
<1>1. Sound(q, <<>>, C)
  <2>1. IndexOK(p, <<>>) /\ Stored(<<>>) \subseteq Stored(ix)
    BY NoIndex
  <2>. QED
    BY <2>1, UnpinnedSound
<1>2. q = Unpinned(p, Stored(ix))
  <2>1. Stored(ix) \ Stored(<<>>) = Stored(ix)
    BY NoIndex
  <2>. QED
    BY <2>1
<1>3. q.seg = p.seg
  BY DEF Unpinned, Reclaimed, WithPages
<1>4. Physical(q) = Physical(p)
  BY <1>3 DEF Physical, Unused
<1>. HIDE DEF q
<1>5. Sound(DiscardFree(q), <<>>, C) /\ Physical(DiscardFree(q)) <= Physical(p)
  BY <1>1, <1>4, DiscardSound
<1>. QED
  BY <1>2, <1>5 DEF Reclaimable, Cleared

\* Climbing from 0 to n without meeting a counterexample.
LEMMA Climb ==
  ASSUME NEW n \in Nat, NEW T \in SUBSET (0 .. n), 0 \notin T,
         \A m \in 1 .. n : m - 1 \notin T => m \notin T
  PROVE  T = {}
<1>. SUFFICES ASSUME T # {} PROVE FALSE
  OBVIOUS
<1>1. T \in SUBSET Nat
  OBVIOUS
<1>2. Min(T) \in T /\ \A t \in T : Min(T) <= t
  BY <1>1, MinIs
<1>3. PICK m \in T : \A t \in T : m <= t
  BY <1>2
<1>4. m \in 1 .. n /\ m - 1 \in Nat /\ ~(m <= m - 1)
  <2>1. m \in 0 .. n /\ m # 0
    BY <1>3
  <2>. QED
    BY <2>1
<1>5. m - 1 \notin T
  BY <1>3, <1>4
<1>. QED
  BY <1>4, <1>5

\* Finitely many numbers have a bound.
LEMMA Bounded ==
  ASSUME NEW n \in Nat, NEW f \in [1 .. n -> Nat]
  PROVE  \E b \in Nat : \A i \in 1 .. n : f[i] <= b
<1>. DEFINE Has(m, b) == \A i \in 1 .. m : f[i] <= b
            T == {m \in 0 .. n : ~ \E b \in Nat : Has(m, b)}
<1>1. 0 \notin T
  <2>1. Has(0, 0)
    OBVIOUS
  <2>. QED
    BY <2>1
<1>2. ASSUME NEW m \in 1 .. n, m - 1 \notin T PROVE m \notin T
  <2>1. m - 1 \in 0 .. n
    OBVIOUS
  <2>2. PICK b \in Nat : Has(m - 1, b)
    BY <1>2, <2>1
  <2>. DEFINE c == IF b <= f[m] THEN f[m] ELSE b
  <2>3. f[m] \in Nat
    OBVIOUS
  <2>4. c \in Nat /\ b <= c /\ f[m] <= c
    BY <2>3
  <2>. HIDE DEF c
  <2>5. ASSUME NEW i \in 1 .. m PROVE f[i] <= c
    <3>1. CASE i = m
      BY <2>4, <3>1
    <3>2. CASE i \in 1 .. (m - 1)
      <4>1. f[i] <= b /\ f[i] \in Nat
        BY <2>2, <3>2
      <4>. QED
        BY <2>4, <4>1
    <3>. QED
      BY <3>1, <3>2
  <2>6. Has(m, c)
    BY <2>5
  <2>. QED
    BY <2>4, <2>6
<1>3. T = {}
  <2>. HIDE DEF Has
  <2>1. T \in SUBSET (0 .. n)
    OBVIOUS
  <2>. HIDE DEF T
  <2>. QED
    BY <1>1, <1>2, <2>1, Climb
<1>4. n \in 0 .. n
  OBVIOUS
<1>. QED
  BY <1>3, <1>4

\* A node with the longest path is nobody's parent.
LEMMA VictimsExist ==
  ASSUME NEW p, NEW ix, IndexOK(p, ix), ix # <<>>
  PROVE  Victims(ix) # {} /\ Victims(ix) \subseteq Nat /\ Victims(ix) \subseteq DOMAIN ix
<1>. DEFINE f == [i \in 1 .. Len(ix) |-> Len(ix[i].path)]
            T == {f[i] : i \in 1 .. Len(ix)}
<1>1. Len(ix) \in Nat \ {0} /\ DOMAIN ix = 1 .. Len(ix) /\ \A i \in 1 .. Len(ix) : ix[i] \in Nodes
  BY EmptySeq DEF IndexOK
<1>2. \A i \in 1 .. Len(ix) : ix[i].path \in Seq(Vocabulary) /\ Len(ix[i].path) \in Nat
  BY <1>1 DEF Nodes
<1>3. f \in [1 .. Len(ix) -> Nat]
  BY <1>2
<1>4. PICK b \in Nat : \A i \in 1 .. Len(ix) : f[i] <= b
  BY <1>1, <1>3, Bounded
<1>. HIDE DEF f
<1>5. T \in SUBSET Nat /\ T # {} /\ \A t \in T : t <= b
  BY <1>1, <1>3, <1>4
<1>6. Max(T) \in T /\ \A t \in T : t <= Max(T)
  BY <1>5, MaxIs
<1>7. PICK v \in 1 .. Len(ix) : \A j \in 1 .. Len(ix) : f[j] <= f[v]
  BY <1>6
<1>. USE DEF f
<1>8. ASSUME NEW j \in 1 .. Len(ix) PROVE Parent(ix[j].path) # ix[v].path
  <2>. DEFINE m == Len(ix[j].path)
  <2>1. m \in Nat /\ Len(ix[v].path) \in Nat /\ m <= Len(ix[v].path) /\ ix[j].path \in Seq(Vocabulary)
    BY <1>2, <1>7
  <2>2. PageTokens \in Nat \ {0} /\ m >= PageTokens
    <3>1. NodeOK(p, ix[j])
      BY <1>1 DEF IndexOK
    <3>2. PICK k \in Nat \ {0} : m = PageTokens * k
      BY <3>1 DEF NodeOK
    <3>. QED
      BY <3>2, Constants
  <2>3. Len(SubSeq(ix[j].path, 1, m - PageTokens)) = m - PageTokens
    <3>1. m - PageTokens \in 0 .. m
      BY <2>1, <2>2
    <3>. QED
      BY <2>1, <3>1
  <2>. QED
    BY <2>1, <2>2, <2>3 DEF Parent
<1>9. v \in Victims(ix)
  BY <1>1, <1>8 DEF Victims
<1>. QED
  BY <1>1, <1>9 DEF Victims

\* The nodes behind a victim stay right.
LEMMA EvictOneSound ==
  ASSUME NEW p, NEW ix, NEW C, Sound(p, ix, C), ix # <<>>
  PROVE  LET t == EvictOne([pool |-> p, index |-> ix]) IN Sound(t.pool, t.index, C)
<1>. DEFINE v == Min(Victims(ix))
            I == DOMAIN ix \ {v}
            rest == Part(ix, I)
<1>1. IndexOK(p, ix) /\ ix \in Seq(Nodes)
  BY DEF Sound, IndexOK
<1>2. v \in Victims(ix)
  BY <1>1, VictimsExist, MinIs
<1>3. I \in SUBSET DOMAIN ix
  OBVIOUS
<1>4. /\ rest \in Seq(Nodes)
      /\ \A n \in DOMAIN rest : \E i \in I : rest[n] = ix[i]
      /\ \A i \in I : \E n \in DOMAIN rest : rest[n] = ix[i]
  BY <1>1, <1>3, PartIs
<1>. HIDE DEF v, rest
<1>5. ASSUME NEW n \in DOMAIN rest
      PROVE  /\ NodeOK(p, rest[n])
             /\ Len(rest[n].path) > PageTokens => Parent(rest[n].path) \in PathsOf(rest)
  <2>1. PICK i \in I : rest[n] = ix[i]
    BY <1>4
  <2>2. i \in DOMAIN ix /\ NodeOK(p, ix[i])
    BY <1>1, <2>1 DEF IndexOK
  <2>3. ASSUME Len(ix[i].path) > PageTokens PROVE Parent(ix[i].path) \in PathsOf(rest)
    <3>1. PICK j \in DOMAIN ix : ix[j].path = Parent(ix[i].path)
      BY <1>1, <2>2, <2>3 DEF IndexOK, PathsOf
    <3>2. j # v
      BY <1>2, <2>2, <3>1 DEF Victims
    <3>3. PICK m \in DOMAIN rest : rest[m] = ix[j]
      BY <1>4, <3>1, <3>2
    <3>. QED
      BY <3>1, <3>3 DEF PathsOf
  <2>. QED
    BY <2>1, <2>2, <2>3
<1>6. IndexOK(p, rest)
  BY <1>4, <1>5 DEF IndexOK
<1>7. Stored(rest) \subseteq Stored(ix)
  BY <1>4 DEF Stored
<1>8. Sound(Unpinned(p, Stored(ix) \ Stored(rest)), rest, C)
  BY <1>6, <1>7, UnpinnedSound
<1>. QED
  BY <1>8 DEF EvictOne, rest, v

\* What the recursive function of _evict is, and that there is one.
Turn(t) == IF Cardinality(Stored(t.index)) > IndexCapacity THEN EvictOne(t) ELSE t
Steps(s, n, g) ==
    g = [i \in 0 .. n |-> g[i]] /\ g[0] = s /\ \A i \in 1 .. n : g[i] = Turn(g[i - 1])
LEMMA StepsExist ==
  ASSUME NEW s, NEW n \in Nat
  PROVE  \E g : Steps(s, n, g)
<1>. DEFINE T == {m \in 0 .. n : ~ \E g : Steps(s, m, g)}
<1>1. 0 \notin T
  <2>1. Steps(s, 0, [i \in 0 .. 0 |-> s])
    BY DEF Steps
  <2>. QED
    BY <2>1
<1>2. ASSUME NEW m \in 1 .. n, m - 1 \notin T PROVE m \notin T
  <2>1. m - 1 \in 0 .. n /\ m - 1 \in 0 .. m /\ m \in Nat
    OBVIOUS
  <2>2. PICK g : Steps(s, m - 1, g)
    BY <1>2, <2>1
  <2>. DEFINE e == Turn(g[m - 1])
              h == [i \in 0 .. m |-> IF i = m THEN e ELSE g[i]]
  <2>3. h[m] = e /\ h = [i \in 0 .. m |-> h[i]]
    BY <2>1
  <2>4. \A i \in 0 .. (m - 1) : h[i] = g[i]
    BY <2>1
  <2>. HIDE DEF h
  <2>5. h[0] = s
    BY <2>1, <2>2, <2>4 DEF Steps
  <2>6. ASSUME NEW i \in 1 .. m PROVE h[i] = Turn(h[i - 1])
    <3>1. i - 1 \in 0 .. (m - 1) /\ h[i - 1] = g[i - 1]
      BY <2>1, <2>4
    <3>2. CASE i = m
      BY <2>3, <3>1, <3>2
    <3>3. CASE i \in 1 .. (m - 1)
      <4>1. g[i] = Turn(g[i - 1])
        BY <2>2, <3>3 DEF Steps
      <4>2. h[i] = g[i]
        BY <2>4, <3>3
      <4>. QED
        BY <3>1, <4>1, <4>2
    <3>. QED
      BY <3>2, <3>3
  <2>7. Steps(s, m, h)
    BY <2>3, <2>5, <2>6 DEF Steps
  <2>. QED
    BY <2>7
<1>3. T \in SUBSET (0 .. n)
  OBVIOUS
<1>4. n \notin T /\ n \in 0 .. n
  <2>. HIDE DEF T
  <2>1. T = {}
    BY <1>1, <1>2, <1>3, Climb
  <2>. QED
    BY <2>1
<1>. QED
  BY <1>4

\* _evict, however many turns its loop takes.
LEMMA EvictedSound ==
  ASSUME NEW p, NEW ix, NEW C, Sound(p, ix, C)
  PROVE  LET t == Evicted([pool |-> p, index |-> ix]) IN Sound(t.pool, t.index, C)
<1>. DEFINE s == [pool |-> p, index |-> ix]
            n == Len(ix)
            State(g) == g = [i \in 0 .. n |->
                               IF i = 0 THEN s
                               ELSE IF Cardinality(Stored(g[i - 1].index)) > IndexCapacity
                                    THEN EvictOne(g[i - 1]) ELSE g[i - 1]]
            after == CHOOSE g : State(g)
<1>1. n \in Nat
  BY DEF Sound, IndexOK
<1>2. Evicted(s) = after[n]
  BY DEF Evicted
<1>. HIDE DEF n, s
<1>3. PICK f : Steps(s, n, f)
  BY <1>1, StepsExist
<1>4. State(f)
  <2>. DEFINE e(i) == IF i = 0 THEN s
                      ELSE IF Cardinality(Stored(f[i - 1].index)) > IndexCapacity
                           THEN EvictOne(f[i - 1]) ELSE f[i - 1]
  <2>1. ASSUME NEW i \in 0 .. n PROVE f[i] = e(i)
    <3>1. CASE i = 0
      BY <1>3, <3>1 DEF Steps
    <3>2. CASE i \in 1 .. n
      <4>1. i # 0 /\ f[i] = Turn(f[i - 1])
        BY <1>3, <3>2 DEF Steps
      <4>. QED
        BY <4>1 DEF Turn
    <3>. QED
      BY <1>1, <3>1, <3>2
  <2>2. f = [i \in 0 .. n |-> f[i]]
    BY <1>3 DEF Steps
  <2>. HIDE DEF e
  <2>3. f = [i \in 0 .. n |-> e(i)]
    BY <2>1, <2>2
  <2>. QED
    BY <2>3 DEF e
<1>5. State(after)
  BY <1>4
<1>. HIDE DEF after
<1>6. after[0] = s
  BY <1>1, <1>5
<1>7. ASSUME NEW i \in 1 .. n PROVE after[i] = Turn(after[i - 1])
  <2>1. i # 0 /\ i \in 0 .. n
    BY <1>1
  <2>. QED
    BY <1>5, <2>1 DEF Turn
<1>. DEFINE Good(t) == t = [pool |-> t.pool, index |-> t.index] /\ Sound(t.pool, t.index, C)
            T == {m \in 0 .. n : ~Good(after[m])}
<1>8. 0 \notin T
  BY <1>6 DEF s
<1>9. ASSUME NEW m \in 1 .. n, m - 1 \notin T PROVE m \notin T
  <2>. DEFINE t == after[m - 1]
  <2>1. m - 1 \in 0 .. n
    BY <1>1
  <2>2. Good(t)
    BY <1>9, <2>1
  <2>. DEFINE u == Turn(t)
  <2>3. after[m] = u
    BY <1>7
  <2>. HIDE DEF t
  <2>4. Good(u)
    <3>1. CASE Cardinality(Stored(t.index)) > IndexCapacity
      <4>1. t.index # <<>>
        <5>1. Cardinality(Stored(<<>>)) = 0 /\ IndexCapacity \in Nat
          BY NoIndex, FS_EmptySet, Constants
        <5>. QED
          BY <3>1, <5>1
      <4>. DEFINE d == EvictOne([pool |-> t.pool, index |-> t.index])
      <4>2. Sound(d.pool, d.index, C)
        BY <2>2, <4>1, EvictOneSound
      <4>3. d = [pool |-> d.pool, index |-> d.index]
        BY DEF EvictOne
      <4>4. u = d
        BY <2>2, <3>1 DEF Turn
      <4>. HIDE DEF d, u
      <4>. QED
        BY <4>2, <4>3, <4>4
    <3>2. CASE ~(Cardinality(Stored(t.index)) > IndexCapacity)
      <4>1. u = t
        BY <3>2 DEF Turn
      <4>. HIDE DEF u
      <4>. QED
        BY <2>2, <4>1
    <3>. QED
      BY <3>1, <3>2
  <2>. HIDE DEF u
  <2>. QED
    BY <2>3, <2>4
<1>10. T \in SUBSET (0 .. n)
  OBVIOUS
<1>11. n \notin T /\ n \in 0 .. n
  <2>. HIDE DEF T
  <2>1. T = {}
    BY <1>1, <1>8, <1>9, <1>10, Climb
  <2>. QED
    BY <1>1, <2>1
<1>12. Good(after[n])
  BY <1>11
<1>. QED
  BY <1>2, <1>12 DEF s

-----------------------------------------------------------------------------
(* Publishing.                                                             *)

\* What a piece of a sequence is.
LEMMA SubIs ==
  ASSUME NEW S, NEW s \in Seq(S), NEW m \in Nat \ {0}, NEW n \in Nat, n <= Len(s), m <= n + 1
  PROVE  /\ SubSeq(s, m, n) \in Seq(S) /\ Len(SubSeq(s, m, n)) = n - m + 1
         /\ \A i \in 1 .. (n - m + 1) : SubSeq(s, m, n)[i] = s[m + i - 1]
<1>1. Len(s) \in Nat /\ m \in Int /\ n \in Int
  OBVIOUS
<1>2. \A i \in m .. n : i \in 1 .. Len(s)
  BY <1>1
<1>3. \A i \in m .. n : s[i] \in S
  BY <1>2
<1>4. /\ SubSeq(s, m, n) \in Seq(S)
      /\ Len(SubSeq(s, m, n)) = IF m <= n THEN n - m + 1 ELSE 0
      /\ \A i \in 1 .. n - m + 1 : SubSeq(s, m, n)[i] = s[m + i - 1]
  BY <1>1, <1>3, SubSeqProperties
<1>. QED
  BY <1>4

\* w entries behind the first e
Slice(s, e, w) == SubSeq(s, e + 1, e + w)
LEMMA SliceIs ==
  ASSUME NEW S, NEW s \in Seq(S), NEW e \in Nat, NEW w \in Nat, e + w <= Len(s)
  PROVE  /\ Slice(s, e, w) \in Seq(S) /\ Len(Slice(s, e, w)) = w
         /\ \A j \in 1 .. w : Slice(s, e, w)[j] = s[e + j]
<1>1. /\ SubSeq(s, e + 1, e + w) \in Seq(S) /\ Len(SubSeq(s, e + 1, e + w)) = e + w - (e + 1) + 1
      /\ \A j \in 1 .. (e + w - (e + 1) + 1) : SubSeq(s, e + 1, e + w)[j] = s[e + 1 + j - 1]
  BY SubIs
<1>2. e + w - (e + 1) + 1 = w
  OBVIOUS
<1>. DEFINE t == SubSeq(s, e + 1, e + w)
<1>. HIDE DEF t
<1>3. \A j \in 1 .. w : t[j] = s[e + 1 + j - 1]
  BY <1>1, <1>2 DEF t
<1>4. \A j \in 1 .. w : e + 1 + j - 1 = e + j
  OBVIOUS
<1>5. \A j \in 1 .. w : t[j] = s[e + j]
  BY <1>3, <1>4
<1>. QED
  BY <1>1, <1>2, <1>5 DEF t, Slice

\* A piece of a prefix is a piece of the whole.
LEMMA SubOfPrefix ==
  ASSUME NEW S, NEW s \in Seq(S), NEW n \in Nat, n <= Len(s),
         NEW i \in Nat \ {0}, NEW j \in Nat, j <= n, i <= j + 1
  PROVE  SubSeq(SubSeq(s, 1, n), i, j) = SubSeq(s, i, j)
<1>. DEFINE t == SubSeq(s, 1, n)
<1>1. t \in Seq(S) /\ Len(t) = n /\ \A k \in 1 .. n : t[k] = s[k]
  BY SubIs
<1>. HIDE DEF t
<1>2. /\ SubSeq(t, i, j) \in Seq(S) /\ Len(SubSeq(t, i, j)) = j - i + 1
      /\ \A k \in 1 .. (j - i + 1) : SubSeq(t, i, j)[k] = t[i + k - 1]
  BY <1>1, SubIs
<1>3. /\ SubSeq(s, i, j) \in Seq(S) /\ Len(SubSeq(s, i, j)) = j - i + 1
      /\ \A k \in 1 .. (j - i + 1) : SubSeq(s, i, j)[k] = s[i + k - 1]
  <2>1. j <= Len(s)
    OBVIOUS
  <2>. QED
    BY <2>1, SubIs
<1>4. \A k \in 1 .. (j - i + 1) : SubSeq(t, i, j)[k] = SubSeq(s, i, j)[k]
  <2>. TAKE k \in 1 .. (j - i + 1)
  <2>1. i + k - 1 \in 1 .. n
    OBVIOUS
  <2>. QED
    BY <1>1, <1>2, <1>3, <2>1
<1>5. SubSeq(t, i, j) = SubSeq(s, i, j)
  BY <1>2, <1>3, <1>4, SeqEqual
<1>. QED
  BY <1>5 DEF t

\* The first k blocks of a stream.
Blocked(r, k) == SubSeq(Stream[r], 1, PageTokens * k)
LEMMA BlockedIs ==
  ASSUME NEW r \in Requests, NEW k \in Nat, PageTokens * k <= Len(Stream[r])
  PROVE  /\ Blocked(r, k) \in Seq(Vocabulary) /\ Len(Blocked(r, k)) = PageTokens * k
         /\ PageTokens * k \in Nat
         /\ \A n \in Nat : PageTokens * k <= n /\ n <= Len(Stream[r]) =>
                Prefix(SubSeq(Stream[r], 1, n), k) = Blocked(r, k)
         /\ k > 0 => /\ Parent(Blocked(r, k)) = Blocked(r, k - 1)
                     /\ SubSeq(Blocked(r, k), PageTokens * k - PageTokens + 1, PageTokens * k)
                          = SubSeq(Stream[r], PageTokens * (k - 1) + 1, PageTokens * k)
                     /\ PageTokens * k > PageTokens => k - 1 > 0
<1>. DEFINE m == PageTokens * k
<1>1. m \in Nat /\ Stream[r] \in Seq(Vocabulary) /\ Len(Stream[r]) \in Nat /\ PageTokens \in Nat \ {0}
  BY Constants
<1>2. k > 0 => PageTokens * (k - 1) = m - PageTokens /\ k - 1 \in Nat /\ PageTokens * (k - 1) \in Nat
  BY <1>1
<1>3. m > PageTokens /\ k > 0 => k - 1 > 0
  BY <1>1
<1>4. k * PageTokens = m
  BY <1>1
<1>5. m <= Len(Stream[r])
  OBVIOUS
<1>. HIDE DEF m
<1>6. SubSeq(Stream[r], 1, m) \in Seq(Vocabulary) /\ Len(SubSeq(Stream[r], 1, m)) = m
  BY <1>1, <1>5, SubIs
<1>7. ASSUME NEW n \in Nat, m <= n, n <= Len(Stream[r])
      PROVE  SubSeq(SubSeq(Stream[r], 1, n), 1, m) = SubSeq(Stream[r], 1, m)
  BY <1>1, <1>7, SubOfPrefix
<1>8. ASSUME k > 0
      PROVE  /\ SubSeq(SubSeq(Stream[r], 1, m), 1, m - PageTokens) = SubSeq(Stream[r], 1, m - PageTokens)
             /\ SubSeq(SubSeq(Stream[r], 1, m), m - PageTokens + 1, m)
                  = SubSeq(Stream[r], m - PageTokens + 1, m)
  <2>1. m - PageTokens \in Nat /\ m - PageTokens <= m /\ m - PageTokens + 1 \in Nat \ {0}
        /\ m - PageTokens + 1 <= m + 1 /\ 1 <= m - PageTokens + 1
    BY <1>1, <1>2, <1>8
  <2>2. SubSeq(SubSeq(Stream[r], 1, m), 1, m - PageTokens) = SubSeq(Stream[r], 1, m - PageTokens)
    BY <1>1, <1>5, <2>1, SubOfPrefix
  <2>3. SubSeq(SubSeq(Stream[r], 1, m), m - PageTokens + 1, m)
          = SubSeq(Stream[r], m - PageTokens + 1, m)
    BY <1>1, <1>5, <2>1, SubOfPrefix
  <2>. QED
    BY <2>2, <2>3
<1>9. Blocked(r, k) = SubSeq(Stream[r], 1, m)
  BY DEF Blocked, m
<1>10. k > 0 => /\ Parent(Blocked(r, k)) = Blocked(r, k - 1)
                /\ SubSeq(Blocked(r, k), m - PageTokens + 1, m)
                     = SubSeq(Stream[r], PageTokens * (k - 1) + 1, m)
  <2>. SUFFICES ASSUME k > 0
                PROVE  /\ Parent(Blocked(r, k)) = Blocked(r, k - 1)
                       /\ SubSeq(Blocked(r, k), m - PageTokens + 1, m)
                            = SubSeq(Stream[r], PageTokens * (k - 1) + 1, m)
    OBVIOUS
  <2>1. Blocked(r, k - 1) = SubSeq(Stream[r], 1, m - PageTokens)
    BY <1>2 DEF Blocked
  <2>2. Parent(Blocked(r, k)) = SubSeq(SubSeq(Stream[r], 1, m), 1, m - PageTokens)
    BY <1>6, <1>9 DEF Parent
  <2>. QED
    BY <1>2, <1>8, <1>9, <2>1, <2>2
<1>11. \A n \in Nat : m <= n /\ n <= Len(Stream[r]) =>
           Prefix(SubSeq(Stream[r], 1, n), k) = Blocked(r, k)
  BY <1>4, <1>7, <1>9 DEF Prefix
<1>. QED
  BY <1>1, <1>3, <1>6, <1>9, <1>10, <1>11 DEF m

\* Page at is full, and holds block k of the stream of r in layer l.
Holding(p, at, r, l, k) ==
    /\ at \in Live(p) /\ p.page[at].sealed /\ p.page[at].layer = l
    /\ p.page[at].data = SubSeq(Stream[r], PageTokens * (k - 1) + 1, PageTokens * k)

\* A page behind which the cache has more, or that is full.
LEMMA CompletePage ==
  ASSUME NEW p, PoolOK(p), NEW c, NEW r \in Requests, NEW l \in Layers, CacheOK(p, c, r, l),
         NEW k \in Nat \ {0}, PageTokens * k <= c.offset
  PROVE  k \in 1 .. Len(c.pages) /\ Holding(p, c.pages[k], r, l, k)
<1>. DEFINE n == Len(c.pages)
            b == p.page[c.pages[k]]
<1>1. PageTokens \in Nat \ {0} /\ Stream[r] \in Seq(Vocabulary) /\ Len(Stream[r]) \in Nat
  BY Constants
<1>2. c.pages \in Seq(Places) /\ n \in Nat /\ c.offset \in Nat /\ c.offset <= Len(Stream[r])
  BY DEF CacheOK, Cache
<1>3. c.pages # <<>> /\ n \in 1 .. n
  <2>1. PageTokens * k > 0
    BY <1>1
  <2>2. c.pages = <<>> => c.offset = 0
    BY DEF CacheOK
  <2>3. c.pages # <<>>
    BY <1>1, <2>1, <2>2
  <2>. QED
    BY <1>2, <2>3
<1>4. ASSUME NEW i \in 1 .. n
      PROVE  /\ c.pages[i] \in Live(p) /\ p.page[c.pages[i]].layer = l
             /\ p.page[c.pages[i]].data \in Seq(Vocabulary)
             /\ Len(p.page[c.pages[i]].data) \in 1 .. PageTokens
             /\ p.page[c.pages[i]].sealed = (Len(p.page[c.pages[i]].data) = PageTokens)
             /\ i < n => p.page[c.pages[i]].sealed
             /\ Holds(p, c.pages[i], Stream[r], i)
  BY DEF CacheOK, PoolOK, BlockOK
<1>. DEFINE d == Len(p.page[c.pages[n]].data)
<1>5. c.offset = PageTokens * (n - 1) + d /\ d \in 1 .. PageTokens
  BY <1>3, <1>4 DEF CacheOK
<1>6. k <= n /\ (k = n => d = PageTokens)
  <2>. HIDE DEF n, d
  <2>1. PageTokens * k <= PageTokens * (n - 1) + d
    BY <1>5
  <2>2. PageTokens * (n - 1) = PageTokens * n - PageTokens /\ PageTokens * n \in Int /\ PageTokens * k \in Int
    BY <1>1, <1>2
  <2>3. ASSUME k > n PROVE FALSE
    <3>1. PageTokens * k >= PageTokens * (n + 1)
      BY <1>1, <1>2, <2>3
    <3>2. PageTokens * (n + 1) = PageTokens * n + PageTokens
      BY <1>1, <1>2
    <3>. QED
      BY <1>1, <1>5, <2>1, <2>2, <3>1, <3>2
  <2>4. k = n => d = PageTokens
    BY <1>1, <1>5, <2>1, <2>2
  <2>. QED
    BY <1>2, <2>3, <2>4
<1>7. k \in 1 .. n
  BY <1>2, <1>6
<1>8. b.sealed /\ Len(b.data) = PageTokens /\ b.data \in Seq(Vocabulary) /\ Holds(p, c.pages[k], Stream[r], k)
  <2>1. b.data \in Seq(Vocabulary) /\ Holds(p, c.pages[k], Stream[r], k)
        /\ b.sealed = (Len(b.data) = PageTokens)
    BY <1>4, <1>7
  <2>2. CASE k < n
    BY <1>4, <1>7, <2>1, <2>2
  <2>3. CASE k = n
    BY <1>6, <2>1, <2>3
  <2>. QED
    BY <1>2, <1>7, <2>1, <2>2, <2>3
<1>9. b.data = SubSeq(Stream[r], PageTokens * (k - 1) + 1, PageTokens * k)
  <2>. DEFINE e == PageTokens * (k - 1)
              t == SubSeq(Stream[r], e + 1, PageTokens * k)
  <2>1. e \in Nat /\ PageTokens * k = e + PageTokens /\ PageTokens * k \in Nat
    BY <1>1
  <2>2. e + PageTokens <= Len(Stream[r])
    BY <1>1, <1>2, <2>1
  <2>3. t = Slice(Stream[r], e, PageTokens)
    BY <2>1 DEF Slice
  <2>. HIDE DEF e, t
  <2>4. /\ t \in Seq(Vocabulary) /\ Len(t) = PageTokens
        /\ \A j \in 1 .. PageTokens : t[j] = Stream[r][e + j]
    <3>1. /\ PageTokens \in Nat /\ e \in Nat /\ e + PageTokens <= Len(Stream[r])
          /\ Stream[r] \in Seq(Vocabulary)
      BY <1>1, <2>1, <2>2
    <3>. QED
      BY <2>3, <3>1, SliceIs
  <2>5. \A j \in 1 .. PageTokens : b.data[j] = Stream[r][e + j]
    BY <1>8 DEF Holds, e
  <2>6. \A j \in 1 .. PageTokens : b.data[j] = t[j]
    BY <2>4, <2>5
  <2>7. b.data = t
    BY <1>8, <2>4, <2>6, SeqEqual
  <2>. QED
    BY <2>7 DEF t, e
<1>. QED
  BY <1>4, <1>7, <1>8, <1>9 DEF Holding

\* What stands in u stands in s or in t.
Both(s, t, u) ==
    /\ \A i \in DOMAIN u : (\E j \in DOMAIN s : u[i] = s[j]) \/ (\E j \in DOMAIN t : u[i] = t[j])
    /\ \A j \in DOMAIN s : \E i \in DOMAIN u : u[i] = s[j]
    /\ \A j \in DOMAIN t : \E i \in DOMAIN u : u[i] = t[j]

\* What a concatenation is.
LEMMA Joins ==
  ASSUME NEW S, NEW s \in Seq(S), NEW t \in Seq(S)
  PROVE  /\ s \o t \in Seq(S)
         /\ Both(s, t, s \o t)
<1>. DEFINE u == s \o t
            m == Len(s)
            n == Len(t)
<1>1. /\ u \in Seq(S) /\ Len(u) = m + n /\ m \in Nat /\ n \in Nat
      /\ \A i \in 1 .. m + n : u[i] = IF i <= m THEN s[i] ELSE t[i - m]
      /\ DOMAIN u = 1 .. (m + n) /\ DOMAIN s = 1 .. m /\ DOMAIN t = 1 .. n
  BY ConcatProperties, LenProperties
<1>. HIDE DEF u, m, n
<1>2. ASSUME NEW i \in 1 .. (m + n)
      PROVE  (\E j \in 1 .. m : u[i] = s[j]) \/ (\E j \in 1 .. n : u[i] = t[j])
  <2>1. CASE i <= m
    BY <1>1, <2>1
  <2>2. CASE i > m
    <3>1. i - m \in 1 .. n /\ u[i] = t[i - m]
      BY <1>1, <2>2
    <3>. QED
      BY <3>1
  <2>. QED
    BY <1>1, <2>1, <2>2
<1>3. ASSUME NEW j \in 1 .. m PROVE j \in 1 .. (m + n) /\ u[j] = s[j]
  BY <1>1
<1>4. ASSUME NEW j \in 1 .. n PROVE m + j \in 1 .. (m + n) /\ u[m + j] = t[j]
  <2>1. m + j \in 1 .. (m + n) /\ ~(m + j <= m) /\ m + j - m = j
    BY <1>1
  <2>. QED
    BY <1>1, <2>1
<1>. QED
  BY <1>1, <1>2, <1>3, <1>4 DEF u, Both

\* publish: a node for each complete page of the prompt that has none.
LEMMA PublishedSound ==
  ASSUME NEW p, NEW ix, NEW C, Sound(p, ix, C), NEW r \in Requests, NEW caches,
         \A l \in Layers : CacheOK(p, caches[l], r, l) /\ caches[l].offset = Prompt[r]
  PROVE  LET t == Published([pool |-> p, index |-> ix], SubSeq(Stream[r], 1, Prompt[r]), caches)
         IN  Sound(t.pool, t.index, C)
<1>. DEFINE s == [pool |-> p, index |-> ix]
            tokens == SubSeq(Stream[r], 1, Prompt[r])
            complete == Len(tokens) \div PageTokens
            node(k) == [path |-> Prefix(tokens, k), pages |-> [l \in Layers |-> caches[l].pages[k]]]
            nodes == [k \in 1 .. complete |-> node(k)]
            I == {k \in 1 .. complete : nodes[k].path \notin PathsOf(ix)}
            added == Part(nodes, I)
            jx == ix \o added
            t == Evicted([pool |-> Pinned(p, Stored(added) \ Stored(ix)), index |-> jx])
<1>1. PoolOK(p) /\ IndexOK(p, ix) /\ ix \in Seq(Nodes)
  BY DEF Sound, IndexOK
<1>2. /\ Prompt[r] \in Nat /\ Prompt[r] <= Len(Stream[r]) /\ Len(Stream[r]) \in Nat /\ PageTokens \in Nat \ {0}
      /\ Stream[r] \in Seq(Vocabulary)
  BY Constants
<1>3. Len(tokens) = Prompt[r]
  BY <1>2, SubIs
<1>4. complete \in Nat /\ PageTokens * complete <= Prompt[r]
  BY <1>2, <1>3
<1>. HIDE DEF complete
<1>5. ASSUME NEW k \in 1 .. complete
      PROVE  k \in Nat \ {0} /\ k > 0 /\ PageTokens * k <= Prompt[r] /\ PageTokens * k <= Len(Stream[r])
  <2>1. k \in Nat /\ k <= complete /\ k # 0
    BY <1>4
  <2>2. PageTokens * k <= PageTokens * complete
    BY <1>2, <1>4, <2>1
  <2>3. PageTokens * k \in Nat /\ PageTokens * complete \in Nat
    BY <1>2, <1>4, <2>1
  <2>. QED
    BY <1>2, <1>4, <2>1, <2>2, <2>3
<1>6. ASSUME NEW k \in 1 .. complete
      PROVE  /\ node(k).path = Blocked(r, k) /\ node(k) \in Nodes /\ NodeOK(p, node(k))
             /\ Len(node(k).path) > PageTokens =>
                    k - 1 \in 1 .. complete /\ Parent(node(k).path) = Blocked(r, k - 1)
  <2>1. k \in Nat \ {0} /\ k > 0 /\ PageTokens * k <= Prompt[r] /\ PageTokens * k <= Len(Stream[r])
    BY <1>5
  <2>2. Prefix(tokens, k) = Blocked(r, k)
    BY <1>2, <2>1, BlockedIs
  <2>3. /\ Blocked(r, k) \in Seq(Vocabulary) /\ Len(Blocked(r, k)) = PageTokens * k
        /\ Parent(Blocked(r, k)) = Blocked(r, k - 1)
        /\ SubSeq(Blocked(r, k), PageTokens * k - PageTokens + 1, PageTokens * k)
             = SubSeq(Stream[r], PageTokens * (k - 1) + 1, PageTokens * k)
        /\ PageTokens * k > PageTokens => k - 1 > 0
    BY <2>1, BlockedIs
  <2>4. \A l \in Layers : Holding(p, caches[l].pages[k], r, l, k)
    <3>. TAKE l \in Layers
    <3>1. CacheOK(p, caches[l], r, l) /\ PageTokens * k <= caches[l].offset
      BY <2>1
    <3>2. PoolOK(p) /\ k \in Nat \ {0}
      BY <1>1, <2>1
    <3>. HIDE DEF node, nodes, I, added, jx, t, s, tokens
    <3>. QED
      BY <3>1, <3>2, CompletePage
  <2>5. Live(p) \subseteq Places
    BY <1>1 DEF PoolOK
  <2>6. node(k).path = Blocked(r, k) /\ \A l \in Layers : node(k).pages[l] = caches[l].pages[k]
    BY <2>2
  <2>7. node(k) \in Nodes
    BY <2>2, <2>3, <2>4, <2>5 DEF Nodes, Holding
  <2>8. Blocked(r, k) = SubSeq(Stream[r], 1, PageTokens * k)
    BY DEF Blocked
  <2>. HIDE DEF node
  <2>9. NodeOK(p, node(k))
    <3>1. \E i \in Nat \ {0} : Len(node(k).path) = PageTokens * i
      BY <2>1, <2>3, <2>6
    <3>2. \E o \in Requests : Len(node(k).path) <= Prompt[o]
                                /\ node(k).path = SubSeq(Stream[o], 1, Len(node(k).path))
      BY <2>1, <2>3, <2>6, <2>8
    <3>3. \A l \in Layers :
             LET b == p.page[node(k).pages[l]]
             IN  /\ node(k).pages[l] \in Live(p) /\ b.sealed /\ b.layer = l
                 /\ b.data = SubSeq(node(k).path, Len(node(k).path) - PageTokens + 1, Len(node(k).path))
      BY <2>3, <2>4, <2>6 DEF Holding
    <3>. QED
      BY <3>1, <3>2, <3>3 DEF NodeOK
  <2>10. k - 1 > 0 => k - 1 \in 1 .. complete
    BY <1>4
  <2>. QED
    BY <2>3, <2>6, <2>7, <2>9, <2>10
<1>. HIDE DEF node
<1>7. nodes \in Seq(Nodes) /\ DOMAIN nodes = 1 .. complete /\ \A k \in 1 .. complete : nodes[k] = node(k)
  BY <1>4, <1>6
<1>. HIDE DEF nodes
<1>8. I \in SUBSET DOMAIN nodes
  BY <1>7
<1>9. /\ added \in Seq(Nodes)
      /\ \A n \in DOMAIN added : \E k \in I : added[n] = nodes[k]
      /\ \A k \in I : \E n \in DOMAIN added : added[n] = nodes[k]
  BY <1>7, <1>8, PartIs
<1>10. \A n \in DOMAIN added : \E k \in 1 .. complete : added[n] = node(k)
  BY <1>7, <1>9
<1>11. \A k \in 1 .. complete : node(k).path \in PathsOf(ix) \/ \E n \in DOMAIN added : added[n] = node(k)
  BY <1>7, <1>9
<1>. HIDE DEF added
<1>12. /\ jx \in Seq(Nodes)
       /\ \A i \in DOMAIN jx : (\E j \in DOMAIN ix : jx[i] = ix[j]) \/ (\E j \in DOMAIN added : jx[i] = added[j])
       /\ \A j \in DOMAIN ix : \E i \in DOMAIN jx : jx[i] = ix[j]
       /\ \A j \in DOMAIN added : \E i \in DOMAIN jx : jx[i] = added[j]
  <2>1. ix \in Seq(Nodes) /\ added \in Seq(Nodes)
    BY <1>1, <1>9
  <2>2. jx \in Seq(Nodes) /\ Both(ix, added, jx)
    BY <2>1, Joins
  <2>. HIDE DEF jx
  <2>. QED
    BY <2>2 DEF Both
<1>. HIDE DEF jx
<1>13. PathsOf(ix) \subseteq PathsOf(jx) /\ \A k \in 1 .. complete : node(k).path \in PathsOf(jx)
  <2>1. PathsOf(ix) \subseteq PathsOf(jx)
    BY <1>12 DEF PathsOf
  <2>2. ASSUME NEW n \in DOMAIN added PROVE added[n].path \in PathsOf(jx)
    BY <1>12 DEF PathsOf
  <2>. QED
    BY <1>11, <2>1, <2>2
<1>14. ASSUME NEW i \in DOMAIN jx
       PROVE  /\ NodeOK(p, jx[i])
              /\ Len(jx[i].path) > PageTokens => Parent(jx[i].path) \in PathsOf(jx)
  <2>1. CASE \E j \in DOMAIN ix : jx[i] = ix[j]
    BY <1>1, <1>13, <2>1 DEF IndexOK
  <2>2. CASE \E n \in DOMAIN added : jx[i] = added[n]
    <3>1. PICK k \in 1 .. complete : jx[i] = node(k)
      BY <1>10, <2>2
    <3>2. ASSUME Len(node(k).path) > PageTokens PROVE Parent(node(k).path) \in PathsOf(jx)
      <4>1. k - 1 \in 1 .. complete /\ Parent(node(k).path) = Blocked(r, k - 1)
        BY <1>6, <3>2
      <4>2. node(k - 1).path = Blocked(r, k - 1)
        BY <1>6, <4>1
      <4>. QED
        BY <1>13, <4>1, <4>2
    <3>. QED
      BY <1>6, <3>1, <3>2
  <2>. QED
    BY <1>12, <2>1, <2>2
<1>15. IndexOK(p, jx)
  BY <1>12, <1>14 DEF IndexOK
<1>16. Stored(jx) = Stored(ix) \cup Stored(added)
  BY <1>12 DEF Stored
<1>17. Sound(Pinned(p, Stored(jx) \ Stored(ix)), jx, C)
  <2>1. Stored(ix) \subseteq Stored(jx)
    BY <1>16
  <2>. QED
    BY <1>15, <2>1, PinnedSound
<1>18. Stored(jx) \ Stored(ix) = Stored(added) \ Stored(ix)
  BY <1>16
<1>19. Sound(t.pool, t.index, C)
  BY <1>17, <1>18, EvictedSound
<1>20. Published(s, tokens, caches) = IF IndexCapacity = 0 THEN s ELSE t
  BY DEF Published, jx, added, nodes, node, complete
<1>. HIDE DEF t
<1>. QED
  BY <1>19, <1>20

-----------------------------------------------------------------------------
(* Lookup and adoption.                                                    *)

\* The cache of a request that has computed nothing.
LEMMA EmptyIs ==
  ASSUME NEW p, NEW r \in Requests, NEW l
  PROVE  CacheOK(p, EmptyCache, r, l)
<1>1. Len(Stream[r]) \in Nat
  BY Constants
<1>2. EmptyCache \in Cache
  BY DEF EmptyCache, Cache
<1>. QED
  BY <1>1, <1>2 DEF EmptyCache, CacheOK

\* Full pages that hold the first blocks of a stream make a cache.
Filling(p, q, pages, r, l, k) ==
    /\ k \in Nat \ {0} /\ PageTokens * k <= Len(Stream[r]) /\ pages \in Seq(Places) /\ Len(pages) = k
    /\ \A j \in 1 .. k : Holding(p, pages[j], r, l, j) /\ Same(p, q, pages[j])
AdoptedWell(p, c, pages, r, l, k) ==
    CacheOK(p, c, r, l) /\ c.pages = pages /\ c.offset = PageTokens * k
LEMMA AdoptedIs ==
  ASSUME NEW p, PoolOK(p), NEW q, NEW r \in Requests, NEW l \in Layers, NEW k, NEW pages,
         Filling(p, q, pages, r, l, k)
  PROVE  AdoptedWell(p, Adopted(q, pages), pages, r, l, k)
<1>0. /\ k \in Nat \ {0} /\ PageTokens * k <= Len(Stream[r]) /\ pages \in Seq(Places) /\ Len(pages) = k
      /\ \A j \in 1 .. k : Holding(p, pages[j], r, l, j) /\ Same(p, q, pages[j])
  BY DEF Filling
<1>. USE <1>0
<1>. DEFINE c == Adopted(q, pages)
<1>1. PageTokens \in Nat \ {0} /\ Stream[r] \in Seq(Vocabulary) /\ Len(Stream[r]) \in Nat
  BY Constants
<1>2. ASSUME NEW j \in 1 .. k
      PROVE  /\ pages[j] \in Places /\ p.page[pages[j]].data \in Seq(Vocabulary)
             /\ Len(p.page[pages[j]].data) = PageTokens /\ p.page[pages[j]].sealed
             /\ pages[j] \in Live(p) /\ p.page[pages[j]].layer = l
             /\ p.page[pages[j]].data = SubSeq(Stream[r], PageTokens * (j - 1) + 1, PageTokens * j)
             /\ Row(q, pages[j]) = Row(p, pages[j])
  BY DEF Holding, PoolOK, BlockOK, Same, Row
<1>3. pages \in Seq(Places) /\ Len(pages) = k /\ DOMAIN pages = 1 .. k
  OBVIOUS
<1>4. c.table = [j \in 1 .. k |-> Row(q, pages[j])] /\ c.pages = pages /\ c.offset = PageTokens * k
  BY <1>3 DEF Adopted
<1>5. /\ c.table \in Seq([at : Places, count : Nat]) /\ Len(c.table) = k
      /\ \A j \in 1 .. k : c.table[j] = Row(p, pages[j])
  <2>. DEFINE t == [j \in 1 .. k |-> Row(q, pages[j])]
              Rows == [at : Places, count : Nat]
  <2>1. \A j \in 1 .. k : Row(q, pages[j]) \in Rows
    BY <1>1, <1>2 DEF Row
  <2>. HIDE DEF Rows
  <2>2. t \in Seq(Rows)
    BY <2>1
  <2>4. DOMAIN t = 1 .. k
    OBVIOUS
  <2>3. \A j \in 1 .. k : t[j] = Row(p, pages[j])
    BY <1>2
  <2>. HIDE DEF c, t
  <2>5. Len(t) = k
    BY <2>2, <2>4
  <2>6. c.table = t
    BY <1>4 DEF t
  <2>. QED
    BY <2>2, <2>3, <2>5, <2>6 DEF Rows
<1>6. PageTokens * k \in Nat /\ PageTokens * k = PageTokens * (k - 1) + PageTokens
  BY <1>1
<1>7. c \in Cache
  <2>1. c = [pages |-> c.pages, table |-> c.table, offset |-> c.offset]
    BY DEF Adopted
  <2>. HIDE DEF c
  <2>. QED
    BY <1>3, <1>4, <1>5, <1>6, <2>1 DEF Cache
<1>. HIDE DEF c
<1>8. ASSUME NEW j \in 1 .. k PROVE Holds(p, pages[j], Stream[r], j)
  <2>. DEFINE e == PageTokens * (j - 1)
  <2>1. e \in Nat /\ e + PageTokens = PageTokens * j /\ PageTokens * j \in Nat
    BY <1>1
  <2>2. PageTokens * j <= PageTokens * k
    BY <1>1
  <2>3. e + PageTokens <= Len(Stream[r])
    BY <1>1, <1>6, <2>1, <2>2
  <2>4. p.page[pages[j]].data = Slice(Stream[r], e, PageTokens)
    BY <1>2, <2>1 DEF Slice
  <2>. HIDE DEF e
  <2>5. \A i \in 1 .. PageTokens : p.page[pages[j]].data[i] = Stream[r][e + i]
    <3>1. /\ PageTokens \in Nat /\ e \in Nat /\ e + PageTokens <= Len(Stream[r])
          /\ Stream[r] \in Seq(Vocabulary)
      BY <1>1, <2>1, <2>3
    <3>2. \A i \in 1 .. PageTokens : Slice(Stream[r], e, PageTokens)[i] = Stream[r][e + i]
      BY <3>1, SliceIs
    <3>. QED
      BY <2>4, <3>2
  <2>. QED
    BY <1>2, <2>5 DEF Holds, e
<1>9. \A i \in 1 .. Len(c.pages) :
          /\ c.pages[i] \in Live(p) /\ p.page[c.pages[i]].layer = l
          /\ c.table[i] = Row(p, c.pages[i])
          /\ i < Len(c.pages) => p.page[c.pages[i]].sealed
          /\ Holds(p, c.pages[i], Stream[r], i)
  BY <1>2, <1>3, <1>4, <1>5, <1>8
<1>10. c.offset = IF c.pages = <<>> THEN 0
                  ELSE PageTokens * (Len(c.pages) - 1) + Len(p.page[c.pages[Len(c.pages)]].data)
  <2>1. c.pages # <<>> /\ k \in 1 .. k /\ Len(c.pages) = k /\ c.pages[k] = pages[k]
    BY <1>3, <1>4
  <2>. QED
    BY <1>2, <1>4, <1>6, <2>1
<1>11. CacheOK(p, c, r, l)
  BY <1>3, <1>4, <1>5, <1>7, <1>9, <1>10 DEF CacheOK
<1>. QED
  BY <1>3, <1>4, <1>11 DEF c, AdoptedWell

\* An index with the same nodes in another order.
LEMMA IndexSame ==
  ASSUME NEW p, NEW ix, IndexOK(p, ix), NEW jx \in Seq(Nodes),
         \A i \in DOMAIN jx : \E j \in DOMAIN ix : jx[i] = ix[j],
         \A j \in DOMAIN ix : \E i \in DOMAIN jx : jx[i] = ix[j]
  PROVE  IndexOK(p, jx) /\ Stored(jx) = Stored(ix)
<1>1. PathsOf(jx) = PathsOf(ix)
  BY DEF PathsOf
<1>2. Stored(jx) = Stored(ix)
  BY DEF Stored
<1>3. \A i \in DOMAIN jx : /\ NodeOK(p, jx[i])
                           /\ Len(jx[i].path) > PageTokens => Parent(jx[i].path) \in PathsOf(jx)
  BY <1>1 DEF IndexOK
<1>. QED
  BY <1>2, <1>3 DEF IndexOK

\* What lookup finds for the prompt of r: k nodes, that leave a token of it.
LEMMA LookupIs ==
  ASSUME NEW p, IndexOK(p, index), NEW r \in Requests,
         NEW k \in {0, Matched(SubSeq(Stream[r], 1, Prompt[r]))}
  PROVE  LET prompt == SubSeq(Stream[r], 1, Prompt[r])
         IN  /\ k \in Nat /\ PageTokens * k < Prompt[r] /\ Len(prompt) = Prompt[r]
             /\ \A j \in 1 .. k :
                   /\ \E i \in DOMAIN index : Node(Prefix(prompt, j)) = index[i]
                   /\ Node(Prefix(prompt, j)) \in Nodes
                   /\ \A l \in Layers : Holding(p, Node(Prefix(prompt, j)).pages[l], r, l, j)
<1>. DEFINE prompt == SubSeq(Stream[r], 1, Prompt[r])
            T == {n \in 0 .. ((Len(prompt) - 1) \div PageTokens) :
                     \A j \in 1 .. n : Prefix(prompt, j) \in Paths}
            m == (Prompt[r] - 1) \div PageTokens
<1>1. /\ Prompt[r] \in Nat \ {0} /\ Prompt[r] <= Len(Stream[r]) /\ Len(Stream[r]) \in Nat
      /\ PageTokens \in Nat \ {0} /\ Stream[r] \in Seq(Vocabulary)
  BY Constants
<1>2. prompt \in Seq(Vocabulary) /\ Len(prompt) = Prompt[r]
  BY <1>1, SubIs
<1>3. m \in Nat /\ PageTokens * m <= Prompt[r] - 1
  <2>1. Prompt[r] - 1 \in Nat
    BY <1>1
  <2>. QED
    BY <1>1, <2>1
<1>4. k = 0 \/ k = Max(T)
  BY DEF Matched
<1>5. T = {n \in 0 .. m : \A j \in 1 .. n : Prefix(prompt, j) \in Paths}
  BY <1>2
<1>. HIDE DEF m, T, prompt
<1>6. T \in SUBSET Nat /\ 0 \in T /\ \A n \in T : n <= m
  BY <1>3, <1>5
<1>7. Max(T) \in T
  BY <1>3, <1>6, MaxIs
<1>8. k \in 0 .. m /\ \A j \in 1 .. k : Prefix(prompt, j) \in Paths
  <2>1. k \in T
    BY <1>4, <1>6, <1>7
  <2>. QED
    BY <1>5, <2>1
<1>9. k \in Nat /\ PageTokens * k <= Prompt[r] - 1 /\ PageTokens * k < Prompt[r]
  <2>1. k \in Nat /\ k <= m
    BY <1>8
  <2>2. PageTokens * k <= PageTokens * m
    BY <1>1, <1>3, <2>1
  <2>3. PageTokens * k \in Nat /\ PageTokens * m \in Nat
    BY <1>1, <1>3, <2>1
  <2>. QED
    BY <1>1, <1>3, <2>1, <2>2, <2>3
<1>10. ASSUME NEW j \in 1 .. k
       PROVE  /\ \E i \in DOMAIN index : Node(Prefix(prompt, j)) = index[i]
              /\ Node(Prefix(prompt, j)) \in Nodes
              /\ \A l \in Layers : Holding(p, Node(Prefix(prompt, j)).pages[l], r, l, j)
  <2>. DEFINE path == Prefix(prompt, j)
              e == Node(path)
  <2>1. j \in Nat \ {0} /\ j > 0 /\ PageTokens * j <= Prompt[r] /\ PageTokens * j <= Len(Stream[r])
    <3>1. j \in Nat /\ j <= k /\ j # 0
      BY <1>9
    <3>2. PageTokens * j <= PageTokens * k
      BY <1>1, <1>9, <3>1
    <3>3. PageTokens * j \in Nat /\ PageTokens * k \in Nat
      BY <1>1, <1>9, <3>1
    <3>. QED
      BY <1>1, <1>9, <3>1, <3>2, <3>3
  <2>2. path = Blocked(r, j)
    BY <1>1, <2>1, BlockedIs DEF prompt
  <2>3. Len(Blocked(r, j)) = PageTokens * j
    BY <2>1, BlockedIs
  <2>4. SubSeq(Blocked(r, j), PageTokens * j - PageTokens + 1, PageTokens * j)
          = SubSeq(Stream[r], PageTokens * (j - 1) + 1, PageTokens * j)
    BY <2>1, BlockedIs
  <2>5. path \in Paths
    BY <1>8
  <2>. HIDE DEF path
  <2>6. \E i \in DOMAIN index : index[i].path = path
    BY <2>5 DEF Paths, PathsOf
  <2>7. \E d \in Range(index) : d.path = path
    BY <2>6 DEF Range
  <2>8. e \in Range(index) /\ e.path = path
    BY <2>7 DEF Node
  <2>. HIDE DEF e
  <2>9. PICK i \in DOMAIN index : e = index[i]
    BY <2>8 DEF Range
  <2>10. e \in Nodes /\ NodeOK(p, e)
    BY <2>9 DEF IndexOK
  <2>11. \A l \in Layers : Holding(p, e.pages[l], r, l, j)
    BY <2>2, <2>3, <2>4, <2>8, <2>10 DEF NodeOK, Holding
  <2>. QED
    BY <2>9, <2>10, <2>11 DEF e, path
<1>. QED
  BY <1>2, <1>9, <1>10 DEF prompt

\* lookup moves nodes, and no more.
LEMMA TouchedIs ==
  ASSUME NEW p, IndexOK(p, index), NEW r \in Requests,
         NEW k \in {0, Matched(SubSeq(Stream[r], 1, Prompt[r]))}
  PROVE  LET jx == Touched(SubSeq(Stream[r], 1, Prompt[r]), k)
         IN  IndexOK(p, jx) /\ Stored(jx) = Stored(index)
<1>. DEFINE prompt == SubSeq(Stream[r], 1, Prompt[r])
            chain == [j \in 1 .. k |-> Node(Prefix(prompt, j))]
            I == {i \in DOMAIN index : index[i] \notin Range(chain)}
            rest == Part(index, I)
            jx == rest \o chain
<1>1. k \in Nat /\ \A j \in 1 .. k : /\ \E i \in DOMAIN index : Node(Prefix(prompt, j)) = index[i]
                                     /\ Node(Prefix(prompt, j)) \in Nodes
  BY LookupIs
<1>2. Touched(prompt, k) = jx
  BY DEF Touched
<1>. HIDE DEF prompt
<1>3. chain \in Seq(Nodes) /\ DOMAIN chain = 1 .. k
      /\ \A j \in DOMAIN chain : \E i \in DOMAIN index : chain[j] = index[i]
  BY <1>1
<1>4. \A i \in DOMAIN index : i \in I \/ \E j \in DOMAIN chain : chain[j] = index[i]
  BY DEF Range
<1>. HIDE DEF chain
<1>5. index \in Seq(Nodes) /\ I \in SUBSET DOMAIN index
  BY DEF IndexOK
<1>6. /\ rest \in Seq(Nodes)
      /\ \A n \in DOMAIN rest : \E i \in I : rest[n] = index[i]
      /\ \A i \in I : \E n \in DOMAIN rest : rest[n] = index[i]
  BY <1>5, PartIs
<1>. HIDE DEF I, rest
<1>7. jx \in Seq(Nodes) /\ Both(rest, chain, jx)
  BY <1>3, <1>6, Joins
<1>. HIDE DEF jx
<1>8. \A i \in DOMAIN jx : \E j \in DOMAIN index : jx[i] = index[j]
  <2>1. I \subseteq DOMAIN index
    BY <1>5
  <2>. QED
    <3>. TAKE i \in DOMAIN jx
    <3>1. CASE \E j \in DOMAIN rest : jx[i] = rest[j]
      BY <1>6, <2>1, <3>1
    <3>2. CASE \E j \in DOMAIN chain : jx[i] = chain[j]
      BY <1>3, <3>2
    <3>. QED
      BY <1>7, <3>1, <3>2 DEF Both
<1>9. \A j \in DOMAIN index : \E i \in DOMAIN jx : jx[i] = index[j]
  BY <1>4, <1>6, <1>7 DEF Both
<1>10. IndexOK(p, jx) /\ Stored(jx) = Stored(index)
  BY <1>7, <1>8, <1>9, IndexSame
<1>. QED
  BY <1>2, <1>10 DEF prompt

-----------------------------------------------------------------------------
(* A cache and its last page.                                              *)

\* A sequence without its last member.
LEMMA FrontIs ==
  ASSUME NEW S, NEW s \in Seq(S), s # <<>>
  PROVE  /\ Front(s) \in Seq(S) /\ Len(Front(s)) = Len(s) - 1 /\ Len(s) \in Nat \ {0}
         /\ \A i \in 1 .. (Len(s) - 1) : Front(s)[i] = s[i]
         /\ Last(s) = s[Len(s)] /\ Last(s) \in S
<1>. DEFINE m == Len(s) - 1
<1>1. Len(s) \in Nat \ {0} /\ m \in Nat /\ m <= Len(s) /\ 1 <= m + 1 /\ m - 1 + 1 = m
  <2>1. Len(s) \in Nat \ {0}
    BY EmptySeq
  <2>. QED
    BY <2>1
<1>2. Last(s) = s[Len(s)] /\ s[Len(s)] \in S
  BY <1>1 DEF Last
<1>3. Front(s) = SubSeq(s, 1, m)
  BY DEF Front
<1>. HIDE DEF m
<1>4. /\ SubSeq(s, 1, m) \in Seq(S) /\ Len(SubSeq(s, 1, m)) = m - 1 + 1
      /\ \A i \in 1 .. (m - 1 + 1) : SubSeq(s, 1, m)[i] = s[1 + i - 1]
  BY <1>1, SubIs
<1>5. \A i \in 1 .. m : Front(s)[i] = s[i]
  <2>1. \A i \in 1 .. m : 1 + i - 1 = i
    BY <1>1
  <2>. QED
    BY <1>1, <1>3, <1>4, <2>1
<1>. QED
  BY <1>1, <1>2, <1>3, <1>4, <1>5 DEF m

\* The fields of a cache.
LEMMA CacheTyped ==
  ASSUME NEW p, NEW c, NEW r \in Requests, NEW l, CacheOK(p, c, r, l)
  PROVE  /\ c.pages \in Seq(Places) /\ Len(c.pages) \in Nat /\ c.offset \in Nat
         /\ c.table \in Seq([at : Places, count : Nat]) /\ Len(c.table) = Len(c.pages)
         /\ c.offset <= Len(Stream[r]) /\ Len(Stream[r]) \in Nat
         /\ c = [pages |-> c.pages, table |-> c.table, offset |-> c.offset]
<1>1. Len(Stream[r]) \in Nat
  BY Constants
<1>2. c \in Cache /\ Len(c.table) = Len(c.pages) /\ c.offset <= Len(Stream[r])
  BY DEF CacheOK
<1>. QED
  BY <1>1, <1>2 DEF Cache

\* The offset of a cache whose last page is sealed, and of one whose last page can grow.
LEMMA OffsetIs ==
  ASSUME NEW p, PoolOK(p), NEW c, NEW r \in Requests, NEW l, CacheOK(p, c, r, l)
  PROVE  /\ c.pages \in Seq(Places) /\ Len(c.pages) \in Nat /\ c.offset \in Nat
         /\ c.table \in Seq([at : Places, count : Nat]) /\ Len(c.table) = Len(c.pages)
         /\ LastSealed(p, c) => /\ c.offset = PageTokens * Len(c.pages)
                                /\ \A i \in 1 .. Len(c.pages) : p.page[c.pages[i]].sealed
         /\ ~LastSealed(p, c) =>
               /\ c.pages # <<>> /\ Last(c.pages) \in Live(p) /\ ~p.page[Last(c.pages)].sealed
               /\ Last(c.pages) = c.pages[Len(c.pages)] /\ Len(c.pages) \in Nat \ {0}
               /\ c.offset = PageTokens * (Len(c.pages) - 1) + Len(p.page[Last(c.pages)].data)
               /\ Len(p.page[Last(c.pages)].data) \in 1 .. (PageTokens - 1)
<1>. DEFINE n == Len(c.pages)
            at == Last(c.pages)
<1>1. /\ c.pages \in Seq(Places) /\ n \in Nat /\ c.offset \in Nat
      /\ c.table \in Seq([at : Places, count : Nat]) /\ Len(c.table) = Len(c.pages)
  BY DEF CacheOK, Cache
<1>2. PageTokens \in Nat \ {0}
  BY Constants
<1>3. CASE c.pages = <<>>
  <2>1. c.offset = 0 /\ n = 0
    BY <1>3 DEF CacheOK
  <2>2. PageTokens * 0 = 0
    BY <1>2
  <2>. QED
    BY <1>1, <1>3, <2>1, <2>2 DEF LastSealed
<1>4. CASE c.pages # <<>>
  <2>1. n \in Nat \ {0} /\ n \in 1 .. n /\ at = c.pages[n]
    <3>1. n \in Nat \ {0}
      BY <1>1, <1>4, EmptySeq
    <3>. QED
      BY <3>1 DEF Last
  <2>2. /\ c.offset = PageTokens * (n - 1) + Len(p.page[at].data) /\ at \in Live(p)
        /\ \A i \in 1 .. n : i < n => p.page[c.pages[i]].sealed
    BY <1>4, <2>1 DEF CacheOK
  <2>3. /\ Len(p.page[at].data) \in 1 .. PageTokens
        /\ p.page[at].sealed = (Len(p.page[at].data) = PageTokens)
    BY <2>2 DEF PoolOK, BlockOK
  <2>4. LastSealed(p, c) <=> p.page[at].sealed
    BY <1>4 DEF LastSealed
  <2>5. PageTokens * (n - 1) + PageTokens = PageTokens * n
    BY <1>2, <2>1
  <2>6. ASSUME LastSealed(p, c)
        PROVE  c.offset = PageTokens * n /\ \A i \in 1 .. n : p.page[c.pages[i]].sealed
    <3>1. c.offset = PageTokens * n
      BY <2>2, <2>3, <2>4, <2>5, <2>6
    <3>2. \A i \in 1 .. n : p.page[c.pages[i]].sealed
      <4>. TAKE i \in 1 .. n
      <4>1. CASE i = n
        BY <2>1, <2>4, <2>6, <4>1
      <4>2. CASE i < n
        BY <2>2, <4>2
      <4>. QED
        BY <1>1, <4>1, <4>2
    <3>. QED
      BY <3>1, <3>2
  <2>7. ASSUME ~LastSealed(p, c)
        PROVE  ~p.page[at].sealed /\ Len(p.page[at].data) \in 1 .. (PageTokens - 1)
    <3>1. ~p.page[at].sealed /\ Len(p.page[at].data) # PageTokens
      BY <2>3, <2>4, <2>7
    <3>. QED
      BY <1>2, <2>3, <3>1
  <2>. QED
    BY <1>1, <1>4, <2>1, <2>2, <2>6, <2>7
<1>. QED
  BY <1>3, <1>4

\* The cache without its last page.
Shorter(c) ==
    [pages |-> Front(c.pages), table |-> Front(c.table), offset |-> PageTokens * (Len(c.pages) - 1)]
LEMMA ShorterIs ==
  ASSUME NEW p, PoolOK(p), NEW c, NEW r \in Requests, NEW l, CacheOK(p, c, r, l), c.pages # <<>>
  PROVE  /\ CacheOK(p, Shorter(c), r, l)
         /\ \A i \in 1 .. Len(Shorter(c).pages) : p.page[Shorter(c).pages[i]].sealed
<1>. DEFINE n == Len(c.pages)
            d == Shorter(c)
<1>1. /\ c.pages \in Seq(Places) /\ c.table \in Seq([at : Places, count : Nat]) /\ Len(c.table) = n
      /\ c.offset \in Nat /\ PageTokens \in Nat \ {0} /\ c.offset <= Len(Stream[r]) /\ Len(Stream[r]) \in Nat
  BY Constants, CacheTyped
<1>2. /\ Front(c.pages) \in Seq(Places) /\ Len(Front(c.pages)) = n - 1 /\ n \in Nat \ {0}
      /\ \A i \in 1 .. (n - 1) : Front(c.pages)[i] = c.pages[i]
  BY <1>1, FrontIs
<1>3. c.table # <<>>
  BY <1>1, <1>2
<1>4. /\ Front(c.table) \in Seq([at : Places, count : Nat]) /\ Len(Front(c.table)) = n - 1
      /\ \A i \in 1 .. (n - 1) : Front(c.table)[i] = c.table[i]
  BY <1>1, <1>3, FrontIs
<1>5. ASSUME NEW i \in 1 .. (n - 1)
      PROVE  /\ c.pages[i] \in Live(p) /\ p.page[c.pages[i]].layer = l
             /\ c.table[i] = Row(p, c.pages[i]) /\ p.page[c.pages[i]].sealed
             /\ Holds(p, c.pages[i], Stream[r], i)
             /\ Len(p.page[c.pages[i]].data) = PageTokens
  <2>1. i \in 1 .. n /\ i < n
    BY <1>2
  <2>2. /\ c.pages[i] \in Live(p) /\ p.page[c.pages[i]].layer = l
        /\ c.table[i] = Row(p, c.pages[i]) /\ p.page[c.pages[i]].sealed
        /\ Holds(p, c.pages[i], Stream[r], i)
    BY <2>1 DEF CacheOK
  <2>3. p.page[c.pages[i]].sealed = (Len(p.page[c.pages[i]].data) = PageTokens)
    BY <2>2 DEF PoolOK, BlockOK
  <2>. QED
    BY <2>2, <2>3
<1>6. d.pages = Front(c.pages) /\ d.table = Front(c.table) /\ d.offset = PageTokens * (n - 1)
  BY DEF Shorter
<1>7. PageTokens * (n - 1) \in Nat /\ PageTokens * (n - 1) <= c.offset
  <2>1. n \in 1 .. n /\ c.pages[n] \in Live(p)
    BY <1>2 DEF CacheOK
  <2>2. Len(p.page[c.pages[n]].data) \in Nat
    BY <2>1 DEF PoolOK, BlockOK
  <2>3. c.offset = PageTokens * (n - 1) + Len(p.page[c.pages[n]].data)
    BY DEF CacheOK
  <2>4. PageTokens * (n - 1) \in Nat
    BY <1>1, <1>2
  <2>. QED
    BY <2>2, <2>3, <2>4
<1>8. d \in Cache
  <2>1. d = [pages |-> d.pages, table |-> d.table, offset |-> d.offset]
    BY DEF Shorter
  <2>. HIDE DEF d
  <2>. QED
    BY <1>2, <1>4, <1>6, <1>7, <2>1 DEF Cache
<1>. HIDE DEF d
<1>9. d.offset = IF d.pages = <<>> THEN 0
                 ELSE PageTokens * (Len(d.pages) - 1) + Len(p.page[d.pages[Len(d.pages)]].data)
  <2>1. CASE n = 1
    <3>1. d.pages = <<>> /\ PageTokens * (n - 1) = 0
      BY <1>1, <1>2, <1>6, <2>1
    <3>. QED
      BY <1>6, <3>1
  <2>2. CASE n # 1
    <3>1. n - 1 \in 1 .. (n - 1) /\ d.pages # <<>> /\ Len(d.pages) = n - 1 /\ d.pages[n - 1] = c.pages[n - 1]
      <4>1. Len(d.pages) = n - 1 /\ n - 1 \in 1 .. (n - 1)
        <5>1. n - 1 \in 1 .. (n - 1)
          <6>. HIDE DEF n
          <6>. QED
            BY <1>2, <2>2
        <5>2. d.pages = Front(c.pages)
          BY <1>6
        <5>. QED
          BY <1>2, <5>1, <5>2
      <4>2. d.pages # <<>>
        BY <1>2, <2>2, <4>1
      <4>. QED
        BY <1>2, <1>6, <4>1, <4>2
    <3>2. Len(p.page[d.pages[n - 1]].data) = PageTokens
      BY <1>5, <3>1
    <3>3. PageTokens * (n - 1) = PageTokens * (n - 1 - 1) + PageTokens
      BY <1>1, <1>2
    <3>. QED
      BY <1>6, <3>1, <3>2, <3>3
  <2>. QED
    BY <2>1, <2>2
<1>10. CacheOK(p, d, r, l)
  <2>1. Len(d.pages) = n - 1 /\ Len(d.table) = Len(d.pages)
    BY <1>2, <1>4, <1>6
  <2>2. \A i \in 1 .. Len(d.pages) :
           /\ d.pages[i] \in Live(p) /\ p.page[d.pages[i]].layer = l
           /\ d.table[i] = Row(p, d.pages[i])
           /\ i < Len(d.pages) => p.page[d.pages[i]].sealed
           /\ Holds(p, d.pages[i], Stream[r], i)
    BY <1>2, <1>4, <1>5, <1>6, <2>1
  <2>3. d.offset <= Len(Stream[r])
    BY <1>1, <1>6, <1>7
  <2>. QED
    BY <1>8, <1>9, <2>1, <2>2, <2>3 DEF CacheOK
<1>. QED
  BY <1>2, <1>5, <1>6, <1>10 DEF d

\* The cache with one more page.
Longer(c, q, at) ==
    [pages |-> Append(c.pages, at), table |-> Append(c.table, Row(q, at)),
     offset |-> PageTokens * Len(c.pages) + Len(q.page[at].data)]
LEMMA LongerIs ==
  ASSUME NEW p, NEW q, PoolOK(p), PoolOK(q), NEW c, NEW r \in Requests, NEW l, CacheOK(p, c, r, l),
         \A i \in 1 .. Len(c.pages) : p.page[c.pages[i]].sealed /\ Same(p, q, c.pages[i]),
         NEW at \in Live(q), q.page[at].layer = l,
         \A j \in 1 .. Len(q.page[at].data) :
             q.page[at].data[j] = Stream[r][PageTokens * Len(c.pages) + j],
         PageTokens * Len(c.pages) + Len(q.page[at].data) <= Len(Stream[r])
  PROVE  CacheOK(q, Longer(c, q, at), r, l)
<1>. DEFINE n == Len(c.pages)
            d == Longer(c, q, at)
<1>1. /\ c.pages \in Seq(Places) /\ c.table \in Seq([at : Places, count : Nat]) /\ Len(c.table) = n
      /\ n \in Nat /\ PageTokens \in Nat \ {0}
  BY Constants DEF CacheOK, Cache
<1>2. at \in Places /\ Len(q.page[at].data) \in Nat
  BY DEF PoolOK, BlockOK
<1>3. Row(q, at) \in [at : Places, count : Nat]
  BY <1>2 DEF Row
<1>4. d.pages = Append(c.pages, at) /\ d.table = Append(c.table, Row(q, at))
      /\ d.offset = PageTokens * n + Len(q.page[at].data)
  BY DEF Longer
<1>5. /\ d.pages \in Seq(Places) /\ Len(d.pages) = n + 1 /\ d.pages[n + 1] = at
      /\ \A i \in 1 .. n : d.pages[i] = c.pages[i]
  BY <1>1, <1>2, <1>4, AppendProperties
<1>6. /\ d.table \in Seq([at : Places, count : Nat]) /\ Len(d.table) = n + 1 /\ d.table[n + 1] = Row(q, at)
      /\ \A i \in 1 .. n : d.table[i] = c.table[i]
  BY <1>1, <1>3, <1>4, AppendProperties
<1>7. PageTokens * n \in Nat /\ PageTokens * n + Len(q.page[at].data) \in Nat
  <2>. HIDE DEF n
  <2>1. PageTokens * n \in Nat
    BY <1>1
  <2>. QED
    BY <1>2, <2>1
<1>8. d \in Cache
  <2>1. d = [pages |-> d.pages, table |-> d.table, offset |-> d.offset]
    BY DEF Longer
  <2>. HIDE DEF d
  <2>. QED
    BY <1>4, <1>5, <1>6, <1>7, <2>1 DEF Cache
<1>. HIDE DEF d
<1>9. ASSUME NEW i \in 1 .. n
      PROVE  /\ c.pages[i] \in Live(q) /\ q.page[c.pages[i]].layer = l
             /\ c.table[i] = Row(q, c.pages[i]) /\ q.page[c.pages[i]].sealed
             /\ Holds(q, c.pages[i], Stream[r], i)
  <2>1. /\ p.page[c.pages[i]].layer = l /\ c.table[i] = Row(p, c.pages[i])
        /\ Holds(p, c.pages[i], Stream[r], i)
    BY DEF CacheOK
  <2>2. Same(p, q, c.pages[i]) /\ p.page[c.pages[i]].sealed
    OBVIOUS
  <2>. QED
    BY <2>1, <2>2 DEF Same, Row, Holds
<1>10. Holds(q, at, Stream[r], n + 1)
  <2>1. n + 1 - 1 = n
    BY <1>1
  <2>. QED
    BY <2>1 DEF Holds
<1>11. ASSUME NEW i \in 1 .. (n + 1)
      PROVE  /\ d.pages[i] \in Live(q) /\ q.page[d.pages[i]].layer = l
             /\ d.table[i] = Row(q, d.pages[i])
             /\ i < n + 1 => q.page[d.pages[i]].sealed
             /\ Holds(q, d.pages[i], Stream[r], i)
  <2>1. CASE i \in 1 .. n
    BY <1>5, <1>6, <1>9, <2>1
  <2>2. CASE i = n + 1
    BY <1>1, <1>5, <1>6, <1>10, <2>2
  <2>. QED
    BY <1>1, <2>1, <2>2
<1>12. d.offset = IF d.pages = <<>> THEN 0
                 ELSE PageTokens * (Len(d.pages) - 1) + Len(q.page[d.pages[Len(d.pages)]].data)
  <2>1. d.pages # <<>> /\ n + 1 - 1 = n
    BY <1>1, <1>5
  <2>. QED
    BY <1>4, <1>5, <2>1
<1>13. CacheOK(q, d, r, l)
  BY <1>4, <1>5, <1>6, <1>8, <1>11, <1>12 DEF CacheOK
<1>. QED
  BY <1>13 DEF d

-----------------------------------------------------------------------------
(* A page that is written, and the one cache it belongs to.                *)

\* The cache x becomes c, which has the page at behind the others.
Rewritten(p, q, ix, C, E, x, c, at) ==
    /\ x \in DOMAIN C /\ DOMAIN E = DOMAIN C /\ E[x] = c
    /\ \A z \in DOMAIN C \ {x} : E[z] = C[z]
    /\ Live(q) = Live(p) \cup {at} /\ \A y \in Live(p) \ {at} : q.page[y] = p.page[y]
    /\ q.page[at].refs = 1 /\ q.page[at].pins = 0
    /\ at \notin Stored(ix) /\ \A u \in Uses(PagesIn(C), at) : u[1] = x
    /\ c.pages # <<>> /\ c.pages[Len(c.pages)] = at
    /\ \A i \in 1 .. Len(c.pages) : c.pages[i] = at => i = Len(c.pages)
    /\ \A i : \A y \in Places \ {at} :
          (i \in 1 .. Len(C[x].pages) /\ C[x].pages[i] = y) <=> (i \in 1 .. Len(c.pages) /\ c.pages[i] = y)

\* One cache gives up its last place for a page that it alone has.
LEMMA RewrittenSound ==
  ASSUME NEW p, NEW q, NEW ix, NEW C, NEW E, NEW x, NEW c, NEW at,
         Sound(p, ix, C), Rewritten(p, q, ix, C, E, x, c, at), PoolOK(q), CacheOK(q, c, x[2], x[3])
  PROVE  Sound(q, ix, E)
<1>1. /\ Named(C) /\ PoolOK(p) /\ CachesOK(p, C) /\ IndexOK(p, ix) /\ Counted(p, ix, C)
      /\ Alone(p, ix, C)
  BY DEF Sound
<1>2. /\ x \in DOMAIN C /\ DOMAIN E = DOMAIN C /\ E[x] = c /\ \A z \in DOMAIN C \ {x} : E[z] = C[z]
      /\ Live(q) = Live(p) \cup {at} /\ \A y \in Live(p) \ {at} : q.page[y] = p.page[y]
      /\ q.page[at].refs = 1 /\ q.page[at].pins = 0
      /\ at \notin Stored(ix) /\ \A u \in Uses(PagesIn(C), at) : u[1] = x
      /\ c.pages # <<>> /\ c.pages[Len(c.pages)] = at
      /\ \A i \in 1 .. Len(c.pages) : c.pages[i] = at => i = Len(c.pages)
  BY DEF Rewritten
<1>3. ASSUME NEW i, NEW y \in Places \ {at}
      PROVE  (i \in 1 .. Len(C[x].pages) /\ C[x].pages[i] = y) <=> (i \in 1 .. Len(c.pages) /\ c.pages[i] = y)
  BY DEF Rewritten
<1>4. Named(E)
  BY <1>1, <1>2 DEF Named
<1>5. \A y \in Live(p) \ {at} : Same(p, q, y)
  BY <1>2 DEF Same
<1>6. ASSUME NEW z \in DOMAIN E PROVE CacheOK(q, E[z], z[2], z[3])
  <2>1. CASE z = x
    BY <1>2, <2>1
  <2>2. CASE z # x
    <3>1. CacheOK(p, C[z], z[2], z[3]) /\ E[z] = C[z] /\ z \in DOMAIN C
      BY <1>1, <1>2, <2>2 DEF CachesOK
    <3>2. ASSUME NEW i \in 1 .. Len(C[z].pages) PROVE Same(p, q, C[z].pages[i])
      <4>1. C[z].pages[i] \in Live(p)
        BY <3>1 DEF CacheOK
      <4>2. C[z].pages[i] # at
        <5>1. SUFFICES ASSUME C[z].pages[i] = at PROVE FALSE
          OBVIOUS
        <5>2. PagesIn(C)[z] = C[z].pages /\ z \in DOMAIN PagesIn(C)
          BY <3>1 DEF PagesIn
        <5>3. i \in DOMAIN PagesIn(C)[z]
          BY <1>1, <3>1, <5>2, HeldIs
        <5>4. <<z, i>> \in Uses(PagesIn(C), at)
          BY <5>1, <5>2, <5>3, UsesIs
        <5>. QED
          BY <1>2, <2>2, <5>4
      <4>. QED
        BY <1>5, <4>1, <4>2
    <3>. QED
      BY <3>1, <3>2, CacheKept
  <2>. QED
    BY <2>1, <2>2
<1>7. CachesOK(q, E)
  BY <1>6 DEF CachesOK
<1>8. IndexOK(q, ix)
  <2>1. \A y \in Stored(ix) : Same(p, q, y)
    BY <1>1, <1>2, <1>5, IndexTouches
  <2>. QED
    BY <1>1, <2>1, IndexKept
<1>9. /\ c.pages \in Seq(Places) /\ C[x].pages \in Seq(Places)
      /\ DOMAIN c.pages = 1 .. Len(c.pages) /\ DOMAIN C[x].pages = 1 .. Len(C[x].pages)
      /\ Len(c.pages) \in Nat \ {0}
  <2>1. c.pages \in Seq(Places) /\ C[x].pages \in Seq(Places)
    BY <1>1, <1>2, <1>4, <1>7, HeldIs
  <2>. QED
    BY <1>2, <2>1, EmptySeq
<1>10. /\ DOMAIN PagesIn(C) = DOMAIN C /\ DOMAIN PagesIn(E) = DOMAIN C
       /\ PagesIn(C)[x] = C[x].pages /\ PagesIn(E)[x] = c.pages
       /\ \A z \in DOMAIN C \ {x} : PagesIn(E)[z] = PagesIn(C)[z]
  BY <1>2 DEF PagesIn
<1>11. ASSUME NEW y \in Places \ {at} PROVE Uses(PagesIn(E), y) = Uses(PagesIn(C), y)
  <2>1. ASSUME NEW u \in Uses(PagesIn(E), y) PROVE u \in Uses(PagesIn(C), y)
    <3>1. u = <<u[1], u[2]>> /\ u[1] \in DOMAIN C /\ u[2] \in DOMAIN PagesIn(E)[u[1]]
          /\ PagesIn(E)[u[1]][u[2]] = y
      BY <1>10, UsesIs
    <3>2. u[2] \in DOMAIN PagesIn(C)[u[1]] /\ PagesIn(C)[u[1]][u[2]] = y
      <4>1. CASE u[1] = x
        <5>1. u[2] \in 1 .. Len(c.pages) /\ c.pages[u[2]] = y
          BY <1>9, <1>10, <3>1, <4>1
        <5>2. u[2] \in 1 .. Len(C[x].pages) /\ C[x].pages[u[2]] = y
          BY <1>3, <5>1
        <5>. QED
          BY <1>9, <1>10, <4>1, <5>2
      <4>2. CASE u[1] # x
        BY <1>10, <3>1, <4>2
      <4>. QED
        BY <4>1, <4>2
    <3>3. <<u[1], u[2]>> \in Uses(PagesIn(C), y)
      BY <1>10, <3>1, <3>2, UsesIs
    <3>. QED
      BY <3>1, <3>3
  <2>2. ASSUME NEW u \in Uses(PagesIn(C), y) PROVE u \in Uses(PagesIn(E), y)
    <3>1. u = <<u[1], u[2]>> /\ u[1] \in DOMAIN C /\ u[2] \in DOMAIN PagesIn(C)[u[1]]
          /\ PagesIn(C)[u[1]][u[2]] = y
      BY <1>10, UsesIs
    <3>2. u[2] \in DOMAIN PagesIn(E)[u[1]] /\ PagesIn(E)[u[1]][u[2]] = y
      <4>1. CASE u[1] = x
        <5>1. u[2] \in 1 .. Len(C[x].pages) /\ C[x].pages[u[2]] = y
          BY <1>9, <1>10, <3>1, <4>1
        <5>2. u[2] \in 1 .. Len(c.pages) /\ c.pages[u[2]] = y
          BY <1>3, <5>1
        <5>. QED
          BY <1>9, <1>10, <4>1, <5>2
      <4>2. CASE u[1] # x
        BY <1>10, <3>1, <4>2
      <4>. QED
        BY <4>1, <4>2
    <3>3. <<u[1], u[2]>> \in Uses(PagesIn(E), y)
      BY <1>10, <3>1, <3>2, UsesIs
    <3>. QED
      BY <3>1, <3>3
  <2>. QED
    BY <2>1, <2>2
<1>12. Uses(PagesIn(E), at) = {<<x, Len(c.pages)>>}
  <2>1. <<x, Len(c.pages)>> \in Uses(PagesIn(E), at)
    <3>1. Len(c.pages) \in DOMAIN PagesIn(E)[x] /\ PagesIn(E)[x][Len(c.pages)] = at /\ x \in DOMAIN PagesIn(E)
      BY <1>2, <1>9, <1>10
    <3>. QED
      BY <3>1, UsesIs
  <2>2. ASSUME NEW u \in Uses(PagesIn(E), at) PROVE u = <<x, Len(c.pages)>>
    <3>1. u = <<u[1], u[2]>> /\ u[1] \in DOMAIN C /\ u[2] \in DOMAIN PagesIn(E)[u[1]]
          /\ PagesIn(E)[u[1]][u[2]] = at
      BY <1>10, UsesIs
    <3>2. u[1] = x
      <4>1. SUFFICES ASSUME u[1] # x PROVE FALSE
        OBVIOUS
      <4>2. u[2] \in DOMAIN PagesIn(C)[u[1]] /\ PagesIn(C)[u[1]][u[2]] = at
        BY <1>10, <3>1, <4>1
      <4>3. <<u[1], u[2]>> \in Uses(PagesIn(C), at)
        BY <1>10, <3>1, <4>2, UsesIs
      <4>4. u \in Uses(PagesIn(C), at)
        BY <3>1, <4>3
      <4>. QED
        BY <1>2, <4>1, <4>4
    <3>3. u[2] = Len(c.pages)
      BY <1>2, <1>9, <1>10, <3>1, <3>2
    <3>. QED
      BY <3>1, <3>2, <3>3
  <2>. QED
    BY <2>1, <2>2
<1>13. Refs(E, at) = 1 /\ \A y \in Places \ {at} : Refs(E, y) = Refs(C, y)
  <2>1. Refs(E, at) = 1
    BY <1>12, FS_Singleton DEF Refs, Count
  <2>. QED
    BY <1>11, <2>1 DEF Refs, Count
<1>14. \A y \in Live(q) \ {at} : y \in Live(p) /\ y \in Places \ {at}
  BY <1>1, <1>2 DEF PoolOK
<1>15. Counted(q, ix, E)
  <2>. SUFFICES ASSUME NEW y \in Live(q)
                PROVE  /\ q.page[y].refs = Refs(E, y) /\ q.page[y].pins = Pins(ix, y)
                       /\ Refs(E, y) + Pins(ix, y) > 0
    BY DEF Counted
  <2>1. CASE y = at
    <3>1. Pins(ix, at) = 0 /\ Refs(E, at) = 1
      BY <1>2, <1>13 DEF Pins
    <3>. QED
      BY <1>2, <2>1, <3>1
  <2>2. CASE y # at
    BY <1>1, <1>2, <1>13, <1>14, <2>2 DEF Counted
  <2>. QED
    BY <2>1, <2>2
<1>16. Alone(q, ix, E)
  <2>. SUFFICES ASSUME NEW y \in Live(q), ~q.page[y].sealed
                PROVE  y \notin Stored(ix) /\ \A u, v \in Uses(PagesIn(E), y) : u = v
    BY DEF Alone
  <2>1. CASE y = at
    BY <1>2, <1>12, <2>1
  <2>2. CASE y # at
    <3>1. y \in Live(p) /\ y \in Places \ {at} /\ ~p.page[y].sealed
      BY <1>2, <1>14, <2>2
    <3>2. Uses(PagesIn(E), y) = Uses(PagesIn(C), y)
      BY <1>11, <3>1
    <3>. QED
      BY <1>1, <3>1, <3>2 DEF Alone
  <2>. QED
    BY <2>1, <2>2
<1>. QED
  BY <1>4, <1>7, <1>8, <1>15, <1>16 DEF Sound

-----------------------------------------------------------------------------
(* Allocation.                                                             *)

\* A vacant slot is in its segment and has no page.
LEMMA VacantIs ==
  ASSUME NEW p, NEW s, Vacant(p, s) # {}
  PROVE  Min(Vacant(p, s)) \in 1 .. SegmentPages /\ <<s, Min(Vacant(p, s))>> \notin Live(p)
<1>1. Vacant(p, s) \in SUBSET Nat
  BY Constants DEF Vacant
<1>2. Min(Vacant(p, s)) \in Vacant(p, s)
  BY <1>1, MinIs
<1>. QED
  BY <1>2 DEF Vacant

\* What allocate answers: a new page, and at most one new segment.
Fresh(p, a, l, data) ==
    /\ a.at \in Places /\ a.at \notin Live(p)
    /\ a.pool.page = [x \in Live(p) \cup {a.at} |-> IF x = a.at THEN Block(l, data) ELSE p.page[x]]
    /\ a.pool.seg \in [Segments -> Layers \cup {None}] /\ a.pool.seg[a.at[1]] = l
    /\ \A x \in Live(p) : a.pool.seg[x[1]] = p.page[x].layer
    /\ Physical(a.pool) <= Physical(p) + SegmentPages

\* The room that the segments take is a number.
LEMMA PhysicalIs ==
  ASSUME NEW p
  PROVE  Physical(p) \in Nat /\ IsFiniteSet(Segments \ Unused(p)) /\ Cardinality(Segments \ Unused(p)) \in Nat
<1>1. IsFiniteSet(Segments \ Unused(p))
  BY Constants, FS_Difference
<1>2. Cardinality(Segments \ Unused(p)) \in Nat
  BY <1>1, FS_CardinalityType
<1>. DEFINE n == Cardinality(Segments \ Unused(p))
<1>. HIDE DEF n
<1>3. SegmentPages * n \in Nat
  BY <1>2, Constants DEF n
<1>. QED
  BY <1>1, <1>2, <1>3 DEF Physical, n

\* What placing a page in a segment changes.
LEMMA PlacedIs ==
  ASSUME NEW p, PoolOK(p), NEW l \in Layers, NEW data, NEW s \in Segments, Vacant(p, s) # {},
         p.seg[s] = l \/ p.seg[s] = None
  PROVE  LET a == Placed(p, l, s, data)
         IN  /\ a.at \in Places /\ a.at \notin Live(p)
             /\ a.pool.page = [x \in Live(p) \cup {a.at} |-> IF x = a.at THEN Block(l, data) ELSE p.page[x]]
             /\ a.pool.seg \in [Segments -> Layers \cup {None}] /\ a.pool.seg[a.at[1]] = l
             /\ \A x \in Live(p) : a.pool.seg[x[1]] = p.page[x].layer
             /\ Physical(a.pool) = Physical(p) + (IF p.seg[s] = l THEN 0 ELSE SegmentPages)
<1>. DEFINE a == Placed(p, l, s, data)
            at == <<s, Min(Vacant(p, s))>>
<1>1. /\ a.at = at /\ a.pool.seg = [p.seg EXCEPT ![s] = l]
      /\ a.pool.page = [x \in Live(p) \cup {at} |-> IF x = at THEN Block(l, data) ELSE p.page[x]]
  BY DEF Placed
<1>2. at \in Places /\ at \notin Live(p) /\ at[1] = s
  BY VacantIs DEF Places
<1>. HIDE DEF a, at
<1>3. p.seg \in [Segments -> Layers \cup {None}] /\ l # None
  BY Constants DEF PoolOK
<1>4. a.pool.seg \in [Segments -> Layers \cup {None}] /\ a.pool.seg[s] = l
      /\ \A o \in Segments \ {s} : a.pool.seg[o] = p.seg[o]
  BY <1>1, <1>3
<1>5. ASSUME NEW x \in Live(p) PROVE a.pool.seg[x[1]] = p.page[x].layer
  <2>1. x[1] \in Segments /\ p.seg[x[1]] = p.page[x].layer /\ p.page[x].layer \in Layers
    BY DEF PoolOK, BlockOK, Places
  <2>2. CASE x[1] = s
    <3>1. p.seg[s] # None
      BY <2>1, <2>2, Constants
    <3>. QED
      BY <1>4, <2>1, <2>2, <3>1
  <2>3. CASE x[1] # s
    BY <1>4, <2>1, <2>3
  <2>. QED
    BY <2>2, <2>3
<1>6. Physical(a.pool) = Physical(p) + (IF p.seg[s] = l THEN 0 ELSE SegmentPages)
  <2>. DEFINE used == Segments \ Unused(p)
  <2>1. Segments \ Unused(a.pool) = used \cup {s}
    BY <1>3, <1>4 DEF Unused
  <2>2. IsFiniteSet(used) /\ Cardinality(used) \in Nat /\ SegmentPages \in Nat
    BY PhysicalIs, Constants
  <2>3. s \in used <=> p.seg[s] = l
    BY <1>3 DEF Unused
  <2>4. Physical(p) = SegmentPages * Cardinality(used)
        /\ Physical(a.pool) = SegmentPages * Cardinality(used \cup {s})
    BY <2>1 DEF Physical
  <2>. HIDE DEF used
  <2>5. Cardinality(used \cup {s}) = IF p.seg[s] = l THEN Cardinality(used) ELSE Cardinality(used) + 1
    BY <2>2, <2>3, FS_AddElement
  <2>. DEFINE n == Cardinality(used)
  <2>. HIDE DEF n
  <2>6. SegmentPages * (n + 1) = SegmentPages * n + SegmentPages /\ SegmentPages * n \in Nat
    BY <2>2 DEF n
  <2>. QED
    BY <2>2, <2>4, <2>5, <2>6 DEF n
<1>. QED
  BY <1>1, <1>2, <1>4, <1>5, <1>6 DEF a

\* What allocate returns, and when it finds room.
LEMMA AllocatedIs ==
  ASSUME NEW p, NEW ix, NEW C, Sound(p, ix, C), NEW l \in Layers, NEW data
  PROVE  /\ \A a \in Allocated(p, l, data) : Fresh(p, a, l, data)
         /\ Physical(p) + SegmentPages <= Capacity => Allocated(p, l, data) # {}
<1>. DEFINE partial == {s \in Segments : p.seg[s] = l /\ Vacant(p, s) # {}}
            q == DiscardFree(p)
            s == Min(Unused(q))
<1>1. PoolOK(p) /\ PoolOK(q) /\ Live(q) = Live(p) /\ Physical(q) <= Physical(p)
  BY DiscardSound DEF Sound
<1>2. q.page = p.page
  BY DEF DiscardFree
<1>. HIDE DEF q
<1>3. /\ Physical(p) \in Nat /\ Physical(q) \in Nat /\ SegmentPages \in Nat \ {0} /\ Capacity \in Nat
      /\ Capacity <= SegmentPages * Cardinality(Segments)
      /\ IsFiniteSet(Segments \ Unused(q)) /\ Cardinality(Segments \ Unused(q)) \in Nat
      /\ IsFiniteSet(Segments) /\ Cardinality(Segments) \in Nat
  BY PhysicalIs, Constants
<1>4. ASSUME Physical(q) + SegmentPages <= Capacity
      PROVE  s \in Segments /\ q.seg[s] = None /\ Vacant(q, s) # {}
  <2>1. Unused(q) # {}
    <3>1. SUFFICES ASSUME Unused(q) = {} PROVE FALSE
      OBVIOUS
    <3>2. Segments \ Unused(q) = Segments
      BY <3>1
    <3>3. Physical(q) = SegmentPages * Cardinality(Segments)
      BY <3>2 DEF Physical
    <3>. QED
      BY <1>3, <1>4, <3>3
  <2>2. s \in Unused(q)
    <3>1. Unused(q) \in SUBSET Nat
      BY Constants DEF Unused
    <3>. QED
      BY <2>1, <3>1, MinIs
  <2>. HIDE DEF s
  <2>3. s \in Segments /\ q.seg[s] = None
    BY <2>2 DEF Unused
  <2>4. <<s, 1>> \notin Live(q)
    <3>1. SUFFICES ASSUME <<s, 1>> \in Live(q) PROVE FALSE
      OBVIOUS
    <3>2. q.seg[s] \in Layers
      BY <1>1, <3>1 DEF PoolOK, BlockOK
    <3>. QED
      BY <2>3, <3>2, Constants
  <2>5. 1 \in Vacant(q, s)
    BY <1>3, <2>4 DEF Vacant
  <2>. QED
    BY <2>3, <2>5
<1>5. ASSUME NEW t \in partial PROVE Fresh(p, Placed(p, l, t, data), l, data)
  <2>. DEFINE a == Placed(p, l, t, data)
  <2>1. t \in Segments /\ p.seg[t] = l /\ Vacant(p, t) # {}
    OBVIOUS
  <2>2. /\ a.at \in Places /\ a.at \notin Live(p)
        /\ a.pool.page = [x \in Live(p) \cup {a.at} |-> IF x = a.at THEN Block(l, data) ELSE p.page[x]]
        /\ a.pool.seg \in [Segments -> Layers \cup {None}] /\ a.pool.seg[a.at[1]] = l
        /\ \A x \in Live(p) : a.pool.seg[x[1]] = p.page[x].layer
        /\ Physical(a.pool) = Physical(p) + (IF p.seg[t] = l THEN 0 ELSE SegmentPages)
    BY <1>1, <2>1, PlacedIs
  <2>. HIDE DEF a
  <2>3. Physical(a.pool) <= Physical(p) + SegmentPages
    BY <1>3, <2>1, <2>2
  <2>4. Fresh(p, a, l, data)
    BY <2>2, <2>3 DEF Fresh
  <2>. QED
    BY <2>4 DEF a
<1>6. ASSUME Physical(q) + SegmentPages <= Capacity PROVE Fresh(p, Placed(q, l, s, data), l, data)
  <2>. DEFINE a == Placed(q, l, s, data)
  <2>1. s \in Segments /\ q.seg[s] = None /\ Vacant(q, s) # {} /\ l # None
    BY <1>4, <1>6, Constants
  <2>. HIDE DEF s
  <2>2. /\ a.at \in Places /\ a.at \notin Live(q)
        /\ a.pool.page = [x \in Live(q) \cup {a.at} |-> IF x = a.at THEN Block(l, data) ELSE q.page[x]]
        /\ a.pool.seg \in [Segments -> Layers \cup {None}] /\ a.pool.seg[a.at[1]] = l
        /\ \A x \in Live(q) : a.pool.seg[x[1]] = q.page[x].layer
        /\ Physical(a.pool) = Physical(q) + (IF q.seg[s] = l THEN 0 ELSE SegmentPages)
    BY <1>1, <2>1, PlacedIs
  <2>. HIDE DEF a
  <2>3. Physical(a.pool) <= Physical(p) + SegmentPages
    BY <1>1, <1>3, <2>1, <2>2
  <2>4. Fresh(p, a, l, data)
    BY <1>1, <1>2, <2>2, <2>3 DEF Fresh
  <2>. QED
    BY <2>4 DEF a
<1>7. Allocated(p, l, data) =
        IF partial # {} THEN {Placed(p, l, t, data) : t \in partial}
        ELSE IF Physical(q) + SegmentPages > Capacity THEN {} ELSE {Placed(q, l, s, data)}
  BY DEF Allocated, q
<1>. HIDE DEF s
<1>8. CASE partial # {}
  BY <1>5, <1>7, <1>8
<1>9. CASE partial = {}
  <2>1. CASE Physical(q) + SegmentPages > Capacity
    <3>1. Allocated(p, l, data) = {}
      BY <1>7, <1>9, <2>1
    <3>2. ~(Physical(p) + SegmentPages <= Capacity)
      BY <1>1, <1>3, <2>1
    <3>. QED
      BY <3>1, <3>2
  <2>2. CASE ~(Physical(q) + SegmentPages > Capacity)
    <3>1. Allocated(p, l, data) = {Placed(q, l, s, data)}
      BY <1>7, <1>9, <2>2
    <3>2. Physical(q) + SegmentPages <= Capacity
      BY <1>3, <2>2
    <3>. QED
      BY <1>6, <3>1, <3>2
  <2>. QED
    BY <2>1, <2>2
<1>. QED
  BY <1>8, <1>9

\* Page at comes new behind the pages of x.
LEMMA NewRewritten ==
  ASSUME NEW p, NEW ix, NEW C, Sound(p, ix, C), NEW q, NEW x \in DOMAIN C, NEW at \in Places,
         at \notin Live(p), Live(q) = Live(p) \cup {at}, \A y \in Live(p) \ {at} : q.page[y] = p.page[y],
         q.page[at].refs = 1, q.page[at].pins = 0,
         NEW c, c.pages = Append(C[x].pages, at),
         NEW E, DOMAIN E = DOMAIN C, E[x] = c, \A z \in DOMAIN C \ {x} : E[z] = C[z]
  PROVE  Rewritten(p, q, ix, C, E, x, c, at)
<1>1. Named(C) /\ CachesOK(p, C) /\ IndexOK(p, ix)
  BY DEF Sound
<1>2. at \notin Stored(ix)
  BY <1>1, IndexTouches
<1>3. C[x].pages \in Seq(Places) /\ \A i \in 1 .. Len(C[x].pages) : C[x].pages[i] \in Live(p)
  BY <1>1, HeldIs
<1>. DEFINE n == Len(C[x].pages)
<1>4. /\ Len(c.pages) = n + 1 /\ n \in Nat /\ c.pages[n + 1] = at /\ c.pages # <<>>
      /\ \A i \in 1 .. n : c.pages[i] = C[x].pages[i]
  BY <1>3, AppendProperties
<1>5. \A u \in Uses(PagesIn(C), at) : u[1] = x
  <2>. SUFFICES ASSUME NEW u \in Uses(PagesIn(C), at) PROVE FALSE
    OBVIOUS
  <2>1. u[1] \in DOMAIN C /\ u[2] \in 1 .. Len(C[u[1]].pages) /\ C[u[1]].pages[u[2]] = at
    BY <1>1, HeldIs
  <2>2. C[u[1]].pages[u[2]] \in Live(p)
    BY <1>1, <2>1, HeldIs
  <2>. QED
    BY <2>1, <2>2
<1>. HIDE DEF n
<1>6. ASSUME NEW i \in 1 .. Len(c.pages), c.pages[i] = at PROVE i = Len(c.pages)
  <2>1. i \in 1 .. n => c.pages[i] # at
    BY <1>3, <1>4 DEF n
  <2>. QED
    BY <1>4, <1>6, <2>1
<1>7. ASSUME NEW i, NEW y \in Places \ {at}
      PROVE  (i \in 1 .. n /\ C[x].pages[i] = y) <=> (i \in 1 .. Len(c.pages) /\ c.pages[i] = y)
  <2>1. i \in 1 .. Len(c.pages) <=> i \in 1 .. n \/ i = n + 1
    BY <1>4
  <2>. QED
    BY <1>4, <2>1
<1>. QED
  BY <1>2, <1>4, <1>5, <1>6, <1>7 DEF Rewritten, n

\* Page at is the last of x, which can be written.
LEMMA OldRewritten ==
  ASSUME NEW p, NEW ix, NEW C, Sound(p, ix, C), NEW q, NEW x \in DOMAIN C, ~LastSealed(p, C[x]),
         NEW at, at = Last(C[x].pages),
         Live(q) = Live(p), \A y \in Live(p) \ {at} : q.page[y] = p.page[y],
         q.page[at].refs = p.page[at].refs, q.page[at].pins = p.page[at].pins,
         NEW c, c.pages = Append(Front(C[x].pages), at),
         NEW E, DOMAIN E = DOMAIN C, E[x] = c, \A z \in DOMAIN C \ {x} : E[z] = C[z]
  PROVE  Rewritten(p, q, ix, C, E, x, c, at)
<1>1. /\ Named(C) /\ CachesOK(p, C) /\ IndexOK(p, ix) /\ PoolOK(p) /\ Counted(p, ix, C)
      /\ Alone(p, ix, C)
  BY DEF Sound
<1>2. x[2] \in Requests /\ CacheOK(p, C[x], x[2], x[3])
  BY <1>1 DEF Named, CachesOK
<1>. DEFINE n == Len(C[x].pages)
<1>3. /\ C[x].pages \in Seq(Places) /\ C[x].pages # <<>> /\ at \in Live(p) /\ ~p.page[at].sealed
      /\ at = C[x].pages[n] /\ n \in Nat \ {0}
  BY <1>1, <1>2, OffsetIs
<1>4. /\ Front(C[x].pages) \in Seq(Places) /\ Len(Front(C[x].pages)) = n - 1
      /\ \A i \in 1 .. (n - 1) : Front(C[x].pages)[i] = C[x].pages[i]
  BY <1>3, FrontIs
<1>5. at \in Places
  BY <1>1, <1>3 DEF PoolOK
<1>. HIDE DEF n
<1>6. /\ Len(c.pages) = n /\ c.pages[n] = at /\ c.pages # <<>> /\ DOMAIN C[x].pages = 1 .. n
      /\ \A i \in 1 .. (n - 1) : c.pages[i] = C[x].pages[i]
  <2>1. /\ Len(c.pages) = n - 1 + 1 /\ c.pages # <<>> /\ c.pages[n - 1 + 1] = at
        /\ \A i \in 1 .. (n - 1) : c.pages[i] = Front(C[x].pages)[i]
    <3>. DEFINE f == Front(C[x].pages)
    <3>1. f \in Seq(Places) /\ Len(f) = n - 1 /\ c.pages = Append(f, at)
      BY <1>4
    <3>. HIDE DEF f
    <3>2. Append(f, at) \in Seq(Places) /\ Len(Append(f, at)) = Len(f) + 1
          /\ Append(f, at)[Len(f) + 1] = at /\ Append(f, at) # <<>>
          /\ \A i \in 1 .. Len(f) : Append(f, at)[i] = f[i]
      BY <1>5, <3>1, AppendProperties
    <3>. QED
      BY <3>1, <3>2 DEF f
  <2>2. n - 1 + 1 = n
    BY <1>3
  <2>3. DOMAIN C[x].pages = 1 .. n
    BY <1>3 DEF n
  <2>. QED
    BY <1>4, <2>1, <2>2, <2>3
<1>7. \A i \in 1 .. n : c.pages[i] = C[x].pages[i]
  <2>. TAKE i \in 1 .. n
  <2>1. CASE i = n
    BY <1>3, <1>6, <2>1
  <2>2. CASE i \in 1 .. (n - 1)
    BY <1>6, <2>2
  <2>3. i = n \/ i \in 1 .. (n - 1)
    BY <1>3
  <2>. QED
    BY <2>1, <2>2, <2>3
<1>8. \A i \in 1 .. n : C[x].pages[i] = at => <<x, i>> \in Uses(PagesIn(C), at)
  <2>1. PagesIn(C)[x] = C[x].pages /\ x \in DOMAIN PagesIn(C)
    BY DEF PagesIn
  <2>. QED
    BY <1>6, <2>1, UsesIs
<1>9. at \notin Stored(ix) /\ \A u, v \in Uses(PagesIn(C), at) : u = v
  BY <1>1, <1>3 DEF Alone
<1>10. <<x, n>> \in Uses(PagesIn(C), at)
  <2>1. n \in 1 .. n
    BY <1>3
  <2>. QED
    BY <1>3, <1>8, <2>1
<1>11. Uses(PagesIn(C), at) = {<<x, n>>}
  BY <1>9, <1>10
<1>12. p.page[at].refs = 1 /\ p.page[at].pins = 0
  <2>1. Refs(C, at) = 1
    BY <1>11, FS_Singleton DEF Refs, Count
  <2>2. Pins(ix, at) = 0
    BY <1>9 DEF Pins
  <2>. QED
    BY <1>1, <1>3, <2>1, <2>2 DEF Counted
<1>13. \A i \in 1 .. n : c.pages[i] = at => i = n
  <2>. SUFFICES ASSUME NEW i \in 1 .. n, c.pages[i] = at PROVE i = n
    OBVIOUS
  <2>1. <<x, i>> = <<x, n>>
    BY <1>7, <1>8, <1>11
  <2>. QED
    BY <2>1
<1>14. \A u \in Uses(PagesIn(C), at) : u[1] = x
  BY <1>11
<1>15. Live(q) = Live(p) \cup {at}
  BY <1>3
<1>. QED
  BY <1>6, <1>7, <1>9, <1>12, <1>13, <1>14, <1>15 DEF Rewritten, n

-----------------------------------------------------------------------------
(* Clones.                                                                 *)

\* C with one more cache.
Extended(C, E, y, c) ==
    /\ y \notin DOMAIN C /\ DOMAIN E = DOMAIN C \cup {y} /\ E[y] = c
    /\ \A z \in DOMAIN C : E[z] = C[z]
    /\ E = [z \in DOMAIN E |-> E[z]]

\* acquire changes counts, and no more.
LEMMA AcquiredIs ==
  ASSUME NEW p, PoolOK(p), NEW L
  PROVE  /\ Live(Acquired(p, L)) = Live(p) /\ Physical(Acquired(p, L)) = Physical(p)
         /\ \A at \in Live(p) : Same(p, Acquired(p, L), at)
<1>. DEFINE w == [at \in Live(p) |-> [p.page[at] EXCEPT !.refs = @ + Count(L, at)]]
            q == Acquired(p, L)
<1>1. q.page = w /\ q.seg = p.seg
  BY DEF Acquired, WithPages
<1>2. DOMAIN w = Live(p) /\ \A at \in Live(p) : w[at].data = p.page[at].data
        /\ w[at].sealed = p.page[at].sealed /\ w[at].layer = p.page[at].layer
  <2>1. \A at \in Live(p) : p.page[at] \in Blocks
    BY DEF PoolOK, BlockOK, Blocks
  <2>2. ASSUME NEW at \in Live(p)
        PROVE  LET d == [p.page[at] EXCEPT !.refs = @ + Count(L, at)]
               IN  d.data = p.page[at].data /\ d.sealed = p.page[at].sealed /\ d.layer = p.page[at].layer
    BY <2>1 DEF Blocks
  <2>. QED
    BY <2>2
<1>. HIDE DEF w, q
<1>3. Live(q) = Live(p)
  BY <1>1, <1>2 DEF Live
<1>4. Physical(q) = Physical(p)
  BY <1>1 DEF Physical, Unused
<1>5. \A at \in Live(p) : Same(p, q, at)
  BY <1>1, <1>2, <1>3 DEF Same
<1>. QED
  BY <1>3, <1>4, <1>5 DEF q

\* A cache comes with acquired, sealed pages.
LEMMA OneMore ==
  ASSUME NEW p, NEW ix, NEW C, Sound(p, ix, C), NEW E, NEW y, NEW c, Extended(C, E, y, c),
         y[2] \in Requests, y[3] \in Layers, CacheOK(p, c, y[2], y[3]),
         \A i \in 1 .. Len(c.pages) : p.page[c.pages[i]].sealed
  PROVE  Sound(Acquired(p, <<c.pages>>), ix, E)
<1>. DEFINE L == <<c.pages>>
            f == [z \in {y} |-> 1]
<1>1. DOMAIN E \ DOMAIN C = {y} /\ DOMAIN C \subseteq DOMAIN E /\ E[y] = c
      /\ \A z \in DOMAIN C : E[z] = C[z]
  BY DEF Extended
<1>2. DOMAIN L = {1} /\ L[1] = c.pages
  OBVIOUS
<1>3. f \in Bijection({y}, {1}) /\ f[y] = 1
  BY DEF Bijection, Injection, Surjection, IsInjective
<1>4. Named(C)
  BY DEF Sound
<1>5. IsFiniteSet(DOMAIN E)
  BY <1>4, FS_AddElement DEF Named, Extended
<1>6. Named(E)
  BY <1>4, <1>5 DEF Named, Extended
<1>. HIDE DEF L, f
<1>7. f \in Bijection(DOMAIN E \ DOMAIN C, DOMAIN L)
  BY <1>1, <1>2, <1>3
<1>8. \A z \in DOMAIN E \ DOMAIN C :
         /\ CacheOK(p, E[z], z[2], z[3])
         /\ \A i \in 1 .. Len(E[z].pages) : p.page[E[z].pages[i]].sealed
  BY <1>1
<1>9. \A z \in DOMAIN E \ DOMAIN C : L[f[z]] = E[z].pages
  BY <1>1, <1>2, <1>3
<1>10. Sound(Acquired(p, L), ix, E)
  BY <1>1, <1>6, <1>7, <1>8, <1>9, AddedSound
<1>. QED
  BY <1>10 DEF L

\* A page is written; nothing else changes.
LEMMA WrittenPool ==
  ASSUME NEW p, PoolOK(p), NEW q, NEW at \in Places, q.seg \in [Segments -> Layers \cup {None}],
         Live(q) = Live(p) \cup {at},
         \A y \in Live(p) \ {at} : q.page[y] = p.page[y] /\ q.seg[y[1]] = p.page[y].layer,
         q.page[at] \in Blocks, Len(q.page[at].data) \in 1 .. PageTokens,
         q.page[at].sealed = (Len(q.page[at].data) = PageTokens),
         q.seg[at[1]] = q.page[at].layer
  PROVE  PoolOK(q) /\ \A y \in Live(p) \ {at} : Same(p, q, y)
<1>1. Live(q) \subseteq Places
  BY DEF PoolOK
<1>2. BlockOK(q, at)
  BY DEF BlockOK, Blocks
<1>3. ASSUME NEW y \in Live(p) \ {at} PROVE BlockOK(q, y)
  <2>1. BlockOK(p, y) /\ q.page[y] = p.page[y] /\ q.seg[y[1]] = p.page[y].layer
    BY <1>3 DEF PoolOK
  <2>. QED
    BY <2>1 DEF BlockOK
<1>4. \A y \in Live(q) : BlockOK(q, y)
  BY <1>2, <1>3
<1>. QED
  BY <1>1, <1>4 DEF PoolOK, Same

\* A clone of a cache with a mutable tail.
LEMMA CopyIs ==
  ASSUME NEW p, NEW ix, NEW C, Sound(p, ix, C), NEW x \in DOMAIN C, ~LastSealed(p, C[x]),
         NEW y, y[2] = x[2], y[3] = x[3], y \notin DOMAIN C,
         NEW a \in Allocated(Acquired(p, <<Front(C[x].pages)>>), x[3], p.page[Last(C[x].pages)].data),
         NEW E, NEW d, Extended(C, E, y, d), d = Longer(Shorter(C[x]), a.pool, a.at)
  PROVE  /\ Sound(a.pool, ix, E) /\ Physical(a.pool) <= Physical(p) + SegmentPages
         /\ Len(a.pool.page[a.at].data) = Len(p.page[Last(C[x].pages)].data)
         /\ \A at \in Live(p) : Same(p, a.pool, at)
<1>. DEFINE c == C[x]
            r == x[2]
            l == x[3]
            s == Shorter(c)
            p1 == Acquired(p, <<s.pages>>)
            q == a.pool
            E1 == [z \in DOMAIN E |-> IF z = y THEN s ELSE C[z]]
            last == Last(c.pages)
            data == p.page[last].data
            n == Len(c.pages)
<1>1. Named(C) /\ PoolOK(p) /\ CachesOK(p, C)
  BY DEF Sound
<1>2. r \in Requests /\ l \in Layers /\ CacheOK(p, c, r, l)
  BY <1>1 DEF Named, CachesOK
<1>3. /\ c.pages # <<>> /\ last \in Live(p) /\ last = c.pages[n] /\ n \in Nat \ {0}
      /\ Len(data) \in 1 .. (PageTokens - 1) /\ c.offset = PageTokens * (n - 1) + Len(data)
      /\ c.pages \in Seq(Places)
  BY <1>1, <1>2, OffsetIs
<1>4. CacheOK(p, s, r, l) /\ \A i \in 1 .. Len(s.pages) : p.page[s.pages[i]].sealed
  BY <1>1, <1>2, <1>3, ShorterIs
<1>5. s.pages = Front(c.pages) /\ Len(s.pages) = n - 1
  BY <1>3, FrontIs DEF Shorter
<1>6. Extended(C, E1, y, s)
  BY DEF Extended
<1>. HIDE DEF s, E1
<1>7. Sound(p1, ix, E1)
  BY <1>2, <1>4, <1>6, OneMore
<1>8. Live(p1) = Live(p) /\ Physical(p1) = Physical(p) /\ \A at \in Live(p) : Same(p, p1, at)
  BY <1>1, AcquiredIs
<1>. HIDE DEF p1
<1>9. Fresh(p1, a, l, data)
  BY <1>2, <1>5, <1>7, AllocatedIs DEF p1
<1>. HIDE DEF c, r, l, last, data, n
<1>10. /\ a.at \in Places /\ a.at \notin Live(p1)
       /\ q.page = [z \in Live(p1) \cup {a.at} |-> IF z = a.at THEN Block(l, data) ELSE p1.page[z]]
       /\ q.seg \in [Segments -> Layers \cup {None}] /\ q.seg[a.at[1]] = l
       /\ \A z \in Live(p1) : q.seg[z[1]] = p1.page[z].layer
       /\ Physical(q) <= Physical(p1) + SegmentPages
  BY <1>9 DEF Fresh
<1>. HIDE DEF q
<1>11. /\ Live(q) = Live(p1) \cup {a.at} /\ q.page[a.at] = Block(l, data)
       /\ \A z \in Live(p1) \ {a.at} : q.page[z] = p1.page[z]
  BY <1>10 DEF Live
<1>12. data \in Seq(Vocabulary)
  BY <1>1, <1>3 DEF PoolOK, BlockOK, data
<1>13. /\ q.page[a.at] \in Blocks /\ q.page[a.at].data = data /\ q.page[a.at].layer = l
       /\ q.page[a.at].sealed = FALSE /\ q.page[a.at].refs = 1 /\ q.page[a.at].pins = 0
  BY <1>2, <1>11, <1>12 DEF Block, Blocks
<1>14. PoolOK(p1)
  BY <1>7 DEF Sound
<1>15. PoolOK(q) /\ \A z \in Live(p1) : Same(p1, q, z)
  <2>1. Len(data) \in 1 .. PageTokens /\ Len(data) # PageTokens
    BY <1>3, Constants
  <2>2. \A z \in Live(p1) \ {a.at} : q.page[z] = p1.page[z] /\ q.seg[z[1]] = p1.page[z].layer
    BY <1>10, <1>11
  <2>3. PoolOK(q) /\ \A z \in Live(p1) \ {a.at} : Same(p1, q, z)
    BY <1>10, <1>11, <1>13, <1>14, <2>1, <2>2, WrittenPool
  <2>. QED
    BY <1>10, <2>3
<1>16. \A z \in Live(p) : Same(p, q, z)
  BY <1>8, <1>15 DEF Same
<1>17. CacheOK(q, d, r, l)
  <2>1. \A i \in 1 .. Len(s.pages) : p.page[s.pages[i]].sealed /\ Same(p, q, s.pages[i])
    <3>1. \A i \in 1 .. Len(s.pages) : s.pages[i] \in Live(p)
      BY <1>4 DEF CacheOK
    <3>. QED
      BY <1>4, <1>16, <3>1
  <2>2. Holds(p, last, Stream[r], n)
    <3>1. n \in 1 .. Len(c.pages)
      BY <1>3 DEF n
    <3>. QED
      BY <1>2, <1>3, <3>1 DEF CacheOK
  <2>3. \A j \in 1 .. Len(q.page[a.at].data) :
            q.page[a.at].data[j] = Stream[r][PageTokens * Len(s.pages) + j]
    BY <1>5, <1>13, <2>2 DEF Holds, data
  <2>4. PageTokens * Len(s.pages) + Len(q.page[a.at].data) <= Len(Stream[r])
    <3>1. c.offset <= Len(Stream[r])
      BY <1>2 DEF CacheOK
    <3>. QED
      BY <1>3, <1>5, <1>13, <3>1
  <2>5. a.at \in Live(q)
    BY <1>11
  <2>6. CacheOK(q, Longer(s, q, a.at), r, l)
    BY <1>1, <1>2, <1>4, <1>13, <1>15, <2>1, <2>3, <2>4, <2>5, LongerIs
  <2>. QED
    BY <2>6 DEF s, c, q
<1>18. Rewritten(p1, q, ix, E1, E, y, d, a.at)
  <2>1. y \in DOMAIN E1 /\ E1[y] = s /\ DOMAIN E = DOMAIN E1 /\ E[y] = d
        /\ \A z \in DOMAIN E1 \ {y} : E[z] = E1[z]
    BY <1>6 DEF Extended
  <2>2. d.pages = Append(E1[y].pages, a.at)
    BY <2>1 DEF Longer, s, c
  <2>. QED
    BY <1>7, <1>10, <1>11, <1>13, <2>1, <2>2, NewRewritten
<1>19. Sound(q, ix, E)
  <2>1. CacheOK(q, d, y[2], y[3])
    BY <1>17 DEF r, l
  <2>. QED
    BY <1>7, <1>15, <1>18, <2>1, RewrittenSound
<1>. QED
  BY <1>8, <1>10, <1>13, <1>16, <1>19 DEF q, data, last, c

\* What cloning leaves behind, and at what cost.
Copied(p, ix, c, a, E) ==
    /\ Sound(a.pool, ix, E) /\ a.cache.offset = c.offset
    /\ Physical(a.pool) <= Physical(p) + (IF LastSealed(p, c) THEN 0 ELSE SegmentPages)
    /\ \A at \in Live(p) : Same(p, a.pool, at)
LEMMA ClonedSound ==
  ASSUME NEW p, NEW ix, NEW C, Sound(p, ix, C), NEW x \in DOMAIN C,
         NEW y, y[2] = x[2], y[3] = x[3], y \notin DOMAIN C,
         NEW a \in Cloned(p, C[x], x[3]), NEW E, Extended(C, E, y, a.cache)
  PROVE  Copied(p, ix, C[x], a, E)
<1>. DEFINE c == C[x]
            r == x[2]
            l == x[3]
<1>1. Named(C) /\ PoolOK(p) /\ CachesOK(p, C)
  BY DEF Sound
<1>2. r \in Requests /\ l \in Layers /\ CacheOK(p, c, r, l)
  BY <1>1 DEF Named, CachesOK
<1>3. Physical(p) \in Nat
  BY PhysicalIs
<1>4. CASE LastSealed(p, c)
  <2>1. a.pool = Acquired(p, <<c.pages>>) /\ a.cache = c
    BY <1>4 DEF Cloned
  <2>2. \A i \in 1 .. Len(c.pages) : p.page[c.pages[i]].sealed
    BY <1>1, <1>2, <1>4, OffsetIs
  <2>3. Sound(Acquired(p, <<c.pages>>), ix, E)
    BY <1>2, <2>1, <2>2, OneMore
  <2>4. Physical(a.pool) <= Physical(p) + 0
    BY <1>1, <1>3, <2>1, AcquiredIs
  <2>. QED
    BY <1>1, <1>4, <2>1, <2>3, <2>4, AcquiredIs DEF Copied
<1>5. CASE ~LastSealed(p, c)
  <2>. DEFINE last == Last(c.pages)
  <2>1. PICK b \in Allocated(Acquired(p, <<Front(c.pages)>>), l, p.page[last].data) :
             /\ a.pool = b.pool
             /\ a.cache = [c EXCEPT !.pages = Append(Front(c.pages), b.at),
                                    !.table = Append(Front(c.table), Row(b.pool, b.at))]
    <3>. DEFINE A == Allocated(Acquired(p, <<Front(c.pages)>>), l, p.page[last].data)
                K(b) == [c EXCEPT !.pages = Append(Front(c.pages), b.at),
                                  !.table = Append(Front(c.table), Row(b.pool, b.at))]
    <3>1. Cloned(p, c, l) = {[pool |-> b.pool, cache |-> K(b)] : b \in A}
      BY <1>5 DEF Cloned
    <3>. HIDE DEF A, K
    <3>2. \E b \in A : a.pool = b.pool /\ a.cache = K(b)
      BY <3>1
    <3>. QED
      BY <3>2 DEF A, K
  <2>2. /\ Len(c.pages) \in Nat /\ c.offset = PageTokens * (Len(c.pages) - 1) + Len(p.page[last].data)
        /\ c.pages \in Seq(Places) /\ c.pages # <<>>
    BY <1>1, <1>2, <1>5, OffsetIs
  <2>3. c = [pages |-> c.pages, table |-> c.table, offset |-> c.offset]
    BY <1>2, CacheTyped
  <2>4. a.cache = [pages |-> Append(Front(c.pages), b.at), table |-> Append(Front(c.table), Row(b.pool, b.at)),
                   offset |-> c.offset]
    <3>. DEFINE f == Append(Front(c.pages), b.at)
                g == Append(Front(c.table), Row(b.pool, b.at))
    <3>1. a.cache = [c EXCEPT !.pages = f, !.table = g]
      BY <2>1
    <3>. HIDE DEF f, g
    <3>2. a.cache = [pages |-> f, table |-> g, offset |-> c.offset]
      BY <2>3, <3>1
    <3>. QED
      BY <3>2 DEF f, g
  <2>5. Len(Front(c.pages)) = Len(c.pages) - 1
    BY <2>2, FrontIs
  <2>. DEFINE d == Longer(Shorter(c), b.pool, b.at)
              F == [z \in DOMAIN E |-> IF z = y THEN d ELSE C[z]]
  <2>6. d = [pages |-> Append(Front(c.pages), b.at), table |-> Append(Front(c.table), Row(b.pool, b.at)),
             offset |-> PageTokens * (Len(c.pages) - 1) + Len(b.pool.page[b.at].data)]
    BY <2>5 DEF Longer, Shorter
  <2>7. Extended(C, F, y, d)
    BY DEF Extended
  <2>. HIDE DEF d, F
  <2>8. /\ Sound(b.pool, ix, F) /\ Physical(b.pool) <= Physical(p) + SegmentPages
        /\ Len(b.pool.page[b.at].data) = Len(p.page[last].data)
        /\ \A at \in Live(p) : Same(p, b.pool, at)
    BY <1>5, <2>7, CopyIs DEF d
  <2>9. d = a.cache
    BY <2>2, <2>4, <2>6, <2>8
  <2>10. Named(F) /\ Named(C)
    BY <1>1, <2>8 DEF Sound
  <2>11. E = F
    <3>1. DOMAIN E = DOMAIN C \cup {y} /\ E[y] = a.cache /\ \A z \in DOMAIN C : E[z] = C[z]
      BY DEF Extended
    <3>2. E = [z \in DOMAIN E |-> E[z]]
      BY DEF Extended
    <3>3. F = [z \in DOMAIN E |-> E[z]]
      BY <2>9, <3>1 DEF F
    <3>. QED
      BY <3>2, <3>3
  <2>. QED
    BY <1>5, <2>1, <2>4, <2>8, <2>11 DEF Copied
<1>. QED
  BY <1>4, <1>5

-----------------------------------------------------------------------------
(* Appending.                                                              *)

\* The entries of t stand in s behind the first n.
Adds(s, n, t, w) == \A j \in 1 .. w : s[n + j] = t[j]

\* The written page, and how many of the tokens it took.
Grown(b, d, tokens, w) ==
    /\ w \in 1 .. Len(tokens) /\ Len(d.data) = Len(b.data) + w /\ Len(d.data) \in 1 .. PageTokens
    /\ \A j \in 1 .. Len(b.data) : d.data[j] = b.data[j]
    /\ Adds(d.data, Len(b.data), tokens, w)
    /\ d \in Blocks /\ d.sealed = (Len(d.data) = PageTokens)
    /\ d.layer = b.layer /\ d.refs = b.refs /\ d.pins = b.pins

\* The lesser of two positive numbers.
LEMMA WidthIs ==
  ASSUME NEW m \in Nat \ {0}, NEW n \in Nat \ {0}
  PROVE  /\ Min({m, n}) \in Nat \ {0} /\ Min({m, n}) <= m /\ Min({m, n}) <= n
<1>1. {m, n} \in SUBSET Nat /\ {m, n} # {}
  OBVIOUS
<1>2. Min({m, n}) \in {m, n} /\ \A t \in {m, n} : Min({m, n}) <= t
  BY <1>1, MinIs
<1>. QED
  BY <1>2

\* What a turn of append's loop makes of page a.at and the cache c.
Rest(b, list) == IF b.data = <<>> THEN list ELSE Front(list)
Wrote(a, c, tokens, f, w) ==
    LET b == a.pool.page[a.at]
        q == f.pool
    IN  /\ q.seg = a.pool.seg /\ Live(q) = Live(a.pool)
        /\ \A y \in Live(q) \ {a.at} : q.page[y] = a.pool.page[y]
        /\ Grown(b, q.page[a.at], tokens, w)
        /\ f.cache = [pages |-> Append(Rest(b, c.pages), a.at),
                      table |-> Append(Rest(b, c.table), Row(q, a.at)), offset |-> c.offset + w]
LEMMA FilledIs ==
  ASSUME NEW a, NEW c, NEW tokens \in Seq(Vocabulary), tokens # <<>>, a.at \in Live(a.pool),
         a.pool.page[a.at] \in Blocks, Len(a.pool.page[a.at].data) \in 0 .. (PageTokens - 1)
  PROVE  \E w \in 1 .. Len(tokens) : Wrote(a, c, tokens, Filled(a, c, tokens), w)
<1>. DEFINE b == a.pool.page[a.at]
            n == Len(b.data)
            width == Min({PageTokens - n, Len(tokens)})
            sub == SubSeq(tokens, 1, width)
            grown == b.data \o sub
            d == [b EXCEPT !.data = grown, !.sealed = (Len(grown) = PageTokens)]
            q == WithPages(a.pool, [a.pool.page EXCEPT ![a.at] = d])
            f == Filled(a, c, tokens)
<1>1. f = [pool |-> q, cache |-> [pages |-> Append(Rest(b, c.pages), a.at),
                                  table |-> Append(Rest(b, c.table), Row(q, a.at)),
                                  offset |-> c.offset + width]]
  BY DEF Filled, Rest
<1>2. b \in Blocks /\ b.data \in Seq(Vocabulary) /\ n \in 0 .. (PageTokens - 1) /\ PageTokens \in Nat \ {0}
      /\ Len(tokens) \in Nat \ {0}
  BY Constants, EmptySeq DEF Blocks
<1>. HIDE DEF n
<1>3. PageTokens - n \in Nat \ {0} /\ n \in Nat
  BY <1>2
<1>4. width \in 1 .. Len(tokens) /\ width <= PageTokens - n /\ width \in Nat \ {0}
  <2>1. width \in Nat \ {0} /\ width <= PageTokens - n /\ width <= Len(tokens)
    BY <1>2, <1>3, WidthIs
  <2>. HIDE DEF width
  <2>. QED
    BY <1>2, <2>1
<1>. HIDE DEF width
<1>5. sub \in Seq(Vocabulary) /\ Len(sub) = width /\ \A j \in 1 .. width : sub[j] = tokens[j]
  <2>1. 1 \in Nat \ {0} /\ width \in Nat /\ width <= Len(tokens) /\ 1 <= width + 1 /\ width - 1 + 1 = width
        /\ \A j \in 1 .. width : 1 + j - 1 = j
    BY <1>2, <1>4
  <2>2. /\ sub \in Seq(Vocabulary) /\ Len(sub) = width - 1 + 1
        /\ \A j \in 1 .. (width - 1 + 1) : sub[j] = tokens[1 + j - 1]
    BY <2>1, SubIs
  <2>. HIDE DEF sub
  <2>. QED
    BY <2>1, <2>2
<1>. HIDE DEF sub
<1>6. /\ grown \in Seq(Vocabulary) /\ Len(grown) = n + width
      /\ \A j \in 1 .. n : grown[j] = b.data[j]
      /\ Adds(grown, n, tokens, width)
  <2>. DEFINE s == b.data
  <2>1. s \in Seq(Vocabulary) /\ Len(s) = n
    BY <1>2 DEF n
  <2>. HIDE DEF s
  <2>2. /\ s \o sub \in Seq(Vocabulary) /\ Len(s \o sub) = n + width
        /\ \A j \in 1 .. n : (s \o sub)[j] = s[j]
    BY <1>3, <1>4, <1>5, <2>1
  <2>3. ASSUME NEW j \in 1 .. width PROVE (s \o sub)[n + j] = tokens[j]
    <3>1. n + j \in 1 .. (n + width) /\ n + j > n /\ n + j - n = j
      BY <1>3, <1>4
    <3>2. (s \o sub)[n + j] = sub[j]
      BY <1>3, <1>4, <1>5, <2>1, <3>1
    <3>. QED
      BY <1>5, <3>2
  <2>4. Adds(s \o sub, n, tokens, width)
    BY <2>3 DEF Adds
  <2>. QED
    BY <2>2, <2>4 DEF s
<1>. HIDE DEF grown
<1>7. d \in Blocks /\ d.data = grown /\ d.sealed = (Len(grown) = PageTokens)
      /\ d.layer = b.layer /\ d.refs = b.refs /\ d.pins = b.pins
  BY <1>2, <1>6 DEF Blocks
<1>. HIDE DEF d
<1>8. Len(grown) \in 1 .. PageTokens
  BY <1>2, <1>3, <1>4, <1>6
<1>9. Grown(b, d, tokens, width)
  BY <1>4, <1>6, <1>7, <1>8 DEF Grown, n
<1>10. q.page = [a.pool.page EXCEPT ![a.at] = d] /\ q.seg = a.pool.seg
  BY DEF WithPages
<1>. HIDE DEF q
<1>11. Live(q) = Live(a.pool) /\ q.page[a.at] = d
       /\ \A y \in Live(q) \ {a.at} : q.page[y] = a.pool.page[y]
  BY <1>10 DEF Live
<1>12. f.pool = q /\ f.cache = [pages |-> Append(Rest(b, c.pages), a.at),
                                table |-> Append(Rest(b, c.table), Row(q, a.at)),
                                offset |-> c.offset + width]
  BY <1>1
<1>. HIDE DEF f, b
<1>13. Wrote(a, c, tokens, f, width)
  BY <1>9, <1>10, <1>11, <1>12 DEF Wrote, b
<1>. QED
  BY <1>4, <1>13 DEF f

\* Page at can stand behind those of the cache c.
Following(p, q, c, r, l, at) ==
    /\ \A i \in 1 .. Len(c.pages) : p.page[c.pages[i]].sealed /\ Same(p, q, c.pages[i])
    /\ at \in Live(q) /\ q.page[at].layer = l
    /\ \A j \in 1 .. Len(q.page[at].data) :
           q.page[at].data[j] = Stream[r][PageTokens * Len(c.pages) + j]
    /\ PageTokens * Len(c.pages) + Len(q.page[at].data) <= Len(Stream[r])
LEMMA FollowingIs ==
  ASSUME NEW p, NEW q, PoolOK(p), PoolOK(q), NEW c, NEW r \in Requests, NEW l, CacheOK(p, c, r, l),
         NEW at, Following(p, q, c, r, l, at)
  PROVE  CacheOK(q, Longer(c, q, at), r, l)
<1>1. /\ \A i \in 1 .. Len(c.pages) : p.page[c.pages[i]].sealed /\ Same(p, q, c.pages[i])
      /\ at \in Live(q) /\ q.page[at].layer = l
  BY DEF Following
<1>2. \A j \in 1 .. Len(q.page[at].data) :
         q.page[at].data[j] = Stream[r][PageTokens * Len(c.pages) + j]
  BY DEF Following
<1>3. PageTokens * Len(c.pages) + Len(q.page[at].data) <= Len(Stream[r])
  BY DEF Following
<1>. QED
  BY <1>1, <1>2, <1>3, LongerIs

\* The tokens that follow what a cache of request r has.
Due(tokens, c, r) ==
    /\ tokens \in Seq(Vocabulary) /\ tokens # <<>>
    /\ \A j \in 1 .. Len(tokens) : tokens[j] = Stream[r][c.offset + j]
    /\ c.offset + Len(tokens) <= Len(Stream[r])

\* One cache of several changes.
Replacing(C, E, x, c) ==
    /\ x \in DOMAIN C /\ DOMAIN E = DOMAIN C /\ E[x] = c /\ \A z \in DOMAIN C \ {x} : E[z] = C[z]
\* What a turn of append leaves behind.
Lengthened(q, ix, c, d, tokens, E) ==
    /\ Sound(q, ix, E) /\ d.offset \in Nat /\ c.offset < d.offset
    /\ d.offset <= c.offset + Len(tokens)

\* A bound that is widened.
LEMMA Widened ==
  ASSUME NEW k \in Nat, NEW m \in 1 .. (k - 1)
  PROVE  m \in 0 .. (k - 1)
OBVIOUS

\* The place of a token behind the first ones.
LEMMA Beyond ==
  ASSUME NEW m \in Nat, NEW w \in Nat, NEW k \in Nat, w <= k, NEW j \in 1 .. (m + w), j \notin 1 .. m
  PROVE  j - m \in 1 .. w /\ m + (j - m) = j /\ j - m \in 1 .. k /\ j - m \in Nat
OBVIOUS

\* A turn of append.
LEMMA AppendedSound ==
  ASSUME NEW p, NEW ix, NEW C, Sound(p, ix, C), NEW x \in DOMAIN C,
         NEW tokens, Due(tokens, C[x], x[2]),
         NEW a \in Appended(p, C[x], x[3], tokens),
         NEW E, Replacing(C, E, x, a.cache)
  PROVE  Lengthened(a.pool, ix, C[x], a.cache, tokens, E)
<1>. DEFINE c == C[x]
            r == x[2]
            l == x[3]
            n == Len(c.pages)
            q == a.pool
<1>6. DOMAIN E = DOMAIN C /\ E[x] = a.cache /\ \A z \in DOMAIN C \ {x} : E[z] = C[z]
  BY DEF Replacing
<1>. USE <1>6
<1>1. Named(C) /\ PoolOK(p) /\ CachesOK(p, C)
  BY DEF Sound
<1>2. r \in Requests /\ l \in Layers /\ CacheOK(p, c, r, l)
  BY <1>1 DEF Named, CachesOK
<1>0. /\ tokens \in Seq(Vocabulary) /\ tokens # <<>>
      /\ c.offset + Len(tokens) <= Len(Stream[r])
  BY DEF Due
<1>3. /\ c.pages \in Seq(Places) /\ n \in Nat /\ c.offset \in Nat /\ PageTokens \in Nat \ {0}
      /\ Len(Stream[r]) \in Nat /\ Len(tokens) \in Nat \ {0}
  BY <1>0, <1>1, <1>2, OffsetIs, CacheTyped, Constants, EmptySeq
<1>4. CASE LastSealed(p, c)
  <2>1. c.offset = PageTokens * n /\ \A i \in 1 .. n : p.page[c.pages[i]].sealed
    BY <1>1, <1>2, <1>4, OffsetIs
  <2>2. PICK b \in Allocated(p, l, <<>>) : a = Filled(b, c, tokens)
    BY <1>4 DEF Appended
  <2>3. Fresh(p, b, l, <<>>)
    BY <1>2, AllocatedIs
  <2>. DEFINE at == b.at
              m == b.pool
  <2>4. /\ at \in Places /\ at \notin Live(p) /\ Live(m) = Live(p) \cup {at} /\ m.page[at] = Block(l, <<>>)
        /\ \A y \in Live(p) \ {at} : m.page[y] = p.page[y]
        /\ m.seg \in [Segments -> Layers \cup {None}] /\ m.seg[at[1]] = l
        /\ \A y \in Live(p) : m.seg[y[1]] = p.page[y].layer
    <3>1. m.page = [y \in Live(p) \cup {at} |-> IF y = at THEN Block(l, <<>>) ELSE p.page[y]]
      BY <2>3 DEF Fresh
    <3>2. /\ at \in Places /\ at \notin Live(p) /\ m.seg \in [Segments -> Layers \cup {None}]
          /\ m.seg[at[1]] = l /\ \A y \in Live(p) : m.seg[y[1]] = p.page[y].layer
      BY <2>3 DEF Fresh
    <3>. HIDE DEF m, at
    <3>. QED
      BY <3>1, <3>2 DEF Live
  <2>5. /\ m.page[at] \in Blocks /\ m.page[at].data = <<>> /\ m.page[at].layer = l
        /\ m.page[at].refs = 1 /\ m.page[at].pins = 0 /\ Len(m.page[at].data) \in 0 .. (PageTokens - 1)
    BY <1>2, <1>3, <2>4 DEF Block, Blocks
  <2>6. \E w \in 1 .. Len(tokens) : Wrote(b, c, tokens, Filled(b, c, tokens), w)
    BY <1>0, <2>4, <2>5, FilledIs
  <2>7. PICK w \in 1 .. Len(tokens) : Wrote(b, c, tokens, a, w)
    BY <2>2, <2>6
  <2>8. /\ q.seg = m.seg /\ Live(q) = Live(m) /\ \A y \in Live(q) \ {at} : q.page[y] = m.page[y]
        /\ Grown(m.page[at], q.page[at], tokens, w)
        /\ a.cache = [pages |-> Append(Rest(m.page[at], c.pages), at),
                      table |-> Append(Rest(m.page[at], c.table), Row(q, at)), offset |-> c.offset + w]
    BY <2>7 DEF Wrote
  <2>. HIDE DEF at, m, q, c, n
  <2>9. /\ Len(q.page[at].data) = w /\ Len(q.page[at].data) \in 1 .. PageTokens
        /\ \A j \in 1 .. w : q.page[at].data[j] = tokens[j]
        /\ q.page[at] \in Blocks /\ q.page[at].sealed = (Len(q.page[at].data) = PageTokens)
        /\ q.page[at].layer = l /\ q.page[at].refs = 1 /\ q.page[at].pins = 0
    <3>1. Len(m.page[at].data) = 0
      BY <2>5
    <3>2. 0 + w = w /\ \A j \in 1 .. w : 0 + j = j
      OBVIOUS
    <3>. QED
      BY <2>5, <2>8, <3>1, <3>2 DEF Grown, Adds
  <2>10. a.cache = Longer(c, q, at)
    BY <2>1, <2>5, <2>8, <2>9 DEF Rest, Longer, n
  <2>11. /\ Live(q) = Live(p) \cup {at}
         /\ \A y \in Live(p) \ {at} : q.page[y] = p.page[y] /\ q.seg[y[1]] = p.page[y].layer
    BY <2>4, <2>8
  <2>12. PoolOK(q) /\ \A y \in Live(p) \ {at} : Same(p, q, y)
    <3>1. q.seg \in [Segments -> Layers \cup {None}] /\ q.seg[at[1]] = q.page[at].layer
      BY <2>4, <2>8, <2>9
    <3>. QED
      BY <1>1, <2>4, <2>9, <2>11, <3>1, WrittenPool
  <2>13. CacheOK(q, a.cache, r, l)
    <3>1. \A i \in 1 .. Len(c.pages) : p.page[c.pages[i]].sealed /\ Same(p, q, c.pages[i])
      <4>1. \A i \in 1 .. Len(c.pages) : c.pages[i] \in Live(p)
        BY <1>2 DEF CacheOK
      <4>. QED
        BY <2>1, <2>4, <2>12, <4>1 DEF n
    <3>2. \A j \in 1 .. Len(q.page[at].data) : q.page[at].data[j] = Stream[r][PageTokens * Len(c.pages) + j]
      <4>. TAKE j \in 1 .. Len(q.page[at].data)
      <4>1. j \in 1 .. w /\ j \in 1 .. Len(tokens)
        BY <1>3, <2>9
      <4>2. q.page[at].data[j] = tokens[j]
        BY <2>9, <4>1
      <4>3. tokens[j] = Stream[r][c.offset + j]
        BY <4>1 DEF Due, c
      <4>. QED
        BY <2>1, <4>2, <4>3 DEF n
    <3>3. PageTokens * Len(c.pages) + Len(q.page[at].data) <= Len(Stream[r])
      <4>1. c.offset + Len(tokens) <= Len(Stream[r])
        BY <1>0
      <4>. QED
        BY <1>3, <2>1, <2>9, <4>1 DEF n
    <3>4. at \in Live(q)
      BY <2>11
    <3>5. Following(p, q, c, r, l, at)
      BY <2>9, <3>1, <3>2, <3>3, <3>4 DEF Following
    <3>. QED
      BY <1>1, <1>2, <2>10, <2>12, <3>5, FollowingIs DEF c
  <2>14. Rewritten(p, q, ix, C, E, x, a.cache, at)
    <3>1. a.cache.pages = Append(C[x].pages, at)
      BY <2>10 DEF Longer, c
    <3>. QED
      BY <2>4, <2>9, <2>11, <3>1, NewRewritten
  <2>15. Sound(q, ix, E)
    BY <2>12, <2>13, <2>14, RewrittenSound
  <2>16. a.cache.offset = c.offset + w
    BY <2>8
  <2>. QED
    BY <1>3, <2>15, <2>16 DEF q, c, Lengthened
<1>5. CASE ~LastSealed(p, c)
  <2>. DEFINE at == Last(c.pages)
              s == Shorter(c)
              e == PageTokens * (n - 1)
              b == [pool |-> p, at |-> at]
  <2>1. /\ c.pages # <<>> /\ at \in Live(p) /\ ~p.page[at].sealed /\ at = c.pages[n] /\ n \in Nat \ {0}
        /\ c.offset = e + Len(p.page[at].data) /\ Len(p.page[at].data) \in 1 .. (PageTokens - 1)
    BY <1>1, <1>2, <1>5, OffsetIs
  <2>. HIDE DEF e
  <2>2. a = Filled(b, c, tokens)
    BY <1>5 DEF Appended
  <2>3. b.pool = p /\ b.at = at
    OBVIOUS
  <2>4. /\ p.page[at] \in Blocks /\ p.page[at].data \in Seq(Vocabulary) /\ at \in Places
        /\ p.page[at].layer = l /\ Holds(p, at, Stream[r], n)
        /\ p.seg[at[1]] = p.page[at].layer /\ \A y \in Live(p) : p.seg[y[1]] = p.page[y].layer
        /\ p.seg \in [Segments -> Layers \cup {None}]
    <3>1. BlockOK(p, at) /\ at \in Places /\ p.seg \in [Segments -> Layers \cup {None}]
          /\ \A y \in Live(p) : BlockOK(p, y)
      BY <1>1, <2>1 DEF PoolOK
    <3>2. n \in 1 .. Len(c.pages)
      BY <2>1
    <3>3. p.page[at].layer = l /\ Holds(p, at, Stream[r], n)
      BY <1>2, <2>1, <3>2 DEF CacheOK
    <3>. QED
      BY <3>1, <3>3 DEF BlockOK, Blocks
  <2>. HIDE DEF b
  <2>5. Len(p.page[at].data) \in 0 .. (PageTokens - 1)
    BY <2>1, Constants, Widened
  <2>6. \E w \in 1 .. Len(tokens) : Wrote(b, c, tokens, Filled(b, c, tokens), w)
    BY <1>0, <2>1, <2>3, <2>4, <2>5, FilledIs
  <2>7. PICK w \in 1 .. Len(tokens) : Wrote(b, c, tokens, a, w)
    BY <2>2, <2>6
  <2>8. /\ q.seg = p.seg /\ Live(q) = Live(p) /\ \A y \in Live(q) \ {at} : q.page[y] = p.page[y]
        /\ Grown(p.page[at], q.page[at], tokens, w)
        /\ a.cache = [pages |-> Append(Rest(p.page[at], c.pages), at),
                      table |-> Append(Rest(p.page[at], c.table), Row(q, at)), offset |-> c.offset + w]
    BY <2>3, <2>7 DEF Wrote
  <2>. HIDE DEF at, q, c, n, s
  <2>9. p.page[at].data # <<>>
    BY <2>1, <2>4
  <2>10. Len(Front(c.pages)) = n - 1
    BY <1>3, <2>1, FrontIs DEF n
  <2>11. /\ Len(q.page[at].data) = Len(p.page[at].data) + w /\ Len(q.page[at].data) \in 1 .. PageTokens
         /\ \A j \in 1 .. Len(p.page[at].data) : q.page[at].data[j] = p.page[at].data[j]
         /\ Adds(q.page[at].data, Len(p.page[at].data), tokens, w)
         /\ q.page[at] \in Blocks /\ q.page[at].sealed = (Len(q.page[at].data) = PageTokens)
         /\ q.page[at].layer = l /\ q.page[at].refs = p.page[at].refs /\ q.page[at].pins = p.page[at].pins
    BY <2>4, <2>8 DEF Grown
  <2>110. /\ Len(p.page[at].data) \in Nat /\ w \in Nat /\ w <= Len(tokens)
          /\ Len(q.page[at].data) = Len(p.page[at].data) + w /\ c.offset = e + Len(p.page[at].data)
    <3>1. Len(q.page[at].data) = Len(p.page[at].data) + w
      BY <2>11
    <3>2. c.offset = e + Len(p.page[at].data)
      BY <2>1
    <3>3. Len(p.page[at].data) \in 1 .. (PageTokens - 1)
      BY <2>1
    <3>4. Len(p.page[at].data) \in Nat
      BY <1>3, <3>3
    <3>5. w \in Nat /\ w <= Len(tokens)
      BY <1>3
    <3>. QED
      BY <3>1, <3>2, <3>4, <3>5
  <2>12. e \in Nat
    <3>1. PageTokens * (n - 1) \in Nat
      <4>1. n - 1 \in Nat
        BY <2>1
      <4>. QED
        BY <1>3, <4>1
    <3>. QED
      BY <3>1 DEF e
  <2>13. a.cache = Longer(s, q, at)
    <3>1. c.offset + w = e + Len(q.page[at].data)
      <4>. DEFINE m == Len(p.page[at].data)
      <4>1. m \in Nat /\ c.offset = e + m /\ Len(q.page[at].data) = m + w /\ w \in Nat
        BY <2>110
      <4>. HIDE DEF m
      <4>. QED
        BY <2>12, <4>1
    <3>2. Longer(s, q, at) = [pages |-> Append(Front(c.pages), at), table |-> Append(Front(c.table), Row(q, at)),
                              offset |-> e + Len(q.page[at].data)]
      BY <2>10 DEF Longer, Shorter, s, e
    <3>. QED
      BY <2>8, <2>9, <3>1, <3>2 DEF Rest
  <2>14. /\ Live(q) = Live(p) \cup {at}
         /\ \A y \in Live(p) \ {at} : q.page[y] = p.page[y] /\ q.seg[y[1]] = p.page[y].layer
    BY <2>1, <2>4, <2>8
  <2>15. PoolOK(q) /\ \A y \in Live(p) \ {at} : Same(p, q, y)
    <3>1. q.seg \in [Segments -> Layers \cup {None}] /\ q.seg[at[1]] = q.page[at].layer
      <4>1. p.seg \in [Segments -> Layers \cup {None}] /\ p.seg[at[1]] = l
        BY <2>4
      <4>. QED
        BY <2>8, <2>11, <4>1
    <3>. QED
      BY <1>1, <2>4, <2>11, <2>14, <3>1, WrittenPool
  <2>16. CacheOK(p, s, r, l) /\ \A i \in 1 .. Len(s.pages) : p.page[s.pages[i]].sealed
    BY <1>1, <1>2, <2>1, ShorterIs DEF s
  <2>17. s.pages = Front(c.pages) /\ Len(s.pages) = n - 1
    BY <2>10 DEF s, Shorter
  <2>18. CacheOK(q, a.cache, r, l)
    <3>1. \A i \in 1 .. Len(s.pages) : p.page[s.pages[i]].sealed /\ Same(p, q, s.pages[i])
      <4>1. \A i \in 1 .. Len(s.pages) : s.pages[i] \in Live(p)
        BY <2>16 DEF CacheOK
      <4>2. \A i \in 1 .. Len(s.pages) : s.pages[i] # at
        BY <2>1, <2>16
      <4>. QED
        BY <2>15, <2>16, <4>1, <4>2
    <3>2. \A j \in 1 .. Len(q.page[at].data) : q.page[at].data[j] = Stream[r][e + j]
      <4>. TAKE j \in 1 .. Len(q.page[at].data)
      <4>. DEFINE m == Len(p.page[at].data)
      <4>0. m \in Nat /\ w \in Nat /\ Len(q.page[at].data) = m + w
        BY <2>110
      <4>1. CASE j \in 1 .. m
        BY <2>4, <2>11, <4>1 DEF Holds, e
      <4>2. CASE j \notin 1 .. m
        <5>. DEFINE i == j - m
        <5>1. i \in 1 .. w /\ m + i = j /\ i \in 1 .. Len(tokens) /\ i \in Nat
          <6>1. Len(tokens) \in Nat /\ w <= Len(tokens)
            BY <1>3
          <6>2. j \in 1 .. (m + w)
            BY <4>0
          <6>. HIDE DEF m
          <6>. QED
            BY <4>0, <4>2, <6>1, <6>2, Beyond
        <5>. HIDE DEF i
        <5>2. q.page[at].data[m + i] = tokens[i]
          BY <2>11, <5>1 DEF Adds
        <5>3. tokens[i] = Stream[r][c.offset + i]
          BY <5>1 DEF Due, c
        <5>4. c.offset + i = e + j
          <6>1. c.offset = e + m /\ j = m + i
            BY <2>110, <5>1
          <6>. HIDE DEF m
          <6>. QED
            BY <2>12, <4>0, <5>1, <6>1
        <5>. QED
          BY <5>1, <5>2, <5>3, <5>4
      <4>. QED
        BY <4>1, <4>2
    <3>3. e + Len(q.page[at].data) <= Len(Stream[r])
      <4>1. c.offset + Len(tokens) <= Len(Stream[r])
        BY <1>0
      <4>. QED
        <5>. DEFINE m == Len(p.page[at].data)
        <5>1. m \in Nat /\ c.offset = e + m /\ Len(q.page[at].data) = m + w /\ w \in Nat /\ w <= Len(tokens)
          BY <2>110
        <5>. HIDE DEF m
        <5>. QED
          BY <1>3, <2>12, <4>1, <5>1
    <3>4. at \in Live(q)
      BY <2>14
    <3>5. PageTokens * Len(s.pages) = e
      BY <2>17 DEF e
    <3>6. Following(p, q, s, r, l, at)
      BY <2>11, <3>1, <3>2, <3>3, <3>4, <3>5 DEF Following
    <3>. QED
      BY <1>1, <1>2, <2>13, <2>15, <2>16, <3>6, FollowingIs
  <2>19. Rewritten(p, q, ix, C, E, x, a.cache, at)
    <3>1. a.cache.pages = Append(Front(C[x].pages), at)
      BY <2>8, <2>9 DEF Rest, c
    <3>. QED
      BY <1>5, <2>8, <2>11, <2>14, <3>1, OldRewritten DEF at, c
  <2>20. Sound(q, ix, E)
    BY <2>15, <2>18, <2>19, RewrittenSound
  <2>21. a.cache.offset = c.offset + w
    BY <2>8
  <2>. QED
    BY <1>3, <2>20, <2>21 DEF q, c, Lengthened
<1>. QED
  BY <1>4, <1>5

-----------------------------------------------------------------------------
(* The caches of the requests and of the drafts.                           *)

Held(hs, drafts) ==
    /\ hs \in [Requests -> Handle \cup {None}] /\ drafts \in [Requests -> Seq(Cache)]
    /\ \A r \in Requests : Len(drafts[r]) <= Cardinality(Layers)

\* Who the caches are.
LEMMA CachesIs ==
  ASSUME NEW hs, NEW drafts, Held(hs, drafts)
  PROVE  LET C == CachesOf(hs, drafts)
         IN  /\ \A r \in Requests, l \in Layers :
                   /\ <<"request", r, l>> \in DOMAIN C <=> hs[r] # None
                   /\ hs[r] # None => C[<<"request", r, l>>] = hs[r].caches[l]
                   /\ <<"draft", r, l>> \in DOMAIN C <=> l <= Len(drafts[r])
                   /\ l <= Len(drafts[r]) => C[<<"draft", r, l>>] = drafts[r][l]
             /\ \A x \in DOMAIN C :
                   /\ x = <<x[1], x[2], x[3]>> /\ x[1] \in {"request", "draft"}
                   /\ x[2] \in Requests /\ x[3] \in Layers
             /\ C = [x \in DOMAIN C |-> C[x]]
<1>. DEFINE All == {"request", "draft"} \X Requests \X Layers
            Dom == {x \in All : x[3] \in DOMAIN Owned(hs, drafts, x[1], x[2])}
            C == CachesOf(hs, drafts)
<1>1. C = [x \in Dom |-> Owned(hs, drafts, x[1], x[2])[x[3]]]
  BY DEF CachesOf
<1>2. DOMAIN C = Dom /\ C = [x \in DOMAIN C |-> C[x]]
  BY <1>1
<1>3. \A x \in Dom : C[x] = Owned(hs, drafts, x[1], x[2])[x[3]]
  BY <1>1
<1>. HIDE DEF C
<1>4. \A x \in All : /\ x = <<x[1], x[2], x[3]>> /\ x[1] \in {"request", "draft"}
                     /\ x[2] \in Requests /\ x[3] \in Layers
  OBVIOUS
<1>5. ASSUME NEW r \in Requests, NEW l \in Layers
      PROVE  /\ <<"request", r, l>> \in Dom <=> hs[r] # None
             /\ hs[r] # None => C[<<"request", r, l>>] = hs[r].caches[l]
  <2>. DEFINE x == <<"request", r, l>>
  <2>1. x \in All /\ x[1] = "request" /\ x[2] = r /\ x[3] = l
    OBVIOUS
  <2>2. Owned(hs, drafts, x[1], x[2]) = IF hs[r] = None THEN <<>> ELSE hs[r].caches
    BY <2>1 DEF Owned
  <2>. HIDE DEF x
  <2>3. x \in Dom <=> l \in DOMAIN Owned(hs, drafts, x[1], x[2])
    BY <2>1
  <2>4. hs[r] # None => DOMAIN hs[r].caches = Layers
    BY DEF Held, Handle
  <2>5. CASE hs[r] = None
    BY <2>2, <2>3, <2>5 DEF x
  <2>6. CASE hs[r] # None
    <3>1. x \in Dom
      BY <2>2, <2>3, <2>4, <2>6
    <3>2. C[x] = hs[r].caches[l]
      BY <1>3, <2>1, <2>2, <2>6, <3>1
    <3>. QED
      BY <2>6, <3>1, <3>2 DEF x
  <2>. QED
    BY <2>5, <2>6
<1>6. ASSUME NEW r \in Requests, NEW l \in Layers
      PROVE  /\ <<"draft", r, l>> \in Dom <=> l <= Len(drafts[r])
             /\ l <= Len(drafts[r]) => C[<<"draft", r, l>>] = drafts[r][l]
  <2>. DEFINE x == <<"draft", r, l>>
  <2>1. x \in All /\ x[1] = "draft" /\ x[2] = r /\ x[3] = l
    OBVIOUS
  <2>2. Owned(hs, drafts, x[1], x[2]) = drafts[r]
    BY <2>1 DEF Owned
  <2>. HIDE DEF x
  <2>3. x \in Dom <=> l \in DOMAIN drafts[r]
    BY <2>1, <2>2
  <2>4. l \in DOMAIN drafts[r] <=> l <= Len(drafts[r])
    <3>1. drafts[r] \in Seq(Cache) /\ l \in Nat \ {0}
      BY Constants DEF Held
    <3>2. Len(drafts[r]) \in Nat /\ DOMAIN drafts[r] = 1 .. Len(drafts[r])
      BY <3>1
    <3>. QED
      BY <3>1, <3>2
  <2>5. x \in Dom => C[x] = drafts[r][l]
    BY <1>3, <2>1, <2>2
  <2>. QED
    BY <2>3, <2>4, <2>5 DEF x
<1>. HIDE DEF Dom
<1>7. \A x \in Dom : x \in All
  BY DEF Dom
<1>. QED
  BY <1>2, <1>4, <1>5, <1>6, <1>7 DEF C

\* The caches depend on nothing of a handle but its caches.
LEMMA SameCaches ==
  ASSUME NEW hs, NEW gs, NEW drafts,
         \A r \in Requests : hs[r] = None <=> gs[r] = None,
         \A r \in Requests : hs[r] # None => hs[r].caches = gs[r].caches
  PROVE  CachesOf(gs, drafts) = CachesOf(hs, drafts)
<1>1. ASSUME NEW kind, NEW r \in Requests PROVE Owned(gs, drafts, kind, r) = Owned(hs, drafts, kind, r)
  BY DEF Owned
<1>2. \A x \in {"request", "draft"} \X Requests \X Layers :
         Owned(gs, drafts, x[1], x[2]) = Owned(hs, drafts, x[1], x[2])
  BY <1>1
<1>. DEFINE S(fs) == {x \in {"request", "draft"} \X Requests \X Layers :
                        x[3] \in DOMAIN Owned(fs, drafts, x[1], x[2])}
<1>3. S(gs) = S(hs)
  BY <1>2
<1>4. \A x \in S(hs) : Owned(gs, drafts, x[1], x[2])[x[3]] = Owned(hs, drafts, x[1], x[2])[x[3]]
  BY <1>2
<1>5. CachesOf(gs, drafts) = [x \in S(gs) |-> Owned(gs, drafts, x[1], x[2])[x[3]]]
  BY DEF CachesOf
<1>6. CachesOf(hs, drafts) = [x \in S(hs) |-> Owned(hs, drafts, x[1], x[2])[x[3]]]
  BY DEF CachesOf
<1>. HIDE DEF S
<1>. QED
  BY <1>3, <1>4, <1>5, <1>6

\* A cache that belongs to two pools ends with the same page.
LEMMA SealedSame ==
  ASSUME NEW p, NEW q, PoolOK(p), PoolOK(q), NEW c, NEW r \in Requests, NEW l,
         CacheOK(p, c, r, l), CacheOK(q, c, r, l)
  PROVE  LastSealed(p, c) <=> LastSealed(q, c)
<1>. DEFINE n == Len(c.pages)
<1>1. n \in Nat /\ PageTokens \in Nat \ {0}
  BY OffsetIs, Constants
<1>2. LastSealed(p, c) => c.offset = PageTokens * n
  BY OffsetIs
<1>3. LastSealed(q, c) => c.offset = PageTokens * n
  BY OffsetIs
<1>4. ASSUME NEW m \in {p, q}, ~LastSealed(m, c)
      PROVE  n \in Nat \ {0} /\ \E k \in 1 .. (PageTokens - 1) : c.offset = PageTokens * (n - 1) + k
  <2>1. m = p \/ m = q
    OBVIOUS
  <2>2. PoolOK(m) /\ CacheOK(m, c, r, l)
    BY <2>1
  <2>. QED
    BY <1>4, <2>2, OffsetIs
<1>5. ASSUME NEW m \in {p, q}, ~LastSealed(m, c) PROVE c.offset # PageTokens * n
  <2>1. n \in Nat \ {0}
    BY <1>4, <1>5
  <2>2. PICK k \in 1 .. (PageTokens - 1) : c.offset = PageTokens * (n - 1) + k
    BY <1>4, <1>5
  <2>. HIDE DEF n
  <2>3. PageTokens * (n - 1) + PageTokens = PageTokens * n
    BY <1>1, <2>1
  <2>. DEFINE e == PageTokens * (n - 1)
  <2>4. e \in Nat
    <3>1. n - 1 \in Nat
      BY <2>1
    <3>. QED
      BY <1>1, <3>1
  <2>. HIDE DEF e
  <2>5. e + k # e + PageTokens
    BY <1>1, <2>4
  <2>. QED
    BY <2>2, <2>3, <2>5 DEF e
<1>6. ASSUME LastSealed(p, c), ~LastSealed(q, c) PROVE FALSE
  BY <1>2, <1>5, <1>6
<1>7. ASSUME LastSealed(q, c), ~LastSealed(p, c) PROVE FALSE
  BY <1>3, <1>5, <1>7
<1>. QED
  BY <1>6, <1>7

\* The caches change their names, and stay with their request and layer.
Moved(C, E, f) ==
    /\ f \in Bijection(DOMAIN C, DOMAIN E)
    /\ \A x \in DOMAIN C : E[f[x]] = C[x] /\ f[x][2] = x[2] /\ f[x][3] = x[3]
LEMMA MovedSound ==
  ASSUME NEW p, NEW ix, NEW C, Sound(p, ix, C), NEW E, NEW f, Moved(C, E, f)
  PROVE  Sound(p, ix, E)
<1>1. /\ Named(C) /\ PoolOK(p) /\ CachesOK(p, C) /\ IndexOK(p, ix) /\ Counted(p, ix, C)
      /\ Alone(p, ix, C)
  BY DEF Sound
<1>2. f \in Bijection(DOMAIN C, DOMAIN E)
      /\ \A x \in DOMAIN C : E[f[x]] = C[x] /\ f[x][2] = x[2] /\ f[x][3] = x[3]
  BY DEF Moved
<1>3. /\ \A y \in DOMAIN E : \E x \in DOMAIN C : f[x] = y
      /\ f \in [DOMAIN C -> DOMAIN E]
  BY <1>2 DEF Bijection, Injection, Surjection
<1>4. IsFiniteSet(DOMAIN E)
  BY <1>1, <1>2, FS_Bijection DEF Named, ExistsBijection
<1>5. Named(E)
  BY <1>1, <1>2, <1>3, <1>4 DEF Named
<1>6. CachesOK(p, E)
  <2>. SUFFICES ASSUME NEW y \in DOMAIN E PROVE CacheOK(p, E[y], y[2], y[3])
    BY DEF CachesOK
  <2>1. PICK x \in DOMAIN C : f[x] = y
    BY <1>3
  <2>2. CacheOK(p, C[x], x[2], x[3])
    BY <1>1 DEF CachesOK
  <2>. QED
    BY <1>2, <2>1, <2>2
<1>7. Renamed(PagesIn(C), PagesIn(E), f)
  <2>1. DOMAIN PagesIn(C) = DOMAIN C /\ DOMAIN PagesIn(E) = DOMAIN E
        /\ (\A x \in DOMAIN C : PagesIn(C)[x] = C[x].pages)
        /\ (\A x \in DOMAIN E : PagesIn(E)[x] = E[x].pages)
    BY DEF PagesIn
  <2>2. \A x \in DOMAIN C : PagesIn(E)[f[x]] = PagesIn(C)[x]
    BY <1>2, <1>3, <2>1
  <2>. QED
    BY <1>2, <2>1, <2>2 DEF Renamed
<1>8. Lists(PagesIn(C)) /\ Lists(PagesIn(E))
  BY <1>1, <1>5, <1>6, HeldIs
<1>9. \A at : Refs(E, at) = Refs(C, at)
  BY <1>7, <1>8, CountRenamed DEF Refs
<1>10. Counted(p, ix, E)
  BY <1>1, <1>9 DEF Counted
<1>11. Alone(p, ix, E)
  <2>. SUFFICES ASSUME NEW at \in Live(p), ~p.page[at].sealed
                PROVE  at \notin Stored(ix) /\ \A x, y \in Uses(PagesIn(E), at) : x = y
    BY DEF Alone
  <2>1. at \notin Stored(ix) /\ \A x, y \in Uses(PagesIn(C), at) : x = y
    BY <1>1 DEF Alone
  <2>2. ASSUME NEW u \in Uses(PagesIn(E), at)
        PROVE  \E x \in DOMAIN C : <<x, u[2]>> \in Uses(PagesIn(C), at) /\ u = <<f[x], u[2]>>
    <3>1. u = <<u[1], u[2]>> /\ u[1] \in DOMAIN E /\ u[2] \in 1 .. Len(E[u[1]].pages) /\ E[u[1]].pages[u[2]] = at
      BY <1>5, <1>6, HeldIs
    <3>2. PICK x \in DOMAIN C : f[x] = u[1]
      BY <1>3, <3>1
    <3>3. C[x].pages = E[u[1]].pages
      BY <1>2, <3>2
    <3>4. PagesIn(C)[x] = C[x].pages /\ x \in DOMAIN PagesIn(C)
      BY DEF PagesIn
    <3>5. DOMAIN PagesIn(C)[x] = 1 .. Len(C[x].pages)
      BY <1>8, <3>4 DEF Lists
    <3>6. <<x, u[2]>> \in Uses(PagesIn(C), at)
      BY <3>1, <3>3, <3>4, <3>5, UsesIs
    <3>. QED
      BY <3>1, <3>2, <3>6
  <2>3. ASSUME NEW u \in Uses(PagesIn(E), at), NEW v \in Uses(PagesIn(E), at) PROVE u = v
    <3>1. PICK x \in DOMAIN C : <<x, u[2]>> \in Uses(PagesIn(C), at) /\ u = <<f[x], u[2]>>
      BY <2>2
    <3>2. PICK y \in DOMAIN C : <<y, v[2]>> \in Uses(PagesIn(C), at) /\ v = <<f[y], v[2]>>
      BY <2>2
    <3>3. <<x, u[2]>> = <<y, v[2]>>
      BY <2>1, <3>1, <3>2
    <3>. QED
      BY <3>1, <3>2, <3>3
  <2>. QED
    BY <2>1, <2>3
<1>. QED
  BY <1>1, <1>5, <1>6, <1>10, <1>11 DEF Sound

\* The pages of a map of caches, when some caches of C go with them.
Leaves(C, D, N, f) ==
    /\ D \subseteq DOMAIN C /\ f \in Bijection(D, DOMAIN N) /\ \A x \in D : N[f[x]] = C[x]
\* E is C without D.
Minus(C, D, E) ==
    DOMAIN E = DOMAIN C \ D /\ (\A x \in DOMAIN E : E[x] = C[x]) /\ E = [x \in DOMAIN E |-> E[x]]
LEMMA LeavesSound ==
  ASSUME NEW p, NEW ix, NEW C, Sound(p, ix, C), NEW D, NEW N, NEW f, Leaves(C, D, N, f),
         NEW E, Minus(C, D, E)
  PROVE  Sound(Closed(p, N), ix, E)
<1>1. D \in SUBSET DOMAIN C /\ f \in Bijection(D, DOMAIN N) /\ f \in [D -> DOMAIN N]
      /\ \A x \in D : N[f[x]] = C[x]
  BY DEF Leaves, Bijection, Injection
<1>. DEFINE L == PagesIn(N)
<1>2. DOMAIN L = DOMAIN N /\ \A y \in DOMAIN N : L[y] = N[y].pages
  BY DEF PagesIn
<1>3. Closed(p, N) = Released(p, L)
  BY DEF Closed
<1>. HIDE DEF L
<1>4. Taken(C, D, L, f)
  BY <1>1, <1>2 DEF Taken
<1>5. Sound(Released(p, L), ix, Without(C, D))
  BY <1>4, GoneSound
<1>6. E = Without(C, D)
  BY DEF Minus, Without
<1>. QED
  BY <1>3, <1>5, <1>6

\* The drafts of no request.
LEMMA NoDraftsIs ==
  ASSUME NEW hs, NEW drafts, Held(hs, drafts)
  PROVE  Held(hs, NoDrafts) /\ \A r \in Requests : NoDrafts[r] = <<>> /\ Len(NoDrafts[r]) = 0
<1>1. NoDrafts \in [Requests -> Seq(Cache)] /\ \A r \in Requests : NoDrafts[r] = <<>>
  BY DEF NoDrafts
<1>2. 0 <= Cardinality(Layers)
  BY Constants
<1>. QED
  BY <1>1, <1>2 DEF Held

\* The caches one by one.
OfRequest(C, hs, x) ==
    /\ x = <<"request", x[2], x[3]>> /\ x[2] \in Requests /\ x[3] \in Layers
    /\ hs[x[2]] # None /\ C[x] = hs[x[2]].caches[x[3]]
OfDraft(C, drafts, x) ==
    /\ x = <<"draft", x[2], x[3]>> /\ x[2] \in Requests /\ x[3] \in Layers
    /\ x[3] <= Len(drafts[x[2]]) /\ C[x] = drafts[x[2]][x[3]]

\* Every cache is that of a request or that of a draft.
LEMMA CachesNames ==
  ASSUME NEW hs, NEW drafts, Held(hs, drafts), NEW C, C = CachesOf(hs, drafts)
  PROVE  /\ \A x \in DOMAIN C : OfRequest(C, hs, x) \/ OfDraft(C, drafts, x)
         /\ C = [x \in DOMAIN C |-> C[x]]
<1>1. ASSUME NEW x \in DOMAIN C PROVE OfRequest(C, hs, x) \/ OfDraft(C, drafts, x)
  <2>1. x = <<x[1], x[2], x[3]>> /\ x[1] \in {"request", "draft"} /\ x[2] \in Requests /\ x[3] \in Layers
    BY CachesIs
  <2>. DEFINE r == x[2]
              l == x[3]
  <2>2. /\ <<"request", r, l>> \in DOMAIN C <=> hs[r] # None
        /\ hs[r] # None => C[<<"request", r, l>>] = hs[r].caches[l]
        /\ <<"draft", r, l>> \in DOMAIN C <=> l <= Len(drafts[r])
        /\ l <= Len(drafts[r]) => C[<<"draft", r, l>>] = drafts[r][l]
    BY <2>1, CachesIs
  <2>3. CASE x[1] = "request"
    BY <2>1, <2>2, <2>3 DEF OfRequest
  <2>4. CASE x[1] = "draft"
    BY <2>1, <2>2, <2>4 DEF OfDraft
  <2>. QED
    BY <2>1, <2>3, <2>4
<1>2. C = [x \in DOMAIN C |-> C[x]]
  BY CachesIs
<1>. QED
  BY <1>1, <1>2

\* Cache c is that of x.
At(C, x, c) == x \in DOMAIN C /\ C[x] = c
LEMMA RequestAt ==
  ASSUME NEW hs, NEW drafts, Held(hs, drafts), NEW r \in Requests, NEW l \in Layers, hs[r] # None
  PROVE  At(CachesOf(hs, drafts), <<"request", r, l>>, hs[r].caches[l])
<1>. DEFINE C == CachesOf(hs, drafts)
<1>1. /\ <<"request", r, l>> \in DOMAIN C <=> hs[r] # None
      /\ hs[r] # None => C[<<"request", r, l>>] = hs[r].caches[l]
      /\ <<"draft", r, l>> \in DOMAIN C <=> l <= Len(drafts[r])
      /\ l <= Len(drafts[r]) => C[<<"draft", r, l>>] = drafts[r][l]
  BY CachesIs
<1>. QED
  BY <1>1 DEF At
\* The cache of a draft is among the caches.
LEMMA DraftAt ==
  ASSUME NEW hs, NEW drafts, Held(hs, drafts), NEW r \in Requests, NEW l \in Layers, l <= Len(drafts[r])
  PROVE  At(CachesOf(hs, drafts), <<"draft", r, l>>, drafts[r][l])
<1>. DEFINE C == CachesOf(hs, drafts)
<1>1. /\ <<"request", r, l>> \in DOMAIN C <=> hs[r] # None
      /\ hs[r] # None => C[<<"request", r, l>>] = hs[r].caches[l]
      /\ <<"draft", r, l>> \in DOMAIN C <=> l <= Len(drafts[r])
      /\ l <= Len(drafts[r]) => C[<<"draft", r, l>>] = drafts[r][l]
  BY CachesIs
<1>. QED
  BY <1>1 DEF At
\* The layers that have a draft.
LEMMA DraftLayers ==
  ASSUME NEW hs, NEW drafts, Held(hs, drafts), NEW r \in Requests, NEW l \in Layers
  PROVE  l \in DOMAIN drafts[r] <=> l <= Len(drafts[r])
<1>1. drafts[r] \in Seq(Cache) /\ l \in Nat \ {0}
  BY Constants DEF Held
<1>2. Len(drafts[r]) \in Nat /\ DOMAIN drafts[r] = 1 .. Len(drafts[r])
  BY <1>1
<1>. QED
  BY <1>1, <1>2

\* The caches of the requests, the drafts aside.
Drafts(C) == {x \in DOMAIN C : x[1] = "draft"}
LEMMA WithoutDrafts ==
  ASSUME NEW hs, NEW drafts, Held(hs, drafts)
  PROVE  Minus(CachesOf(hs, drafts), Drafts(CachesOf(hs, drafts)), CachesOf(hs, NoDrafts))
<1>. DEFINE C == CachesOf(hs, drafts)
            E == CachesOf(hs, NoDrafts)
            D == {x \in DOMAIN C : x[1] = "draft"}
<1>1. Held(hs, NoDrafts) /\ \A r \in Requests : Len(NoDrafts[r]) = 0
  BY NoDraftsIs
<1>2. \A l \in Layers : ~(l <= 0)
  BY Constants
<1>3. ASSUME NEW x \in DOMAIN E PROVE x \in DOMAIN C /\ x \notin D /\ E[x] = C[x]
  <2>1. OfRequest(E, hs, x)
    <3>1. ~OfDraft(E, NoDrafts, x)
      BY <1>1, <1>2 DEF OfDraft
    <3>. QED
      BY <1>1, <3>1, CachesNames
  <2>2. /\ x = <<"request", x[2], x[3]>> /\ x[2] \in Requests /\ x[3] \in Layers
        /\ hs[x[2]] # None /\ E[x] = hs[x[2]].caches[x[3]]
    BY <2>1 DEF OfRequest
  <2>3. <<"request", x[2], x[3]>> \in DOMAIN C /\ C[<<"request", x[2], x[3]>>] = hs[x[2]].caches[x[3]]
    BY <2>2, RequestAt DEF At
  <2>4. x[1] # "draft"
    BY <2>2
  <2>. QED
    BY <2>2, <2>3, <2>4
<1>4. ASSUME NEW x \in DOMAIN C, x \notin D PROVE x \in DOMAIN E
  <2>1. OfRequest(C, hs, x)
    <3>1. ~OfDraft(C, drafts, x)
      BY <1>4 DEF OfDraft
    <3>. QED
      BY <3>1, CachesNames
  <2>2. /\ x = <<"request", x[2], x[3]>> /\ x[2] \in Requests /\ x[3] \in Layers /\ hs[x[2]] # None
    BY <2>1 DEF OfRequest
  <2>3. <<"request", x[2], x[3]>> \in DOMAIN E
    BY <1>1, <2>2, RequestAt DEF At
  <2>. QED
    BY <2>2, <2>3
<1>5. E = [x \in DOMAIN E |-> E[x]]
  BY <1>1, CachesNames
<1>6. D = Drafts(C)
  BY DEF Drafts
<1>. HIDE DEF C, E, D
<1>7. Minus(C, D, E)
  <2>1. D \subseteq DOMAIN C
    BY DEF D
  <2>2. DOMAIN E = DOMAIN C \ D
    BY <1>3, <1>4, <2>1
  <2>. QED
    BY <1>3, <1>5, <2>2 DEF Minus
<1>. QED
  BY <1>6, <1>7 DEF C, E

\* release_all: the drafts give their pages back.
LEMMA DropSound ==
  ASSUME NEW p, NEW ix, NEW hs, NEW drafts, Held(hs, drafts), Sound(p, ix, CachesOf(hs, drafts))
  PROVE  Sound(Drop(p, drafts), ix, CachesOf(hs, NoDrafts))
<1>. DEFINE C == CachesOf(hs, drafts)
            E == CachesOf(hs, NoDrafts)
            X == {x \in Requests \X Layers : x[2] \in DOMAIN drafts[x[1]]}
            N == [x \in X |-> drafts[x[1]][x[2]]]
            D == {x \in DOMAIN C : x[1] = "draft"}
            g(x) == <<x[2], x[3]>>
            f == [x \in D |-> g(x)]
<1>1. Drop(p, drafts) = Closed(p, N)
  BY DEF Drop
<1>2. Minus(C, D, E)
  BY WithoutDrafts DEF Drafts
<1>3. \A x \in DOMAIN C : OfRequest(C, hs, x) \/ OfDraft(C, drafts, x)
  BY CachesNames
<1>4. \A r \in Requests, l \in Layers : l \in DOMAIN drafts[r] <=> l <= Len(drafts[r])
  BY DraftLayers
<1>5. ASSUME NEW r \in Requests, NEW l \in Layers, l <= Len(drafts[r]) PROVE <<"draft", r, l>> \in DOMAIN C
  BY <1>5, DraftAt DEF At
<1>. HIDE DEF C, E
<1>6. ASSUME NEW x \in D PROVE g(x) \in X /\ x = <<"draft", x[2], x[3]>> /\ N[g(x)] = C[x]
  <2>1. x \in DOMAIN C /\ ~OfRequest(C, hs, x)
    BY DEF OfRequest
  <2>2. OfDraft(C, drafts, x)
    BY <1>3, <2>1
  <2>3. /\ x = <<"draft", x[2], x[3]>> /\ x[2] \in Requests /\ x[3] \in Layers
        /\ x[3] <= Len(drafts[x[2]]) /\ C[x] = drafts[x[2]][x[3]]
    BY <2>2 DEF OfDraft
  <2>. DEFINE y == <<x[2], x[3]>>
  <2>4. y \in Requests \X Layers /\ y[1] = x[2] /\ y[2] = x[3]
    BY <2>3
  <2>5. x[3] \in DOMAIN drafts[x[2]]
    BY <1>4, <2>3
  <2>. HIDE DEF y
  <2>6. y \in X
    BY <2>4, <2>5
  <2>7. N[y] = C[x]
    BY <2>3, <2>4, <2>6
  <2>. QED
    BY <2>3, <2>6, <2>7 DEF y
<1>7. ASSUME NEW y \in X PROVE \E x \in D : g(x) = y
  <2>1. y[1] \in Requests /\ y[2] \in Layers /\ y = <<y[1], y[2]>> /\ y[2] \in DOMAIN drafts[y[1]]
    OBVIOUS
  <2>2. <<"draft", y[1], y[2]>> \in DOMAIN C
    BY <1>4, <1>5, <2>1
  <2>. DEFINE x == <<"draft", y[1], y[2]>>
  <2>3. x[1] = "draft" /\ x[2] = y[1] /\ x[3] = y[2]
    OBVIOUS
  <2>4. x \in D
    BY <2>2
  <2>5. g(x) = y
    BY <2>1, <2>3
  <2>. QED
    BY <2>4, <2>5
<1>8. DOMAIN N = X /\ D \subseteq DOMAIN C /\ f = [x \in D |-> g(x)]
  OBVIOUS
<1>9. \A x, y \in D : g(x) = g(y) => x = y
  <2>. SUFFICES ASSUME NEW x \in D, NEW y \in D, g(x) = g(y) PROVE x = y
    OBVIOUS
  <2>1. x = <<"draft", x[2], x[3]>> /\ y = <<"draft", y[2], y[3]>>
    BY <1>6
  <2>2. x[2] = y[2] /\ x[3] = y[3]
    OBVIOUS
  <2>. QED
    BY <2>1, <2>2
<1>10. \A x \in D : g(x) \in X /\ N[g(x)] = C[x]
  BY <1>6
<1>. HIDE DEF D, X, N, f, g
<1>11. f \in Bijection(D, DOMAIN N)
  BY <1>7, <1>8, <1>9, <1>10 DEF Bijection, Injection, Surjection, IsInjective
<1>12. Leaves(C, D, N, f)
  BY <1>8, <1>10, <1>11 DEF Leaves
<1>13. Sound(p, ix, C)
  BY DEF C
<1>14. Sound(Closed(p, N), ix, E)
  BY <1>2, <1>12, <1>13, LeavesSound
<1>. QED
  BY <1>1, <1>14 DEF E

\* The caches of the layers as a list.
LEMMA LayersSeq ==
  /\ \A c \in [Layers -> Cache] : c \in Seq(Cache) /\ Len(c) = Cardinality(Layers)
  /\ \A c \in Seq(Cache) : Len(c) = Cardinality(Layers) => c \in [Layers -> Cache]
<1>. DEFINE n == Cardinality(Layers)
<1>1. n \in Nat /\ Layers = 1 .. n
  BY Constants
<1>. HIDE DEF n
<1>2. \A c \in [1 .. n -> Cache] : c \in Seq(Cache) /\ Len(c) = n
  BY <1>1
<1>3. \A c \in Seq(Cache) : Len(c) = n => c \in [1 .. n -> Cache]
  BY <1>1
<1>. QED
  BY <1>1, <1>2, <1>3 DEF n

\* A handle with other caches.
LEMMA WithCachesIs ==
  ASSUME NEW h \in Handle, NEW c \in [Layers -> Cache]
  PROVE  LET g == [h EXCEPT !.caches = c]
         IN  /\ g \in Handle /\ g # None /\ g.caches = c /\ g.computed = h.computed
             /\ g.requested = h.requested /\ g.reserved = h.reserved /\ g.base = h.base
<1>1. [h EXCEPT !.caches = c] \in Handle
  BY DEF Handle
<1>. QED
  BY <1>1, NoHandle DEF Handle

Swappable(hs, drafts, A) ==
    A \subseteq Requests /\ \A r \in A : hs[r] # None /\ Len(drafts[r]) = Cardinality(Layers)
\* The requests of A and their drafts have changed their caches.
Crossed(hs, drafts, A, gs, ds) ==
    /\ Held(gs, ds)
    /\ \A r \in Requests : /\ gs[r] = None <=> hs[r] = None
                           /\ r \notin A => gs[r] = hs[r] /\ ds[r] = drafts[r]
                           /\ Len(ds[r]) = Len(drafts[r])
    /\ \A r \in A : /\ gs[r] = [hs[r] EXCEPT !.caches = drafts[r]]
                    /\ gs[r].caches = drafts[r] /\ ds[r] = hs[r].caches
                    /\ gs[r].computed = hs[r].computed
                    /\ gs[r] \in Handle /\ hs[r] \in Handle /\ hs[r].caches \in [Layers -> Cache]
LEMMA SwappedIs ==
  ASSUME NEW hs, NEW drafts, Held(hs, drafts), NEW A, Swappable(hs, drafts, A),
         NEW s, s = Swapped(hs, drafts, A)
  PROVE  Crossed(hs, drafts, A, s.handles, s.drafts)
<1>. DEFINE gs == [r \in Requests |-> IF r \in A THEN [hs[r] EXCEPT !.caches = drafts[r]] ELSE hs[r]]
            ds == [r \in Requests |-> IF r \in A THEN hs[r].caches ELSE drafts[r]]
<1>1. s.handles = gs /\ s.drafts = ds
  BY DEF Swapped
<1>2. /\ hs \in [Requests -> Handle \cup {None}] /\ drafts \in [Requests -> Seq(Cache)]
      /\ \A r \in Requests : Len(drafts[r]) <= Cardinality(Layers)
      /\ A \subseteq Requests /\ \A r \in A : hs[r] # None /\ Len(drafts[r]) = Cardinality(Layers)
  BY DEF Held, Swappable
<1>3. ASSUME NEW r \in A
      PROVE  /\ gs[r] = [hs[r] EXCEPT !.caches = drafts[r]] /\ ds[r] = hs[r].caches
             /\ gs[r] \in Handle /\ gs[r] # None /\ gs[r].caches = drafts[r] /\ gs[r].computed = hs[r].computed
             /\ ds[r] \in Seq(Cache) /\ Len(ds[r]) = Cardinality(Layers)
             /\ hs[r] \in Handle /\ hs[r].caches \in [Layers -> Cache]
  <2>1. r \in Requests /\ hs[r] \in Handle /\ hs[r] # None /\ drafts[r] \in Seq(Cache)
        /\ Len(drafts[r]) = Cardinality(Layers)
    BY <1>2
  <2>2. hs[r].caches \in [Layers -> Cache]
    BY <2>1 DEF Handle
  <2>3. drafts[r] \in [Layers -> Cache]
    BY <2>1, LayersSeq
  <2>4. gs[r] = [hs[r] EXCEPT !.caches = drafts[r]] /\ ds[r] = hs[r].caches
    BY <2>1
  <2>5. ds[r] \in Seq(Cache) /\ Len(ds[r]) = Cardinality(Layers)
    BY <2>2, <2>4, LayersSeq
  <2>. HIDE DEF gs, ds
  <2>. DEFINE h == hs[r]
              c == drafts[r]
  <2>6. h \in Handle /\ c \in [Layers -> Cache] /\ gs[r] = [h EXCEPT !.caches = c]
    BY <2>1, <2>3, <2>4
  <2>. HIDE DEF h, c
  <2>7. gs[r] \in Handle /\ gs[r] # None /\ gs[r].caches = c /\ gs[r].computed = h.computed
    BY <2>6, WithCachesIs
  <2>. QED
    BY <2>1, <2>2, <2>4, <2>5, <2>7 DEF h, c
<1>4. \A r \in Requests \ A : gs[r] = hs[r] /\ ds[r] = drafts[r]
  OBVIOUS
<1>5. gs = [r \in Requests |-> gs[r]] /\ ds = [r \in Requests |-> ds[r]]
  OBVIOUS
<1>. HIDE DEF gs, ds
<1>6. \A r \in Requests : gs[r] \in Handle \cup {None} /\ ds[r] \in Seq(Cache) /\ Len(ds[r]) = Len(drafts[r])
  BY <1>2, <1>3, <1>4
<1>7. Held(gs, ds)
  <2>1. gs \in [Requests -> Handle \cup {None}]
    BY <1>5, <1>6
  <2>2. ds \in [Requests -> Seq(Cache)]
    BY <1>5, <1>6
  <2>. QED
    BY <1>2, <1>6, <2>1, <2>2 DEF Held
<1>8. \A r \in Requests : gs[r] = None <=> hs[r] = None
  BY <1>2, <1>3, <1>4
<1>. QED
  BY <1>1, <1>3, <1>4, <1>6, <1>7, <1>8 DEF Crossed

Other(kind) == IF kind = "draft" THEN "request" ELSE "draft"
Renaming(A, x) == IF x[2] \in A THEN <<Other(x[1]), x[2], x[3]>> ELSE x

\* The swap of a commit renames the caches.
LEMMA RenamingIs ==
  ASSUME NEW hs, NEW drafts, Held(hs, drafts), NEW A, Swappable(hs, drafts, A),
         NEW s, s = Swapped(hs, drafts, A), NEW C, C = CachesOf(hs, drafts),
         NEW E, E = CachesOf(s.handles, s.drafts), NEW x \in DOMAIN C
  PROVE  LET y == Renaming(A, x)
         IN  /\ y \in DOMAIN E /\ E[y] = C[x] /\ y[2] = x[2] /\ y[3] = x[3]
             /\ Renaming(A, y) = x
<1>. DEFINE y == Renaming(A, x)
            gs == s.handles
            ds == s.drafts
            r == x[2]
            l == x[3]
<1>1. /\ Held(gs, ds)
      /\ \A i \in Requests : /\ gs[i] = None <=> hs[i] = None
                             /\ i \notin A => gs[i] = hs[i] /\ ds[i] = drafts[i]
                             /\ Len(ds[i]) = Len(drafts[i])
      /\ \A i \in A : gs[i].caches = drafts[i] /\ ds[i] = hs[i].caches
  <2>1. Crossed(hs, drafts, A, gs, ds)
    BY SwappedIs
  <2>. HIDE DEF gs, ds
  <2>. QED
    BY <2>1 DEF Crossed
<1>2. \A i \in A : hs[i] # None /\ Len(drafts[i]) = Cardinality(Layers)
  BY DEF Swappable
<1>3. \A i \in Layers : i <= Cardinality(Layers)
  BY Constants
<1>4. CASE OfRequest(C, hs, x)
  <2>1. /\ x = <<"request", r, l>> /\ r \in Requests /\ l \in Layers /\ hs[r] # None
        /\ C[x] = hs[r].caches[l] /\ x[1] = "request"
    BY <1>4 DEF OfRequest
  <2>2. CASE r \in A
    <3>1. y = <<"draft", r, l>>
      BY <2>1, <2>2 DEF Renaming, Other
    <3>2. l <= Len(ds[r]) /\ ds[r][l] = C[x]
      BY <1>1, <1>2, <1>3, <2>1, <2>2
    <3>. HIDE DEF r, l, gs, ds
    <3>3. At(CachesOf(gs, ds), <<"draft", r, l>>, ds[r][l])
      BY <1>1, <2>1, <3>2, DraftAt
    <3>4. Renaming(A, <<"draft", r, l>>) = <<"request", r, l>>
      BY <2>2 DEF Renaming, Other
    <3>5. y \in DOMAIN E /\ E[y] = C[x]
      BY <3>1, <3>2, <3>3 DEF At, gs, ds
    <3>. QED
      BY <2>1, <3>1, <3>4, <3>5 DEF r, l
  <2>3. CASE r \notin A
    <3>1. y = x
      BY <2>3 DEF Renaming
    <3>2. gs[r] # None /\ gs[r].caches[l] = C[x]
      BY <1>1, <2>1, <2>3
    <3>. HIDE DEF r, l, gs, ds
    <3>3. At(CachesOf(gs, ds), <<"request", r, l>>, gs[r].caches[l])
      BY <1>1, <2>1, <3>2, RequestAt
    <3>5. y \in DOMAIN E /\ E[y] = C[x]
      BY <2>1, <3>1, <3>2, <3>3 DEF At, gs, ds
    <3>. QED
      BY <3>1, <3>5
  <2>. QED
    BY <2>2, <2>3
<1>5. CASE OfDraft(C, drafts, x)
  <2>1. /\ x = <<"draft", r, l>> /\ r \in Requests /\ l \in Layers /\ l <= Len(drafts[r])
        /\ C[x] = drafts[r][l] /\ x[1] = "draft"
    BY <1>5 DEF OfDraft
  <2>2. CASE r \in A
    <3>1. y = <<"request", r, l>>
      BY <2>1, <2>2 DEF Renaming, Other
    <3>2. gs[r] # None /\ gs[r].caches[l] = C[x]
      BY <1>1, <1>2, <2>1, <2>2
    <3>. HIDE DEF r, l, gs, ds
    <3>3. At(CachesOf(gs, ds), <<"request", r, l>>, gs[r].caches[l])
      BY <1>1, <2>1, <3>2, RequestAt
    <3>4. Renaming(A, <<"request", r, l>>) = <<"draft", r, l>>
      BY <2>2 DEF Renaming, Other
    <3>5. y \in DOMAIN E /\ E[y] = C[x]
      BY <3>1, <3>2, <3>3 DEF At, gs, ds
    <3>. QED
      BY <2>1, <3>1, <3>4, <3>5 DEF r, l
  <2>3. CASE r \notin A
    <3>1. y = x
      BY <2>3 DEF Renaming
    <3>2. l <= Len(ds[r]) /\ ds[r][l] = C[x]
      BY <1>1, <2>1, <2>3
    <3>. HIDE DEF r, l, gs, ds
    <3>3. At(CachesOf(gs, ds), <<"draft", r, l>>, ds[r][l])
      BY <1>1, <2>1, <3>2, DraftAt
    <3>5. y \in DOMAIN E /\ E[y] = C[x]
      BY <2>1, <3>1, <3>2, <3>3 DEF At, gs, ds
    <3>. QED
      BY <3>1, <3>5
  <2>. QED
    BY <2>2, <2>3
<1>. QED
  BY <1>4, <1>5, CachesNames

\* The swap done twice changes nothing.
LEMMA SwappedBack ==
  ASSUME NEW hs, NEW drafts, Held(hs, drafts), NEW A, Swappable(hs, drafts, A),
         NEW s, s = Swapped(hs, drafts, A)
  PROVE  Swappable(s.handles, s.drafts, A) /\ Swapped(s.handles, s.drafts, A) = [handles |-> hs, drafts |-> drafts]
<1>. DEFINE gs == s.handles
            ds == s.drafts
<1>1. /\ Held(gs, ds)
      /\ \A i \in Requests : /\ gs[i] = None <=> hs[i] = None
                             /\ i \notin A => gs[i] = hs[i] /\ ds[i] = drafts[i]
                             /\ Len(ds[i]) = Len(drafts[i])
      /\ \A i \in A : /\ gs[i] = [hs[i] EXCEPT !.caches = drafts[i]]
                      /\ gs[i].caches = drafts[i] /\ ds[i] = hs[i].caches
                      /\ hs[i] \in Handle /\ hs[i].caches \in [Layers -> Cache]
  BY SwappedIs DEF Crossed
<1>2. A \subseteq Requests /\ \A i \in A : hs[i] # None /\ Len(drafts[i]) = Cardinality(Layers)
  BY DEF Swappable
<1>3. Swappable(gs, ds, A)
  BY <1>1, <1>2 DEF Swappable
<1>. HIDE DEF gs, ds
<1>4. ASSUME NEW r \in A PROVE [gs[r] EXCEPT !.caches = ds[r]] = hs[r]
  <2>. DEFINE h == hs[r]
  <2>1. h \in Handle /\ gs[r] = [h EXCEPT !.caches = drafts[r]] /\ ds[r] = h.caches
    BY <1>1
  <2>. HIDE DEF h
  <2>2. [[h EXCEPT !.caches = drafts[r]] EXCEPT !.caches = h.caches] = h
    BY <2>1 DEF Handle
  <2>. QED
    BY <2>1, <2>2 DEF h
<1>5. [r \in Requests |-> IF r \in A THEN [gs[r] EXCEPT !.caches = ds[r]] ELSE gs[r]] = hs
  <2>1. hs = [r \in Requests |-> hs[r]]
    BY DEF Held
  <2>2. \A r \in Requests : hs[r] = IF r \in A THEN [gs[r] EXCEPT !.caches = ds[r]] ELSE gs[r]
    BY <1>1, <1>4
  <2>. QED
    BY <2>1, <2>2
<1>6. [r \in Requests |-> IF r \in A THEN gs[r].caches ELSE ds[r]] = drafts
  <2>1. drafts = [r \in Requests |-> drafts[r]]
    BY DEF Held
  <2>2. \A r \in Requests : drafts[r] = IF r \in A THEN gs[r].caches ELSE ds[r]
    BY <1>1
  <2>. QED
    BY <2>1, <2>2
<1>7. Swapped(gs, ds, A) = [handles |-> hs, drafts |-> drafts]
  BY <1>5, <1>6 DEF Swapped
<1>. QED
  BY <1>3, <1>7 DEF gs, ds

\* commit_evaluated moves caches between owners, and no page is counted anew.
LEMMA SwapSound ==
  ASSUME NEW p, NEW ix, NEW hs, NEW drafts, Held(hs, drafts), Sound(p, ix, CachesOf(hs, drafts)),
         NEW A, Swappable(hs, drafts, A), NEW s, s = Swapped(hs, drafts, A)
  PROVE  Sound(p, ix, CachesOf(s.handles, s.drafts))
<1>. DEFINE C == CachesOf(hs, drafts)
            E == CachesOf(s.handles, s.drafts)
            g(x) == Renaming(A, x)
            f == [x \in DOMAIN C |-> g(x)]
            t == [handles |-> hs, drafts |-> drafts]
<1>1. \A x \in DOMAIN C : /\ g(x) \in DOMAIN E /\ E[g(x)] = C[x] /\ g(x)[2] = x[2] /\ g(x)[3] = x[3]
                          /\ g(g(x)) = x
  BY RenamingIs
<1>2. Held(s.handles, s.drafts)
  BY SwappedIs DEF Crossed
<1>3. Swappable(s.handles, s.drafts, A) /\ Swapped(s.handles, s.drafts, A) = t
  BY SwappedBack
<1>4. C = CachesOf(t.handles, t.drafts)
  OBVIOUS
<1>. HIDE DEF t
<1>5. \A y \in DOMAIN E : g(y) \in DOMAIN C /\ g(g(y)) = y
  BY <1>2, <1>3, <1>4, RenamingIs
<1>6. f = [x \in DOMAIN C |-> g(x)]
  OBVIOUS
<1>. HIDE DEF C, E, g, f
<1>7. f \in Bijection(DOMAIN C, DOMAIN E)
  <2>1. f \in [DOMAIN C -> DOMAIN E]
    BY <1>1, <1>6
  <2>2. \A x, y \in DOMAIN C : f[x] = f[y] => x = y
    BY <1>1, <1>6
  <2>3. \A y \in DOMAIN E : \E x \in DOMAIN C : f[x] = y
    BY <1>5, <1>6
  <2>. QED
    BY <2>1, <2>2, <2>3 DEF Bijection, Injection, Surjection, IsInjective
<1>8. Moved(C, E, f)
  BY <1>1, <1>6, <1>7 DEF Moved
<1>9. Sound(p, ix, C)
  BY DEF C
<1>. QED
  BY <1>8, <1>9, MovedSound DEF E

-----------------------------------------------------------------------------
(* Requests that come and go.                                              *)

Its(C, r) == {x \in DOMAIN C : x[1] = "request" /\ x[2] = r}

\* The caches of a request are those of its layers.
LEMMA ItsLeaves ==
  ASSUME NEW hs, NEW drafts, Held(hs, drafts), NEW r \in Requests, hs[r] # None,
         NEW C, C = CachesOf(hs, drafts)
  PROVE  Leaves(C, Its(C, r), hs[r].caches, [x \in Its(C, r) |-> x[3]])
<1>. DEFINE D == Its(C, r)
            N == hs[r].caches
            f == [x \in D |-> x[3]]
<1>1. DOMAIN N = Layers
  BY DEF Held, Handle
<1>2. ASSUME NEW x \in D
      PROVE  x = <<"request", r, x[3]>> /\ x[3] \in Layers /\ C[x] = N[x[3]] /\ x \in DOMAIN C
  <2>1. x \in DOMAIN C /\ x[1] = "request" /\ x[2] = r
    BY DEF Its
  <2>2. ~OfDraft(C, drafts, x)
    BY <2>1 DEF OfDraft
  <2>3. OfRequest(C, hs, x)
    BY <2>1, <2>2, CachesNames
  <2>. QED
    BY <2>1, <2>3 DEF OfRequest
<1>3. ASSUME NEW l \in Layers PROVE \E x \in D : x[3] = l
  <2>1. At(CachesOf(hs, drafts), <<"request", r, l>>, hs[r].caches[l])
    BY RequestAt
  <2>. DEFINE x == <<"request", r, l>>
  <2>2. x \in DOMAIN C
    BY <2>1 DEF At
  <2>3. x[1] = "request" /\ x[2] = r /\ x[3] = l
    OBVIOUS
  <2>. HIDE DEF x
  <2>. QED
    BY <2>2, <2>3 DEF Its
<1>4. D \subseteq DOMAIN C
  BY <1>2
<1>5. \A x, y \in D : x[3] = y[3] => x = y
  <2>. SUFFICES ASSUME NEW x \in D, NEW y \in D, x[3] = y[3] PROVE x = y
    OBVIOUS
  <2>1. x = <<"request", r, x[3]>> /\ y = <<"request", r, y[3]>>
    BY <1>2
  <2>. QED
    BY <2>1
<1>6. f = [x \in D |-> x[3]]
  OBVIOUS
<1>. HIDE DEF D, N, f
<1>7. f \in Bijection(D, DOMAIN N)
  <2>1. f \in [D -> DOMAIN N]
    BY <1>1, <1>2, <1>6
  <2>2. \A x, y \in D : f[x] = f[y] => x = y
    BY <1>5, <1>6
  <2>3. \A l \in DOMAIN N : \E x \in D : f[x] = l
    BY <1>1, <1>3, <1>6
  <2>. QED
    BY <2>1, <2>2, <2>3 DEF Bijection, Injection, Surjection, IsInjective
<1>8. \A x \in D : N[f[x]] = C[x]
  BY <1>2, <1>6
<1>9. Leaves(C, D, N, f)
  BY <1>4, <1>7, <1>8 DEF Leaves
<1>. QED
  BY <1>6, <1>9 DEF D, N, f

\* A request without a handle.
LEMMA GoneHeld ==
  ASSUME NEW hs, NEW drafts, Held(hs, drafts), NEW r \in Requests, NEW gs, gs = [hs EXCEPT ![r] = None]
  PROVE  Held(gs, drafts) /\ gs[r] = None /\ \A o \in Requests \ {r} : gs[o] = hs[o]
  BY DEF Held

\* The caches that are left when a request goes.
LEMMA WithoutRequest ==
  ASSUME NEW hs, NEW drafts, Held(hs, drafts), NEW r \in Requests, NEW gs, gs = [hs EXCEPT ![r] = None],
         NEW C, C = CachesOf(hs, drafts), NEW E, E = CachesOf(gs, drafts)
  PROVE  Minus(C, Its(C, r), E)
<1>1. Held(gs, drafts) /\ gs[r] = None /\ \A o \in Requests \ {r} : gs[o] = hs[o]
  BY DEF Held
<1>2. ASSUME NEW x \in DOMAIN E PROVE x \in DOMAIN C /\ x \notin Its(C, r) /\ E[x] = C[x]
  <2>. DEFINE o == x[2]
              l == x[3]
  <2>1. CASE OfRequest(E, gs, x)
    <3>1. /\ x = <<"request", o, l>> /\ o \in Requests /\ l \in Layers /\ gs[o] # None
          /\ E[x] = gs[o].caches[l]
      BY <2>1 DEF OfRequest
    <3>2. o # r /\ hs[o] # None /\ hs[o].caches[l] = E[x]
      BY <1>1, <3>1
    <3>3. x \notin Its(C, r)
      BY <3>2 DEF Its
    <3>. HIDE DEF o, l
    <3>4. At(CachesOf(hs, drafts), <<"request", o, l>>, hs[o].caches[l])
      BY <3>1, <3>2, RequestAt
    <3>. QED
      BY <3>1, <3>2, <3>3, <3>4 DEF At
  <2>2. CASE OfDraft(E, drafts, x)
    <3>1. /\ x = <<"draft", o, l>> /\ o \in Requests /\ l \in Layers /\ l <= Len(drafts[o])
          /\ E[x] = drafts[o][l]
      BY <2>2 DEF OfDraft
    <3>2. x[1] = "draft"
      BY <3>1
    <3>3. x \notin Its(C, r)
      BY <3>2 DEF Its
    <3>. HIDE DEF o, l
    <3>4. At(CachesOf(hs, drafts), <<"draft", o, l>>, drafts[o][l])
      BY <3>1, DraftAt
    <3>. QED
      BY <3>1, <3>3, <3>4 DEF At
  <2>. QED
    BY <1>1, <2>1, <2>2, CachesNames
<1>3. ASSUME NEW x \in DOMAIN C, x \notin Its(C, r) PROVE x \in DOMAIN E
  <2>. DEFINE o == x[2]
              l == x[3]
  <2>1. CASE OfRequest(C, hs, x)
    <3>1. x = <<"request", o, l>> /\ o \in Requests /\ l \in Layers /\ hs[o] # None
      BY <2>1 DEF OfRequest
    <3>2. x[1] = "request"
      BY <3>1
    <3>3. o # r
      BY <1>3, <3>2 DEF Its
    <3>. HIDE DEF o, l
    <3>4. gs[o] # None
      BY <1>1, <3>1, <3>3
    <3>5. At(CachesOf(gs, drafts), <<"request", o, l>>, gs[o].caches[l])
      BY <1>1, <3>1, <3>4, RequestAt
    <3>. QED
      BY <3>1, <3>5 DEF At
  <2>2. CASE OfDraft(C, drafts, x)
    <3>1. x = <<"draft", o, l>> /\ o \in Requests /\ l \in Layers /\ l <= Len(drafts[o])
      BY <2>2 DEF OfDraft
    <3>. HIDE DEF o, l
    <3>2. At(CachesOf(gs, drafts), <<"draft", o, l>>, drafts[o][l])
      BY <1>1, <3>1, DraftAt
    <3>. QED
      BY <3>1, <3>2 DEF At
  <2>. QED
    BY <2>1, <2>2, CachesNames
<1>4. E = [x \in DOMAIN E |-> E[x]]
  BY DEF CachesOf
<1>5. Its(C, r) \subseteq DOMAIN C
  BY DEF Its
<1>6. DOMAIN E = DOMAIN C \ Its(C, r)
  BY <1>2, <1>3, <1>5
<1>. QED
  BY <1>2, <1>4, <1>6 DEF Minus

\* release: the pages of a request go.
LEMMA GoneIs ==
  ASSUME NEW p, NEW ix, NEW hs, NEW drafts, Held(hs, drafts), Sound(p, ix, CachesOf(hs, drafts)),
         NEW r \in Requests, hs[r] # None, NEW gs, gs = [hs EXCEPT ![r] = None]
  PROVE  Held(gs, drafts) /\ Sound(Closed(p, hs[r].caches), ix, CachesOf(gs, drafts))
<1>. DEFINE C == CachesOf(hs, drafts)
            E == CachesOf(gs, drafts)
            f == [x \in Its(C, r) |-> x[3]]
<1>1. Held(gs, drafts)
  BY GoneHeld
<1>2. Leaves(C, Its(C, r), hs[r].caches, f)
  BY ItsLeaves
<1>3. Minus(C, Its(C, r), E)
  BY WithoutRequest
<1>4. Sound(p, ix, C)
  OBVIOUS
<1>. HIDE DEF C, E, f
<1>5. Sound(Closed(p, hs[r].caches), ix, E)
  BY <1>2, <1>3, <1>4, LeavesSound
<1>. QED
  BY <1>1, <1>5 DEF E

\* A request comes with pages that lookup has acquired for it.
LEMMA ComeIs ==
  ASSUME NEW p, NEW ix, NEW hs, NEW drafts, Held(hs, drafts), Sound(p, ix, CachesOf(hs, drafts)),
         NEW r \in Requests, hs[r] = None, NEW h \in Handle, NEW gs, gs = [hs EXCEPT ![r] = h],
         \A l \in Layers : /\ CacheOK(p, h.caches[l], r, l)
                           /\ \A i \in 1 .. Len(h.caches[l].pages) : p.page[h.caches[l].pages[i]].sealed
  PROVE  Held(gs, drafts) /\ Sound(Acquired(p, PagesIn(h.caches)), ix, CachesOf(gs, drafts))
<1>. DEFINE C == CachesOf(hs, drafts)
            E == CachesOf(gs, drafts)
            D == Its(E, r)
            f == [x \in D |-> x[3]]
            L == PagesIn(h.caches)
<1>1. Held(gs, drafts) /\ gs[r] = h /\ gs[r] # None /\ hs = [gs EXCEPT ![r] = None]
  <2>1. gs \in [Requests -> Handle \cup {None}] /\ gs[r] = h
    BY DEF Held
  <2>2. h # None
    BY NoHandle
  <2>3. hs = [gs EXCEPT ![r] = None]
    BY DEF Held
  <2>. QED
    BY <2>1, <2>2, <2>3 DEF Held
<1>2. Leaves(E, D, gs[r].caches, f)
  BY <1>1, ItsLeaves
<1>3. Minus(E, D, C)
  BY <1>1, WithoutRequest
<1>4. Sound(p, ix, C) /\ Named(C)
  BY DEF Sound
<1>5. \A x \in D : x[2] = r
  BY DEF Its
<1>6. DOMAIN L = DOMAIN h.caches /\ DOMAIN h.caches = Layers /\ \A l \in Layers : L[l] = h.caches[l].pages
  BY DEF PagesIn, Handle
<1>. HIDE DEF C, E, D, L
<1>7. D \subseteq DOMAIN E /\ f \in Bijection(D, DOMAIN h.caches) /\ f \in [D -> DOMAIN h.caches]
      /\ \A x \in D : h.caches[f[x]] = E[x]
  <2>. HIDE DEF f
  <2>. QED
    BY <1>1, <1>2 DEF Leaves, Bijection, Injection
<1>8. \A x \in D : f[x] = x[3] /\ x[3] \in Layers
  BY <1>6, <1>7
<1>. HIDE DEF f
<1>9. DOMAIN C = DOMAIN E \ D /\ \A x \in DOMAIN C : E[x] = C[x]
  BY <1>3 DEF Minus
<1>10. DOMAIN E \ DOMAIN C = D /\ DOMAIN C \subseteq DOMAIN E
  BY <1>7, <1>9
<1>11. \A x \in D : /\ CacheOK(p, E[x], x[2], x[3])
                    /\ \A i \in 1 .. Len(E[x].pages) : p.page[E[x].pages[i]].sealed
  <2>. SUFFICES ASSUME NEW x \in D
                PROVE  /\ CacheOK(p, E[x], x[2], x[3])
                       /\ \A i \in 1 .. Len(E[x].pages) : p.page[E[x].pages[i]].sealed
    OBVIOUS
  <2>1. x[2] = r /\ x[3] \in Layers /\ E[x] = h.caches[x[3]]
    BY <1>5, <1>7, <1>8
  <2>. QED
    BY <2>1
<1>12. Named(E)
  <2>1. IsFiniteSet(D)
    <3>1. ExistsBijection(DOMAIN h.caches, D)
      BY <1>7, Fun_ExistsBijSymmetric DEF ExistsBijection
    <3>2. IsFiniteSet(DOMAIN h.caches)
      BY <1>6, Constants
    <3>. QED
      BY <3>1, <3>2, FS_Bijection
  <2>2. DOMAIN E = DOMAIN C \cup D
    BY <1>7, <1>9
  <2>3. IsFiniteSet(DOMAIN E)
    BY <1>4, <2>1, <2>2, FS_Union DEF Named
  <2>4. \A x \in DOMAIN E : x[2] \in Requests /\ x[3] \in Layers
    BY <1>4, <1>5, <1>8, <2>2 DEF Named
  <2>. QED
    BY <2>3, <2>4 DEF Named
<1>13. f \in Bijection(DOMAIN E \ DOMAIN C, DOMAIN L)
  BY <1>6, <1>7, <1>10
<1>14. \A x \in D : L[f[x]] = E[x].pages
  <2>. SUFFICES ASSUME NEW x \in D PROVE L[f[x]] = E[x].pages
    OBVIOUS
  <2>1. h.caches[f[x]] = E[x] /\ f[x] \in Layers
    BY <1>6, <1>7
  <2>. QED
    BY <1>6, <2>1
<1>15. Sound(Acquired(p, L), ix, E)
  BY <1>4, <1>9, <1>10, <1>11, <1>12, <1>13, <1>14, AddedSound
<1>. QED
  BY <1>1, <1>15 DEF E, L

-----------------------------------------------------------------------------
(* Between forwards.                                                       *)

\* What the caches and handles are when no forward is under way.
Settled(p, ix, hs) ==
    /\ Held(hs, NoDrafts) /\ Sound(p, ix, CachesOf(hs, NoDrafts))
    /\ \A r \in Requests : hs[r] # None => Whole(hs[r])

\* Between forwards.
LEMMA Idly ==
  ASSUME CInv, Step("idle")
  PROVE  forward = Idle /\ Settled(pool, index, handles)
<1>1. forward = Idle
  BY DEF CInv, ForwardOK
<1>2. forward.drafts = NoDrafts /\ forward.active = {}
  BY <1>1 DEF Idle
<1>3. handles \in [Requests -> Handle \cup {None}] /\ forward.drafts \in [Requests -> Seq(Cache)]
      /\ \A r \in Requests : Len(forward.drafts[r]) <= Cardinality(Layers)
  BY DEF CInv, ForwardOK, ForwardTyped, HandlesOK
<1>4. Held(handles, NoDrafts)
  BY <1>2, <1>3 DEF Held
<1>5. Sound(pool, index, CachesOf(handles, NoDrafts))
  BY <1>2 DEF CInv, Caches
<1>6. \A r \in Requests : handles[r] # None => Whole(handles[r])
  BY <1>2 DEF CInv, HandlesOK, Open
<1>. QED
  BY <1>1, <1>4, <1>5, <1>6 DEF Settled

\* The invariant behind a step that ends between forwards.
LEMMA IdleNext ==
  ASSUME forward' = Idle, Settled(pool', index', handles')
  PROVE  CInv'
<1>1. /\ forward'.drafts = NoDrafts /\ forward'.active = {} /\ forward'.stage = "idle"
      /\ forward'.group = {} /\ forward'.transient = 0
      /\ forward' = [stage |-> forward'.stage, group |-> forward'.group, width |-> forward'.width,
                     transient |-> forward'.transient, drafts |-> forward'.drafts,
                     active |-> forward'.active, accounts |-> forward'.accounts]
  BY DEF Idle
<1>2. Held(handles', NoDrafts) /\ Sound(pool', index', CachesOf(handles', NoDrafts))
      /\ \A r \in Requests : handles'[r] # None => Whole(handles'[r])
  BY DEF Settled
<1>3. HandlesOK'
  BY <1>1, <1>2 DEF HandlesOK, Open, Held
<1>4. Sound(pool, index, Caches)'
  BY <1>1, <1>2 DEF Caches
<1>5. ForwardTyped'
  <2>1. \A r \in Requests : NoDrafts[r] = <<>>
    BY DEF NoDrafts
  <2>. QED
    BY <1>1, <1>2, <2>1 DEF ForwardTyped, Held
<1>6. ForwardOK'
  BY <1>1, <1>5 DEF ForwardOK, Step
<1>. QED
  BY <1>3, <1>4, <1>6 DEF CInv

\* Two handles of the same account.
Alike(h, g) ==
    /\ g \in Handle /\ g.caches = h.caches /\ g.computed = h.computed
    /\ g.requested = h.requested /\ g.reserved = h.reserved /\ g.base = h.base

\* The accounts of a handle depend on nothing else of it.
LEMMA AlikeWhole ==
  ASSUME NEW h, NEW g, Alike(h, g), Whole(h)
  PROVE  Whole(g)
  BY DEF Alike, Whole, Remainder

\* Requests may be marked, as published or as failed.
Marked(hs, gs) ==
    /\ gs \in [Requests -> Handle \cup {None}]
    /\ \A r \in Requests : /\ hs[r] = None <=> gs[r] = None
                           /\ hs[r] # None => Alike(hs[r], gs[r])

\* A request that is marked as failed keeps its caches.
LEMMA MarkedCaches ==
  ASSUME NEW hs, NEW gs, Marked(hs, gs), NEW drafts
  PROVE  CachesOf(gs, drafts) = CachesOf(hs, drafts)
<1>1. \A r \in Requests : hs[r] = None <=> gs[r] = None
  BY DEF Marked
<1>2. \A r \in Requests : hs[r] # None => hs[r].caches = gs[r].caches
  BY DEF Marked, Alike
<1>. QED
  BY <1>1, <1>2, SameCaches

\* A request that is marked as failed keeps its accounts.
LEMMA MarkedSettled ==
  ASSUME NEW p, NEW ix, NEW hs, NEW gs, Settled(p, ix, hs), Marked(hs, gs)
  PROVE  Settled(p, ix, gs)
<1>1. CachesOf(gs, NoDrafts) = CachesOf(hs, NoDrafts)
  BY MarkedCaches
<1>2. Held(gs, NoDrafts)
  BY DEF Settled, Held, Marked
<1>3. \A r \in Requests : gs[r] # None => Whole(gs[r])
  BY AlikeWhole DEF Settled, Marked
<1>. QED
  BY <1>1, <1>2, <1>3 DEF Settled

\* A batch that fails marks its requests.
LEMMA FailedMarks ==
  ASSUME handles \in [Requests -> Handle \cup {None}], NEW group, group \subseteq Open
  PROVE  Marked(handles, Failed(group))
<1>1. ASSUME NEW r \in Requests
      PROVE  /\ Failed(group)[r] \in Handle \cup {None}
             /\ handles[r] = None <=> Failed(group)[r] = None
             /\ handles[r] # None => Alike(handles[r], Failed(group)[r])
  <2>1. CASE r \in group
    <3>1. handles[r] \in Handle
      BY <2>1 DEF Open
    <3>2. Failed(group)[r] = [handles[r] EXCEPT !.failed = TRUE]
      BY <2>1 DEF Failed
    <3>3. Alike(handles[r], Failed(group)[r])
      BY <3>1, <3>2 DEF Alike, Handle
    <3>4. handles[r] # None /\ Failed(group)[r] # None
      BY <3>1, <3>3, NoHandle DEF Alike
    <3>. QED
      BY <3>3, <3>4 DEF Alike
  <2>2. CASE r \notin group
    <3>1. Failed(group)[r] = handles[r]
      BY <2>2 DEF Failed
    <3>2. handles[r] # None => Alike(handles[r], handles[r])
      BY DEF Alike
    <3>. QED
      BY <3>1, <3>2
  <2>. QED
    BY <2>1, <2>2
<1>2. Failed(group) = [r \in Requests |-> Failed(group)[r]]
  BY DEF Failed
<1>. QED
  BY <1>1, <1>2 DEF Marked

-----------------------------------------------------------------------------
(* The steps that need no forward.                                         *)

\* A new manager.
LEMMA EmptySettled == Settled(EmptyPool, <<>>, [r \in Requests |-> None])
<1>. DEFINE hs == [r \in Requests |-> None]
            C == CachesOf(hs, NoDrafts)
<1>1. Held(hs, NoDrafts)
  <2>1. NoDrafts \in [Requests -> Seq(Cache)] /\ \A r \in Requests : Len(NoDrafts[r]) = 0
    BY DEF NoDrafts
  <2>2. Cardinality(Layers) \in Nat
    BY Constants
  <2>. QED
    BY <2>1, <2>2 DEF Held
<1>2. \A r \in Requests : hs[r] = None /\ Len(NoDrafts[r]) = 0
  BY DEF NoDrafts
<1>. HIDE DEF hs
<1>3. DOMAIN C = {}
  <2>. SUFFICES ASSUME NEW x \in DOMAIN C PROVE FALSE
    OBVIOUS
  <2>1. OfRequest(C, hs, x) \/ OfDraft(C, NoDrafts, x)
    BY <1>1, CachesNames
  <2>2. \A l \in Layers : ~(l <= 0)
    BY Constants
  <2>. QED
    BY <1>2, <2>1, <2>2 DEF OfRequest, OfDraft
<1>. HIDE DEF C
<1>4. Live(EmptyPool) = {} /\ EmptyPool.seg \in [Segments -> Layers \cup {None}]
  BY DEF Live, EmptyPool
<1>5. PoolOK(EmptyPool)
  BY <1>4 DEF PoolOK
<1>6. Named(C) /\ CachesOK(EmptyPool, C) /\ Counted(EmptyPool, <<>>, C) /\ Alone(EmptyPool, <<>>, C)
  BY <1>3, <1>4, FS_EmptySet DEF Named, CachesOK, Counted, Alone
<1>7. Sound(EmptyPool, <<>>, C)
  BY <1>5, <1>6, NoIndex DEF Sound
<1>. QED
  BY <1>1, <1>2, <1>7 DEF Settled, hs, C

\* The invariant holds at the start.
LEMMA InitCInv ==
  ASSUME Init
  PROVE  CInv
<1>1. forward = Idle /\ pool = EmptyPool /\ index = <<>> /\ handles = [r \in Requests |-> None]
  BY DEF Init
<1>2. Settled(pool, index, handles)
  BY <1>1, EmptySettled
<1>3. /\ forward.drafts = NoDrafts /\ forward.active = {} /\ forward.stage = "idle"
      /\ forward.group = {} /\ forward.transient = 0
      /\ forward = [stage |-> forward.stage, group |-> forward.group, width |-> forward.width,
                    transient |-> forward.transient, drafts |-> forward.drafts,
                    active |-> forward.active, accounts |-> forward.accounts]
  BY <1>1 DEF Idle
<1>4. Held(handles, NoDrafts) /\ Sound(pool, index, CachesOf(handles, NoDrafts))
      /\ \A r \in Requests : handles[r] # None => Whole(handles[r])
  BY <1>2 DEF Settled
<1>5. HandlesOK
  BY <1>3, <1>4 DEF HandlesOK, Open, Held
<1>6. Sound(pool, index, Caches)
  BY <1>3, <1>4 DEF Caches
<1>7. ForwardTyped
  <2>1. \A r \in Requests : NoDrafts[r] = <<>>
    BY DEF NoDrafts
  <2>. QED
    BY <1>3, <1>4, <2>1 DEF ForwardTyped, Held
<1>8. ForwardOK
  BY <1>1, <1>3, <1>7 DEF ForwardOK, Step
<1>. QED
  BY <1>5, <1>6, <1>8 DEF CInv

\* Steps that only set a cancel flag.
LEMMA SameNext ==
  ASSUME CInv, UNCHANGED <<pool, index, handles, forward>>
  PROVE  CInv'
<1>1. HandlesOK'
  BY DEF CInv, HandlesOK, Open
<1>2. Sound(pool, index, Caches)'
  BY DEF CInv, Caches
<1>3. ForwardOK
  BY DEF CInv
<1>4. ForwardTyped' <=> ForwardTyped
  BY DEF ForwardTyped, Open
<1>5. \A stage : Step(stage)' <=> Step(stage)
  BY DEF Step
<1>6. /\ Drafting' <=> Drafting
      /\ Copying' <=> Copying
      /\ Complete' <=> Complete
      /\ Growing' <=> Growing
      /\ Adopting' <=> Adopting
  BY DEF Drafting, Copying, Awaiting, Mutable, Complete, Growing, Adopting, Restored
<1>7. ForwardOK'
  BY <1>3, <1>4, <1>5, <1>6 DEF ForwardOK
<1>. QED
  BY <1>1, <1>2, <1>7 DEF CInv

\* Pressure between forwards: Shed.
LEMMA ShedNext ==
  ASSUME CInv, Shed
  PROVE  CInv'
<1>1. Step("idle") /\ UNCHANGED <<handles, forward>>
      /\ pool' = Reclaimable([pool |-> pool, index |-> index]).pool
      /\ index' = Reclaimable([pool |-> pool, index |-> index]).index
  BY DEF Shed
<1>2. forward = Idle /\ Settled(pool, index, handles)
  BY <1>1, Idly
<1>3. Sound(pool', index', CachesOf(handles, NoDrafts))
  BY <1>1, <1>2, ReclaimableSound DEF Settled
<1>4. Settled(pool', index', handles)
  BY <1>2, <1>3 DEF Settled
<1>. QED
  BY <1>1, <1>2, <1>4, IdleNext

\* The manager closes: Close.
LEMMA CloseNext ==
  ASSUME CInv, Close
  PROVE  CInv'
<1>1. Step("idle") /\ forward' = forward /\ pool' = EmptyPool /\ index' = <<>>
      /\ handles' = [r \in Requests |-> None]
  BY DEF Close
<1>2. forward' = Idle
  BY <1>1, Idly
<1>3. Settled(pool', index', handles')
  BY <1>1, EmptySettled
<1>. QED
  BY <1>2, <1>3, IdleNext

\* A request ends: End.
LEMMA EndNext ==
  ASSUME CInv, NEW r \in Requests, End(r)
  PROVE  CInv'
<1>1. /\ Step("idle") /\ forward' = forward /\ index' = index /\ handles[r] # None
      /\ pool' = Closed(pool, handles[r].caches) /\ handles' = [handles EXCEPT ![r] = None]
  BY DEF End, Open
<1>2. forward = Idle /\ Held(handles, NoDrafts) /\ Sound(pool, index, CachesOf(handles, NoDrafts))
      /\ \A o \in Requests : handles[o] # None => Whole(handles[o])
  BY <1>1, Idly DEF Settled
<1>3. Held(handles', NoDrafts) /\ Sound(pool', index, CachesOf(handles', NoDrafts))
  BY <1>1, <1>2, GoneIs
<1>4. \A o \in Requests : handles'[o] # None => Whole(handles'[o])
  BY <1>1, <1>2 DEF Held
<1>5. Settled(pool', index', handles')
  BY <1>1, <1>3, <1>4 DEF Settled
<1>. QED
  BY <1>1, <1>2, <1>5, IdleNext

\* The cache of a layer of a request.
LEMMA RequestCache ==
  ASSUME NEW p, NEW ix, NEW hs, NEW drafts, Held(hs, drafts), Sound(p, ix, CachesOf(hs, drafts)),
         NEW r \in Requests, NEW l \in Layers, hs[r] # None
  PROVE  CacheOK(p, hs[r].caches[l], r, l)
<1>. DEFINE x == <<"request", r, l>>
            C == CachesOf(hs, drafts)
<1>1. At(C, x, hs[r].caches[l])
  BY RequestAt
<1>2. x[2] = r /\ x[3] = l
  OBVIOUS
<1>3. CachesOK(p, C)
  BY DEF Sound
<1>. HIDE DEF x, C
<1>. QED
  BY <1>1, <1>2, <1>3 DEF At, CachesOK

\* A request publishes its prompt: Publish.
LEMMA PublishNext ==
  ASSUME CInv, NEW r \in Requests, Publish(r)
  PROVE  CInv'
<1>. DEFINE t == Published([pool |-> pool, index |-> index], SubSeq(Stream[r], 1, Prompt[r]),
                           handles[r].caches)
<1>1. /\ Step("idle") /\ forward' = forward /\ handles[r] # None /\ handles[r].computed = Prompt[r]
      /\ pool' = t.pool /\ index' = t.index /\ handles' = [handles EXCEPT ![r].published = TRUE]
  BY DEF Publish, Ready, Open
<1>2. forward = Idle /\ Settled(pool, index, handles)
  BY <1>1, Idly
<1>3. Held(handles, NoDrafts) /\ Sound(pool, index, CachesOf(handles, NoDrafts)) /\ Whole(handles[r])
  BY <1>1, <1>2 DEF Settled
<1>4. \A l \in Layers : CacheOK(pool, handles[r].caches[l], r, l) /\ handles[r].caches[l].offset = Prompt[r]
  BY <1>1, <1>3, RequestCache DEF Whole
<1>5. Sound(t.pool, t.index, CachesOf(handles, NoDrafts))
  BY <1>3, <1>4, PublishedSound
<1>. HIDE DEF t
<1>6. Settled(pool', index', handles)
  BY <1>1, <1>2, <1>5 DEF Settled
<1>7. Marked(handles, handles')
  <2>1. handles \in [Requests -> Handle \cup {None}] /\ handles[r] \in Handle
    BY <1>1, <1>3 DEF Held
  <2>2. handles'[r] = [handles[r] EXCEPT !.published = TRUE]
        /\ \A o \in Requests \ {r} : handles'[o] = handles[o]
    BY <1>1, <2>1
  <2>3. Alike(handles[r], handles'[r])
    BY <2>1, <2>2 DEF Alike, Handle
  <2>4. handles'[r] \in Handle /\ handles'[r] # None
    BY <2>3, NoHandle DEF Alike
  <2>5. handles' \in [Requests -> Handle \cup {None}]
    BY <1>1, <2>1, <2>4
  <2>6. ASSUME NEW o \in Requests \ {r}, handles[o] # None PROVE Alike(handles[o], handles'[o])
    BY <2>1, <2>2, <2>6 DEF Alike
  <2>. QED
    BY <1>1, <2>2, <2>3, <2>4, <2>5, <2>6 DEF Marked
<1>8. Settled(pool', index', handles')
  BY <1>6, <1>7, MarkedSettled
<1>. QED
  BY <1>1, <1>2, <1>8, IdleNext

-----------------------------------------------------------------------------
(* Reservations.                                                           *)

\* A quotient, rounded up, is a number.
LEMMA DivNat ==
  ASSUME NEW a \in Int, NEW b \in Nat \ {0}, a + b - 1 >= 0
  PROVE  CeilDiv(a, b) \in Nat
  BY DEF CeilDiv

\* So is a product.
LEMMA TimesNat ==
  ASSUME NEW a \in Nat, NEW b \in Nat
  PROVE  a * b \in Nat
  OBVIOUS

\* What a request reserves is a number.
LEMMA GrowthNat ==
  ASSUME NEW r \in Requests, NEW n \in Nat, n <= Len(Stream[r])
  PROVE  Growth(r, n) \in Nat
<1>1. Len(Stream[r]) \in Nat /\ SegmentPages \in Nat \ {0} /\ PageTokens \in Nat \ {0}
      /\ Cardinality(Layers) \in Nat
  BY Constants
<1>2. PageTokens * SegmentPages \in Nat \ {0}
  BY <1>1
<1>. DEFINE b == PageTokens * SegmentPages
            a == Len(Stream[r]) - n
<1>3. a \in Int /\ a >= 0
  BY <1>1
<1>4. b \in Nat \ {0}
  BY <1>2
<1>. HIDE DEF a, b
<1>5. a + b - 1 >= 0
  BY <1>3, <1>4
<1>6. CeilDiv(a, b) \in Nat
  BY <1>3, <1>4, <1>5, DivNat
<1>7. CeilDiv(a, b) * SegmentPages \in Nat
  BY <1>1, <1>6, TimesNat
<1>8. CeilDiv(a, b) * SegmentPages * Cardinality(Layers) \in Nat
  BY <1>1, <1>7, TimesNat
<1>. QED
  BY <1>8 DEF Growth, a, b

\* A finite union of finite sets is finite.
LEMMA FamilyFinite ==
  ASSUME NEW I, IsFiniteSet(I), NEW f, f = [i \in I |-> f[i]], \A i \in I : IsFiniteSet(f[i])
  PROVE  Cardinality(UNION {f[i] : i \in I}) \in Nat
<1>. DEFINE T == {f[i] : i \in I}
<1>1. f \in Surjection(I, T)
  BY DEF Surjection
<1>. HIDE DEF T
<1>2. IsFiniteSet(T)
  BY <1>1, FS_Surjection
<1>3. \A s \in T : IsFiniteSet(s)
  BY DEF T
<1>4. IsFiniteSet(UNION T)
  BY <1>2, <1>3, FS_UNION
<1>. QED
  BY <1>4, FS_CardinalityType DEF T

\* The pages of a request are a number.
LEMMA PagesOfNat ==
  ASSUME NEW caches \in [Layers -> Cache]
  PROVE  PagesOf(caches) \in Nat
<1>. DEFINE f == [l \in Layers |-> {l} \X DOMAIN caches[l].pages]
<1>1. IsFiniteSet(Layers)
  BY Constants
<1>3. ASSUME NEW l \in Layers PROVE IsFiniteSet({l} \X DOMAIN caches[l].pages)
  <2>1. caches[l].pages \in Seq(Places)
    BY DEF Cache
  <2>2. Len(caches[l].pages) \in Nat /\ DOMAIN caches[l].pages = 1 .. Len(caches[l].pages)
    BY <2>1
  <2>3. IsFiniteSet(DOMAIN caches[l].pages)
    BY <2>2, FS_Interval
  <2>. QED
    BY <2>3, FS_Singleton, FS_Product
<1>4. \A l \in Layers : f[l] = {l} \X DOMAIN caches[l].pages
  OBVIOUS
<1>5. f = [l \in Layers |-> f[l]]
  OBVIOUS
<1>6. {f[l] : l \in Layers} = {{l} \X DOMAIN caches[l].pages : l \in Layers}
  BY <1>4
<1>. HIDE DEF f
<1>7. Cardinality(UNION {f[l] : l \in Layers}) \in Nat
  BY <1>1, <1>3, <1>4, <1>5, FamilyFinite
<1>. QED
  BY <1>6, <1>7 DEF PagesOf

\* What is set aside is a number.
LEMMA OutstandingNat ==
  ASSUME handles \in [Requests -> Handle \cup {None}], forward.transient \in Nat
  PROVE  Outstanding \in Nat
<1>. DEFINE f == [r \in Open |-> {r} \X (1 .. handles[r].reserved)]
<1>1. IsFiniteSet(Open)
  BY Constants, FS_Subset DEF Open
<1>3. ASSUME NEW r \in Open PROVE IsFiniteSet({r} \X (1 .. handles[r].reserved))
  <2>1. handles[r].reserved \in Nat
    BY DEF Open, Handle
  <2>2. IsFiniteSet(1 .. handles[r].reserved)
    BY <2>1, FS_Interval
  <2>. QED
    BY <2>2, FS_Singleton, FS_Product
<1>4. \A r \in Open : f[r] = {r} \X (1 .. handles[r].reserved)
  OBVIOUS
<1>5. f = [r \in Open |-> f[r]]
  OBVIOUS
<1>6. {f[r] : r \in Open} = {{r} \X (1 .. handles[r].reserved) : r \in Open}
  BY <1>4
<1>. HIDE DEF f
<1>7. Cardinality(UNION {f[r] : r \in Open}) \in Nat
  BY <1>1, <1>3, <1>4, <1>5, FamilyFinite
<1>8. Outstanding = Cardinality(UNION {f[r] : r \in Open}) + forward.transient
  BY <1>6 DEF Outstanding
<1>. QED
  BY <1>7, <1>8

\* What was set aside for growth comes back, less what was used.
LEMMA RemainderIs ==
  ASSUME NEW h, NEW n \in Nat, h.requested = n, PagesOf(h.caches) \in Nat, h.base = PagesOf(h.caches)
  PROVE  Remainder(h) = n
  BY DEF Remainder, Positive

\* What is left of a reservation is a number.
LEMMA RemainderNat ==
  ASSUME NEW h \in Handle
  PROVE  Remainder(h) \in Nat
<1>1. h.requested \in Nat /\ h.base \in Nat /\ PagesOf(h.caches) \in Nat
  BY PagesOfNat DEF Handle
<1>. QED
  BY <1>1 DEF Remainder, Positive

\* Admission keeps the caches, and admits what fits.
LEMMA AdmissionIs ==
  ASSUME NEW s, NEW C, Sound(s.pool, s.index, C), NEW amount, NEW a \in Admission(s, amount)
  PROVE  /\ Sound(a.state.pool, a.state.index, C)
         /\ a.ok => Fits(a.state.pool, amount)
<1>. DEFINE Fine(t) == Sound(t.pool, t.index, C)
<1>1. ASSUME NEW t, Fine(t) PROVE Fine(Reclaimable(t))
  <2>1. Reclaimable(t) = Reclaimable([pool |-> t.pool, index |-> t.index])
    BY DEF Reclaimable, Cleared
  <2>. QED
    BY <1>1, <2>1, ReclaimableSound
<1>2. PICK t \in {s, Reclaimable(s)} :
        a \in {[state |-> t, ok |-> FALSE],
               IF Fits(t.pool, amount) THEN [state |-> t, ok |-> TRUE]
               ELSE [state |-> Reclaimable(t), ok |-> Fits(Reclaimable(t).pool, amount)]}
  BY DEF Admission
<1>3. Fine(t) /\ Fine(Reclaimable(t))
  BY <1>1
<1>. HIDE DEF Fine
<1>4. Fine(a.state) /\ (a.ok => Fits(a.state.pool, amount))
  <2>1. CASE a = [state |-> t, ok |-> FALSE]
    BY <1>3, <2>1
  <2>2. CASE a = [state |-> t, ok |-> TRUE] /\ Fits(t.pool, amount)
    BY <1>3, <2>2
  <2>3. CASE a = [state |-> Reclaimable(t), ok |-> Fits(Reclaimable(t).pool, amount)]
    BY <1>3, <2>3
  <2>. QED
    BY <1>2, <2>1, <2>2, <2>3
<1>. QED
  BY <1>4 DEF Fine

-----------------------------------------------------------------------------
(* The start of a request.                                                 *)

\* The caches of a request that starts with k pages of the index.
Chain(r, k) ==
    LET prompt == SubSeq(Stream[r], 1, Prompt[r])
    IN  [l \in Layers |-> [j \in 1 .. k |-> Node(Prefix(prompt, j)).pages[l]]]
Starting(held, k, pages) == [l \in Layers |-> IF k = 0 THEN EmptyCache ELSE Adopted(held, pages[l])]

Started(p, q, r, k, caches, pages) ==
    /\ caches \in [Layers -> Cache] /\ PagesIn(caches) = pages
    /\ \A l \in Layers : /\ CacheOK(p, caches[l], r, l) /\ caches[l].offset = k * PageTokens
                         /\ \A i \in 1 .. Len(caches[l].pages) : p.page[caches[l].pages[i]].sealed

\* The caches of a request that adopts the chain it has found.
LEMMA StartingIs ==
  ASSUME NEW p, PoolOK(p), IndexOK(p, index), NEW r \in Requests,
         NEW k \in {0, Matched(SubSeq(Stream[r], 1, Prompt[r]))},
         NEW q, \A at \in Live(p) : Same(p, q, at)
  PROVE  Started(p, q, r, k, Starting(q, k, Chain(r, k)), Chain(r, k))
<1>. DEFINE prompt == SubSeq(Stream[r], 1, Prompt[r])
            pages == Chain(r, k)
            caches == Starting(q, k, pages)
<1>1. k \in Nat /\ PageTokens * k < Prompt[r] /\ PageTokens \in Nat \ {0}
      /\ Prompt[r] \in Nat /\ Prompt[r] <= Len(Stream[r]) /\ Len(Stream[r]) \in Nat
  BY LookupIs, Constants
<1>2. \A j \in 1 .. k, l \in Layers : Holding(p, Node(Prefix(prompt, j)).pages[l], r, l, j)
  BY LookupIs
<1>. HIDE DEF prompt
<1>3. ASSUME NEW l \in Layers
      PROVE  /\ pages[l] = [j \in 1 .. k |-> pages[l][j]]
             /\ \A j \in 1 .. k : Holding(p, pages[l][j], r, l, j)
  BY <1>2 DEF Chain, prompt
<1>4. pages = [l \in Layers |-> pages[l]]
  BY DEF Chain
<1>5. \A l \in Layers : caches[l] = IF k = 0 THEN EmptyCache ELSE Adopted(q, pages[l])
  BY DEF Starting
<1>6. caches = [l \in Layers |-> caches[l]]
  BY DEF Starting
<1>. HIDE DEF pages, caches
<1>7. ASSUME NEW l \in Layers
      PROVE  /\ CacheOK(p, caches[l], r, l) /\ caches[l].offset = k * PageTokens
             /\ caches[l].pages = pages[l]
             /\ \A i \in 1 .. Len(caches[l].pages) : p.page[caches[l].pages[i]].sealed
  <2>1. CASE k = 0
    <3>1. caches[l] = EmptyCache
      BY <1>5, <2>1
    <3>2. EmptyCache.offset = 0 /\ EmptyCache.pages = <<>> /\ Len(EmptyCache.pages) = 0
      BY DEF EmptyCache
    <3>3. pages[l] = <<>>
      <4>1. pages[l] = [j \in 1 .. 0 |-> pages[l][j]]
        BY <1>3, <2>1
      <4>2. pages[l] \in Seq(Places) /\ Len(pages[l]) = 0
        BY <4>1
      <4>. QED
        BY <4>2
    <3>4. k * PageTokens = 0
      BY <1>1, <2>1
    <3>. QED
      BY <3>1, <3>2, <3>3, <3>4, EmptyIs
  <2>2. CASE k # 0
    <3>1. caches[l] = Adopted(q, pages[l]) /\ k \in Nat \ {0}
      BY <1>1, <1>5, <2>2
    <3>2. \A j \in 1 .. k : Holding(p, pages[l][j], r, l, j) /\ Same(p, q, pages[l][j])
      BY <1>3 DEF Holding
    <3>3. PageTokens * k <= Len(Stream[r]) /\ PageTokens * k = k * PageTokens
      BY <1>1
    <3>4. pages[l] = [j \in 1 .. k |-> pages[l][j]]
      BY <1>3
    <3>5. AdoptedWell(p, Adopted(q, pages[l]), pages[l], r, l, k)
      <4>1. \A j \in 1 .. k : pages[l][j] \in Places
        BY <3>2 DEF Holding, PoolOK
      <4>2. ASSUME NEW t, t = [j \in 1 .. k |-> pages[l][j]]
            PROVE  t \in Seq(Places) /\ Len(t) = k
        BY <1>1, <4>1, <4>2
      <4>3. pages[l] \in Seq(Places) /\ Len(pages[l]) = k
        BY <3>4, <4>2
      <4>4. Filling(p, q, pages[l], r, l, k)
        BY <3>1, <3>2, <3>3, <4>3 DEF Filling
      <4>. QED
        BY <4>4, AdoptedIs
    <3>6. /\ CacheOK(p, caches[l], r, l) /\ caches[l].pages = pages[l]
          /\ caches[l].offset = k * PageTokens
      BY <3>1, <3>3, <3>5 DEF AdoptedWell
    <3>7. \A j \in 1 .. Len(pages[l]) : p.page[pages[l][j]].sealed
      <4>1. ASSUME NEW t, t = [j \in 1 .. k |-> pages[l][j]]
            PROVE  DOMAIN t = 1 .. k /\ Len(t) = k
        BY <1>1, <4>1
      <4>2. Len(pages[l]) = k
        BY <3>4, <4>1
      <4>. QED
        BY <3>2, <4>2 DEF Holding
    <3>. QED
      BY <3>6, <3>7
  <2>. QED
    BY <2>1, <2>2
<1>8. \A l \in Layers : caches[l] \in Cache
  BY <1>7 DEF CacheOK
<1>9. caches \in [Layers -> Cache]
  BY <1>6, <1>8
<1>10. DOMAIN caches = Layers
  BY <1>9
<1>11. PagesIn(caches) = pages
  BY <1>4, <1>7, <1>10 DEF PagesIn
<1>. QED
  BY <1>7, <1>9, <1>11 DEF Started, pages, caches

\* The handle of a request that starts with k pages and sets amount aside.
Fresher(r, k, held) ==
    LET caches == Starting(held, k, Chain(r, k))
        amount == Growth(r, k * PageTokens)
    IN  [caches |-> caches, computed |-> k * PageTokens, requested |-> amount,
         reserved |-> amount, base |-> PagesOf(caches), published |-> FALSE, failed |-> FALSE]

\* The chain leaves a token of the prompt to compute.
LEMMA ChainFits ==
  ASSUME NEW p, IndexOK(p, index), NEW r \in Requests,
         NEW k \in {0, Matched(SubSeq(Stream[r], 1, Prompt[r]))}
  PROVE  k \in Nat /\ PageTokens * k < Prompt[r] /\ PageTokens \in Nat \ {0}
         /\ Prompt[r] \in Nat /\ Prompt[r] <= Len(Stream[r]) /\ Len(Stream[r]) \in Nat
<1>1. k \in Nat /\ PageTokens * k < Prompt[r]
  BY LookupIs
<1>. QED
  BY <1>1, Constants

\* The handle of a request that starts.
LEMMA FresherIs ==
  ASSUME NEW p, PoolOK(p), IndexOK(p, index), NEW r \in Requests,
         NEW k \in {0, Matched(SubSeq(Stream[r], 1, Prompt[r]))},
         NEW h, h = Fresher(r, k, Acquired(p, Chain(r, k)))
  PROVE  /\ h \in Handle /\ Whole(h) /\ PagesIn(h.caches) = Chain(r, k)
         /\ \A l \in Layers :
               /\ CacheOK(p, h.caches[l], r, l)
               /\ \A i \in 1 .. Len(h.caches[l].pages) : p.page[h.caches[l].pages[i]].sealed
<1>. DEFINE q == Acquired(p, Chain(r, k))
            caches == Starting(q, k, Chain(r, k))
            amount == Growth(r, k * PageTokens)
<1>1. \A at \in Live(p) : Same(p, q, at)
  BY AcquiredIs
<1>2. Started(p, q, r, k, caches, Chain(r, k))
  BY <1>1, StartingIs
<1>3. k \in Nat /\ PageTokens * k < Prompt[r] /\ PageTokens \in Nat \ {0}
      /\ Prompt[r] \in Nat /\ Prompt[r] <= Len(Stream[r]) /\ Len(Stream[r]) \in Nat
  BY ChainFits
<1>4. k * PageTokens \in Nat /\ k * PageTokens = PageTokens * k
  BY <1>3
<1>5. k * PageTokens <= Len(Stream[r])
  BY <1>3, <1>4
<1>6. amount \in Nat
  <2>. DEFINE e == k * PageTokens
  <2>1. e \in Nat /\ e <= Len(Stream[r])
    BY <1>4, <1>5
  <2>. HIDE DEF e
  <2>2. Growth(r, e) \in Nat
    BY <2>1, GrowthNat
  <2>. QED
    BY <2>2 DEF e
<1>7. /\ h.caches = caches /\ h.computed = k * PageTokens /\ h.requested = amount
      /\ h.reserved = amount /\ h.base = PagesOf(caches)
      /\ h = [caches |-> caches, computed |-> k * PageTokens, requested |-> amount,
              reserved |-> amount, base |-> PagesOf(caches), published |-> FALSE, failed |-> FALSE]
  BY DEF Fresher
<1>. HIDE DEF q, caches, amount
<1>8. /\ caches \in [Layers -> Cache] /\ PagesIn(caches) = Chain(r, k)
      /\ \A l \in Layers : caches[l].offset = k * PageTokens
      /\ \A l \in Layers :
            /\ CacheOK(p, caches[l], r, l)
            /\ \A i \in 1 .. Len(caches[l].pages) : p.page[caches[l].pages[i]].sealed
  BY <1>2 DEF Started
<1>9. PagesOf(caches) \in Nat
  BY <1>8, PagesOfNat
<1>10. h \in Handle
  <2>. DEFINE e == k * PageTokens
  <2>1. e \in Nat
    BY <1>4
  <2>2. h = [caches |-> caches, computed |-> e, requested |-> amount,
             reserved |-> amount, base |-> PagesOf(caches), published |-> FALSE, failed |-> FALSE]
    BY <1>7
  <2>. HIDE DEF e
  <2>. QED
    BY <1>6, <1>8, <1>9, <2>1, <2>2 DEF Handle
<1>11. Remainder(h) = amount
  BY <1>6, <1>7, <1>9, RemainderIs
<1>12. Whole(h)
  BY <1>7, <1>8, <1>11 DEF Whole
<1>. QED
  BY <1>7, <1>8, <1>10, <1>12

\* A request starts, or is refused: Start.
LEMMA StartNext ==
  ASSUME CInv, NEW r \in Requests, Start(r)
  PROVE  CInv'
<1>1. Step("idle") /\ forward' = forward /\ handles[r] = None
  BY DEF Start
<1>2. forward = Idle /\ Held(handles, NoDrafts) /\ Sound(pool, index, CachesOf(handles, NoDrafts))
      /\ \A o \in Requests : handles[o] # None => Whole(handles[o])
  BY <1>1, Idly DEF Settled
<1>. DEFINE Held0(k) == Acquired(pool, Chain(r, k))
            Touch(k) == Touched(SubSeq(Stream[r], 1, Prompt[r]), k)
            Amount(k) == Growth(r, k * PageTokens)
            Entry(k) == Starting(Held0(k), k, Chain(r, k))
<1>3. PICK k \in {0, Matched(SubSeq(Stream[r], 1, Prompt[r]))} :
         \E a \in Admission([pool |-> Held0(k), index |-> Touch(k)], Amount(k)) :
             /\ index' = a.state.index
             /\ pool' = IF a.ok THEN a.state.pool ELSE Closed(a.state.pool, Entry(k))
             /\ handles' = IF ~a.ok THEN handles
                           ELSE [handles EXCEPT ![r] = Fresher(r, k, Held0(k))]
  BY DEF Start, Chain, Starting, Fresher
<1>. DEFINE h == Fresher(r, k, Held0(k))
            gs == [handles EXCEPT ![r] = h]
            E == CachesOf(gs, NoDrafts)
<1>4. PoolOK(pool) /\ IndexOK(pool, index)
  BY <1>2 DEF Sound
<1>5. /\ h \in Handle /\ Whole(h) /\ PagesIn(h.caches) = Chain(r, k)
      /\ \A l \in Layers :
            /\ CacheOK(pool, h.caches[l], r, l)
            /\ \A i \in 1 .. Len(h.caches[l].pages) : pool.page[h.caches[l].pages[i]].sealed
  BY <1>4, FresherIs
<1>6. h.caches = Entry(k)
  BY DEF Fresher
<1>. HIDE DEF h
<1>7. Held(gs, NoDrafts) /\ Sound(Acquired(pool, PagesIn(h.caches)), index, E)
  BY <1>1, <1>2, <1>5, ComeIs
<1>8. Sound(Held0(k), index, E)
  BY <1>5, <1>7
<1>9. h # None /\ gs[r] = h /\ (\A o \in Requests \ {r} : gs[o] = handles[o])
      /\ handles = [gs EXCEPT ![r] = None]
  BY <1>1, <1>2, <1>5, NoHandle DEF Held
<1>. HIDE DEF Held0, gs, E
<1>10. Sound(Held0(k), Touch(k), E)
  <2>1. IndexOK(Held0(k), index)
    BY <1>8 DEF Sound
  <2>2. IndexOK(Held0(k), Touch(k)) /\ Stored(Touch(k)) = Stored(index)
    BY <2>1, TouchedIs
  <2>. QED
    BY <1>8, <2>2, ReorderedSound
<1>. HIDE DEF Touch, Amount, Entry
<1>11. PICK a \in Admission([pool |-> Held0(k), index |-> Touch(k)], Amount(k)) :
             /\ index' = a.state.index
             /\ pool' = IF a.ok THEN a.state.pool ELSE Closed(a.state.pool, Entry(k))
             /\ handles' = IF ~a.ok THEN handles ELSE gs
  BY <1>3 DEF gs, h
<1>12. Sound(a.state.pool, a.state.index, E)
  BY <1>10, AdmissionIs
<1>13. Settled(pool', index', handles')
  <2>1. CASE a.ok
    <3>1. pool' = a.state.pool /\ index' = a.state.index /\ handles' = gs
      BY <1>11, <2>1
    <3>2. \A o \in Requests : gs[o] # None => Whole(gs[o])
      BY <1>2, <1>5, <1>9
    <3>. QED
      BY <1>7, <1>12, <3>1, <3>2 DEF Settled, E
  <2>2. CASE ~a.ok
    <3>1. pool' = Closed(a.state.pool, gs[r].caches) /\ index' = a.state.index /\ handles' = handles
      BY <1>6, <1>9, <1>11, <2>2
    <3>2. Sound(Closed(a.state.pool, gs[r].caches), a.state.index, CachesOf(handles, NoDrafts))
      BY <1>7, <1>9, <1>12, GoneIs DEF E
    <3>. QED
      BY <1>2, <3>1, <3>2 DEF Settled
  <2>. QED
    BY <2>1, <2>2
<1>. QED
  BY <1>1, <1>2, <1>13, IdleNext

-----------------------------------------------------------------------------
(* The start and the end of a forward.                                     *)

\* What the invariant says during a forward.
LEMMA Going ==
  ASSUME CInv
  PROVE  /\ Held(handles, forward.drafts) /\ Sound(pool, index, CachesOf(handles, forward.drafts))
         /\ forward.group \subseteq Open /\ ForwardTyped
         /\ Step("clone") => Drafting /\ Copying
         /\ Step("append") => Drafting /\ Complete /\ Growing
         /\ Step("reconcile") => Complete /\ Adopting
         /\ \A r \in Open \ forward.active : Whole(handles[r])
  BY DEF CInv, HandlesOK, ForwardOK, ForwardTyped, Caches, Held

\* The forward ends, and some handles are marked.
LEMMA DropSettled ==
  ASSUME NEW p, NEW ix, NEW hs, NEW gs, NEW drafts, Held(hs, drafts), Sound(p, ix, CachesOf(hs, drafts)),
         Marked(hs, gs), \A r \in Requests : hs[r] # None => Whole(hs[r])
  PROVE  Settled(Drop(p, drafts), ix, gs)
<1>1. Sound(Drop(p, drafts), ix, CachesOf(hs, NoDrafts))
  BY DropSound
<1>2. Held(hs, NoDrafts)
  BY NoDraftsIs
<1>3. Settled(Drop(p, drafts), ix, hs)
  BY <1>1, <1>2 DEF Settled
<1>. QED
  BY <1>3, MarkedSettled

\* A forward fails before its commit.
LEMMA AbortNext ==
  ASSUME CInv, Step("clone") \/ Step("append"), index' = index,
         NEW p, Sound(p, index, CachesOf(handles, forward.drafts)), Abort(p)
  PROVE  CInv'
<1>1. pool' = Drop(p, forward.drafts) /\ handles' = Failed(forward.group) /\ forward' = Idle
  BY DEF Abort
<1>2. forward.active = {}
  BY Going DEF Drafting
<1>3. Held(handles, forward.drafts) /\ forward.group \subseteq Open
      /\ \A r \in Requests : handles[r] # None => Whole(handles[r])
  BY <1>2, Going DEF Open
<1>4. Marked(handles, Failed(forward.group))
  BY <1>3, FailedMarks DEF Held
<1>5. Settled(pool', index', handles')
  BY <1>1, <1>3, <1>4, DropSettled
<1>. QED
  BY <1>1, <1>5, IdleNext

\* The device fails: Crash.
LEMMA CrashNext ==
  ASSUME CInv, Crash
  PROVE  CInv'
  BY Going, AbortNext DEF Crash

\* A tail is as writable as before when the pool changes underneath it.
LEMMA TailsKept ==
  ASSUME NEW p, NEW ix, NEW q, NEW jx, NEW hs, NEW ds, NEW es, Held(hs, ds), Held(hs, es),
         Sound(p, ix, CachesOf(hs, ds)), Sound(q, jx, CachesOf(hs, es)),
         NEW r \in Requests, hs[r] # None, NEW l \in Layers
  PROVE  LastSealed(p, hs[r].caches[l]) <=> LastSealed(q, hs[r].caches[l])
<1>1. CacheOK(p, hs[r].caches[l], r, l) /\ CacheOK(q, hs[r].caches[l], r, l)
  BY RequestCache
<1>2. PoolOK(p) /\ PoolOK(q)
  BY DEF Sound
<1>. QED
  BY <1>1, <1>2, SealedSame

Began(group, width) ==
    [stage |-> "clone", group |-> group, width |-> width, transient |-> Transient(group),
     drafts |-> NoDrafts, active |-> {}, accounts |-> <<>>]

\* The layers of some requests are finitely many.
LEMMA PairsFinite ==
  ASSUME NEW group, group \subseteq Requests, NEW T, T \subseteq group \X Layers
  PROVE  IsFiniteSet(T) /\ Cardinality(T) \in Nat
<1>1. IsFiniteSet(group) /\ IsFiniteSet(Layers)
  BY Constants, FS_Subset
<1>2. IsFiniteSet(group \X Layers)
  BY <1>1, FS_Product
<1>3. IsFiniteSet(T)
  BY <1>2, FS_Subset
<1>. QED
  BY <1>3, FS_CardinalityType

\* A forward is admitted, or refused: Begin.
LEMMA BeginNext ==
  ASSUME CInv, NEW group \in SUBSET Requests, Begin(group)
  PROVE  CInv'
<1>1. Step("idle") /\ group # {} /\ group \subseteq Open
      /\ \A r \in group : handles[r].computed < Len(Stream[r])
  BY DEF Begin, Ready
<1>2. forward = Idle /\ Held(handles, NoDrafts) /\ Sound(pool, index, CachesOf(handles, NoDrafts))
      /\ (\A r \in Requests : handles[r] # None => Whole(handles[r])) /\ Settled(pool, index, handles)
  BY <1>1, Idly DEF Settled
<1>3. PICK width \in [group -> 1 .. Quantum] :
         /\ \A r \in group : IF Decoding(r) THEN width[r] = 1
                             ELSE width[r] <= Prompt[r] - handles[r].computed
         /\ \E a \in Admission([pool |-> pool, index |-> index], Transient(group)) :
               /\ pool' = a.state.pool /\ index' = a.state.index
               /\ IF a.ok THEN forward' = Began(group, width) /\ UNCHANGED handles
                  ELSE handles' = Failed(group) /\ UNCHANGED forward
  BY DEF Begin, Began
<1>4. PICK a \in Admission([pool |-> pool, index |-> index], Transient(group)) :
         /\ pool' = a.state.pool /\ index' = a.state.index
         /\ IF a.ok THEN forward' = Began(group, width) /\ UNCHANGED handles
            ELSE handles' = Failed(group) /\ UNCHANGED forward
  BY <1>3
<1>5. Sound(pool', index', CachesOf(handles, NoDrafts)) /\ (a.ok => Fits(pool', Transient(group)))
  BY <1>2, <1>4, AdmissionIs
<1>6. CASE ~a.ok
  <2>1. Marked(handles, handles')
    BY <1>1, <1>2, <1>4, <1>6, FailedMarks DEF Held
  <2>2. Settled(pool', index', handles)
    BY <1>2, <1>5 DEF Settled
  <2>3. Settled(pool', index', handles')
    BY <2>1, <2>2, MarkedSettled
  <2>. QED
    BY <1>2, <1>4, <1>6, <2>3, IdleNext
<1>7. CASE a.ok
  <2>1. forward' = Began(group, width) /\ handles' = handles
    BY <1>4, <1>7
  <2>2. /\ forward'.stage = "clone" /\ forward'.group = group /\ forward'.width = width
        /\ forward'.transient = Transient(group) /\ forward'.drafts = NoDrafts
        /\ forward'.active = {} /\ forward'.accounts = <<>>
        /\ forward' = [stage |-> forward'.stage, group |-> forward'.group, width |-> forward'.width,
                       transient |-> forward'.transient, drafts |-> forward'.drafts,
                       active |-> forward'.active, accounts |-> forward'.accounts]
    BY <2>1 DEF Began
  <2>3. HandlesOK'
    BY <1>2, <2>1, <2>2 DEF HandlesOK, Open, Held
  <2>4. Sound(pool, index, Caches)'
    BY <1>5, <2>1, <2>2 DEF Caches
  <2>. DEFINE T == {x \in group \X Layers : ~LastSealed(pool, handles[x[1]].caches[x[2]])}
  <2>5. Cardinality(T) \in Nat /\ Transient(group) = SegmentPages * Cardinality(T)
    <3>1. Cardinality(T) \in Nat
      <4>1. T \subseteq group \X Layers
        OBVIOUS
      <4>. HIDE DEF T
      <4>. QED
        BY <4>1, PairsFinite
    <3>2. Transient(group) = SegmentPages * Cardinality(T)
      BY DEF Transient, MutableTails
    <3>. QED
      BY <3>1, <3>2
  <2>6. Transient(group) \in Nat
    BY <2>5, TimesNat, Constants
  <2>7. \A r \in Requests : NoDrafts[r] = <<>> /\ Len(NoDrafts[r]) = 0
    BY <1>2, NoDraftsIs
  <2>8. ForwardTyped'
    <3>1. group \subseteq Open'
      BY <1>1, <2>1 DEF Open
    <3>2. NoDrafts \in [Requests -> Seq(Cache)] /\ \A r \in Requests : Len(NoDrafts[r]) <= Cardinality(Layers)
      BY <1>2 DEF Held
    <3>. QED
      BY <2>2, <2>6, <2>7, <3>1, <3>2 DEF ForwardTyped
  <2>9. Drafting'
    <3>1. ASSUME NEW r \in group
          PROVE  width[r] \in Nat /\ handles[r].computed + width[r] <= Len(Stream[r])
      <4>1. width[r] \in 1 .. Quantum /\ Quantum \in Nat /\ Prompt[r] \in Nat
            /\ Prompt[r] <= Len(Stream[r]) /\ Len(Stream[r]) \in Nat
        BY Constants
      <4>2. handles[r].computed \in Nat
        BY <1>1, <1>2 DEF Held, Open, Handle
      <4>3. width[r] = 1 \/ width[r] <= Prompt[r] - handles[r].computed
        BY <1>3
      <4>4. handles[r].computed < Len(Stream[r])
        BY <1>1
      <4>. QED
        BY <4>1, <4>2, <4>3, <4>4
    <3>. QED
      BY <1>1, <2>1, <2>2, <3>1 DEF Drafting
  <2>10. Awaiting' = T
    <3>1. \A x \in group \X Layers :
             LastSealed(pool, handles[x[1]].caches[x[2]]) <=> LastSealed(pool', handles[x[1]].caches[x[2]])
      BY <1>1, <1>2, <1>5, TailsKept DEF Open
    <3>2. \A x \in group \X Layers : Len(NoDrafts[x[1]]) < x[2]
      <4>1. \A l \in Layers : 0 < l
        BY Constants
      <4>. QED
        BY <2>7, <4>1
    <3>. QED
      BY <2>1, <2>2, <3>1, <3>2 DEF Awaiting, Mutable
  <2>11. Physical(pool') + SegmentPages * Cardinality(T) <= Capacity
    <3>1. Outstanding \in Nat
      BY <1>2, OutstandingNat DEF Idle, Held
    <3>2. Transient(group) <= Capacity - Physical(pool') - Outstanding
      BY <1>5, <1>7 DEF Fits
    <3>3. Physical(pool') \in Nat /\ Capacity \in Nat
      BY PhysicalIs, Constants
    <3>. QED
      BY <2>5, <2>6, <3>1, <3>2, <3>3
  <2>12. Copying'
    <3>1. \A r \in group : DOMAIN NoDrafts[r] = {}
      BY <2>7
    <3>. QED
      BY <2>1, <2>2, <2>10, <2>11, <3>1 DEF Copying
  <2>13. ForwardOK'
    BY <2>2, <2>8, <2>9, <2>12 DEF ForwardOK, Step
  <2>. QED
    BY <2>3, <2>4, <2>13 DEF CInv
<1>. QED
  BY <1>6, <1>7

-----------------------------------------------------------------------------
(* The copies a forward starts with.                                       *)

\* A layer's draft is there, and the others are as they were.
Drafted(drafts, ds, r, l, c) == Len(drafts[r]) = l - 1 /\ ds = [drafts EXCEPT ![r] = Append(@, c)]
DraftIn(hs, drafts, ds, r, l, c) ==
    /\ Held(hs, ds) /\ Len(ds[r]) = l /\ ds[r][l] = c
    /\ \A i \in 1 .. (l - 1) : ds[r][i] = drafts[r][i]
    /\ \A o \in Requests \ {r} : ds[o] = drafts[o]

\* A draft gets its next layer.
LEMMA DraftAdded ==
  ASSUME NEW hs, NEW drafts, Held(hs, drafts), NEW r \in Requests, NEW l \in Layers,
         NEW c \in Cache, NEW ds, Drafted(drafts, ds, r, l, c)
  PROVE  /\ DraftIn(hs, drafts, ds, r, l, c)
         /\ Extended(CachesOf(hs, drafts), CachesOf(hs, ds), <<"draft", r, l>>, c)
<1>0. Len(drafts[r]) = l - 1 /\ ds = [drafts EXCEPT ![r] = Append(@, c)]
  BY DEF Drafted
<1>1. l \in Nat /\ l >= 1 /\ l <= Cardinality(Layers) /\ Cardinality(Layers) \in Nat
  BY Constants
<1>2. drafts \in [Requests -> Seq(Cache)] /\ drafts[r] \in Seq(Cache)
      /\ \A o \in Requests : Len(drafts[o]) <= Cardinality(Layers)
  BY DEF Held
<1>3. /\ ds[r] = Append(drafts[r], c) /\ \A o \in Requests \ {r} : ds[o] = drafts[o]
      /\ DOMAIN ds = Requests /\ ds = [o \in Requests |-> ds[o]]
  BY <1>0, <1>2
<1>4. /\ ds[r] \in Seq(Cache) /\ Len(ds[r]) = l /\ ds[r][l] = c
      /\ \A i \in 1 .. (l - 1) : ds[r][i] = drafts[r][i]
  BY <1>0, <1>1, <1>2, <1>3
<1>5. Held(hs, ds)
  <2>1. \A o \in Requests : ds[o] \in Seq(Cache) /\ Len(ds[o]) <= Cardinality(Layers)
    BY <1>1, <1>2, <1>3, <1>4
  <2>2. ds \in [Requests -> Seq(Cache)]
    BY <1>3, <2>1
  <2>. QED
    BY <2>1, <2>2 DEF Held
<1>. DEFINE C == CachesOf(hs, drafts)
            E == CachesOf(hs, ds)
            y == <<"draft", r, l>>
<1>. HIDE DEF y
<1>6. y[1] = "draft" /\ y[2] = r /\ y[3] = l
  BY DEF y
<1>7. y \notin DOMAIN C
  <2>. SUFFICES ASSUME y \in DOMAIN C PROVE FALSE
    OBVIOUS
  <2>1. OfRequest(C, hs, y) \/ OfDraft(C, drafts, y)
    BY CachesNames
  <2>2. ~(l <= Len(drafts[r]))
    BY <1>0, <1>1
  <2>. QED
    BY <1>6, <2>1, <2>2 DEF OfRequest, OfDraft
<1>8. y \in DOMAIN E /\ E[y] = c
  <2>1. At(E, <<"draft", r, l>>, ds[r][l])
    <3>1. l <= Len(ds[r])
      BY <1>1, <1>4
    <3>. QED
      BY <1>5, <3>1, DraftAt
  <2>. QED
    BY <1>4, <2>1 DEF At, y
<1>9. ASSUME NEW z \in DOMAIN C PROVE z \in DOMAIN E /\ E[z] = C[z]
  <2>. DEFINE o == z[2]
              i == z[3]
  <2>1. CASE OfRequest(C, hs, z)
    <3>1. z = <<"request", o, i>> /\ o \in Requests /\ i \in Layers /\ hs[o] # None /\ C[z] = hs[o].caches[i]
      BY <2>1 DEF OfRequest
    <3>. HIDE DEF o, i
    <3>2. At(CachesOf(hs, ds), <<"request", o, i>>, hs[o].caches[i])
      BY <1>5, <3>1, RequestAt
    <3>. QED
      BY <3>1, <3>2 DEF At
  <2>2. CASE OfDraft(C, drafts, z)
    <3>1. z = <<"draft", o, i>> /\ o \in Requests /\ i \in Layers /\ i <= Len(drafts[o])
          /\ C[z] = drafts[o][i]
      BY <2>2 DEF OfDraft
    <3>. HIDE DEF o, i
    <3>2. i \in Nat /\ i >= 1
      BY <3>1, Constants
    <3>3. i <= Len(ds[o]) /\ ds[o][i] = drafts[o][i]
      <4>1. CASE o = r
        BY <1>0, <1>1, <1>4, <3>1, <3>2, <4>1
      <4>2. CASE o # r
        BY <1>3, <3>1, <4>2
      <4>. QED
        BY <4>1, <4>2
    <3>4. At(CachesOf(hs, ds), <<"draft", o, i>>, ds[o][i])
      BY <1>5, <3>1, <3>3, DraftAt
    <3>. QED
      BY <3>1, <3>3, <3>4 DEF At
  <2>. QED
    BY <2>1, <2>2, CachesNames
<1>10. ASSUME NEW z \in DOMAIN E, z # y PROVE z \in DOMAIN C
  <2>. DEFINE o == z[2]
              i == z[3]
  <2>1. CASE OfRequest(E, hs, z)
    <3>1. z = <<"request", o, i>> /\ o \in Requests /\ i \in Layers /\ hs[o] # None
      BY <2>1 DEF OfRequest
    <3>. HIDE DEF o, i
    <3>2. At(CachesOf(hs, drafts), <<"request", o, i>>, hs[o].caches[i])
      BY <3>1, RequestAt
    <3>. QED
      BY <3>1, <3>2 DEF At
  <2>2. CASE OfDraft(E, ds, z)
    <3>1. z = <<"draft", o, i>> /\ o \in Requests /\ i \in Layers /\ i <= Len(ds[o])
      BY <2>2 DEF OfDraft
    <3>. HIDE DEF o, i
    <3>2. ~(o = r /\ i = l)
      BY <1>10, <3>1 DEF y
    <3>3. i \in Nat
      BY <3>1, Constants
    <3>4. i <= Len(drafts[o])
      <4>1. CASE o = r
        BY <1>0, <1>1, <1>4, <3>1, <3>2, <3>3, <4>1
      <4>2. CASE o # r
        BY <1>3, <3>1, <4>2
      <4>. QED
        BY <4>1, <4>2
    <3>5. At(CachesOf(hs, drafts), <<"draft", o, i>>, drafts[o][i])
      BY <3>1, <3>4, DraftAt
    <3>. QED
      BY <3>1, <3>5 DEF At
  <2>. QED
    BY <1>5, <2>1, <2>2, CachesNames
<1>11. E = [z \in DOMAIN E |-> E[z]]
  BY DEF CachesOf
<1>. HIDE DEF C, E
<1>12. DOMAIN E = DOMAIN C \cup {y}
  BY <1>8, <1>9, <1>10
<1>13. Extended(C, E, y, c)
  BY <1>7, <1>8, <1>9, <1>11, <1>12 DEF Extended
<1>. QED
  BY <1>3, <1>4, <1>5, <1>13 DEF C, E, y, DraftIn

\* That layer is a clone of the one of the request.
LEMMA ClonedDraft ==
  ASSUME NEW p, NEW ix, NEW hs, NEW drafts, Held(hs, drafts), Sound(p, ix, CachesOf(hs, drafts)),
         NEW r \in Requests, NEW l \in Layers, hs[r] # None,
         NEW a \in Cloned(p, hs[r].caches[l], l), NEW ds, Drafted(drafts, ds, r, l, a.cache)
  PROVE  /\ DraftIn(hs, drafts, ds, r, l, a.cache)
         /\ Copied(p, ix, hs[r].caches[l], a, CachesOf(hs, ds))
<1>. DEFINE C == CachesOf(hs, drafts)
            x == <<"request", r, l>>
            y == <<"draft", r, l>>
            c == hs[r].caches[l]
            D == [z \in DOMAIN C \cup {y} |-> IF z = y THEN a.cache ELSE C[z]]
<1>1. At(C, x, c)
  BY RequestAt
<1>2. x[2] = r /\ x[3] = l /\ y[2] = r /\ y[3] = l /\ y[1] = "draft"
  OBVIOUS
<1>. HIDE DEF x
<1>3. x \in DOMAIN C /\ C[x] = c
  BY <1>1 DEF At
<1>4. y \notin DOMAIN C
  <2>. SUFFICES ASSUME y \in DOMAIN C PROVE FALSE
    OBVIOUS
  <2>1. OfRequest(C, hs, y) \/ OfDraft(C, drafts, y)
    BY CachesNames
  <2>2. ~(l <= Len(drafts[r]))
    BY Constants DEF Drafted
  <2>. QED
    BY <1>2, <2>1, <2>2 DEF OfRequest, OfDraft
<1>5. Sound(p, ix, C)
  OBVIOUS
<1>. HIDE DEF C
<1>6. Extended(C, D, y, a.cache)
  <2>. HIDE DEF y
  <2>1. DOMAIN D = DOMAIN C \cup {y} /\ D[y] = a.cache /\ (\A z \in DOMAIN C : D[z] = C[z])
        /\ D = [z \in DOMAIN D |-> D[z]]
    BY <1>4
  <2>. QED
    BY <1>4, <2>1 DEF Extended
<1>. HIDE DEF y, c, D
<1>7. a \in Cloned(p, C[x], x[3])
  BY <1>2, <1>3 DEF c
<1>8. ASSUME NEW E, Extended(C, E, y, a.cache)
      PROVE  Copied(p, ix, C[x], a, E)
  <2>1. y[2] = x[2] /\ y[3] = x[3]
    BY <1>2
  <2>. QED
    BY <1>3, <1>4, <1>5, <1>7, <1>8, <2>1, ClonedSound
<1>9. a.cache \in Cache
  <2>1. Sound(a.pool, ix, D)
    BY <1>6, <1>8 DEF Copied
  <2>2. CacheOK(a.pool, D[y], y[2], y[3])
    BY <1>6, <2>1 DEF Sound, CachesOK, Extended
  <2>3. D[y] = a.cache
    BY <1>6 DEF Extended
  <2>. QED
    BY <2>2, <2>3 DEF CacheOK
<1>10. /\ DraftIn(hs, drafts, ds, r, l, a.cache)
       /\ Extended(CachesOf(hs, drafts), CachesOf(hs, ds), <<"draft", r, l>>, a.cache)
  BY <1>9, DraftAdded
<1>11. Extended(C, CachesOf(hs, ds), y, a.cache)
  BY <1>10 DEF C, y
<1>. QED
  BY <1>3, <1>8, <1>10, <1>11 DEF c

\* A request of the forward has a handle and drafts.
LEMMA GroupIs ==
  ASSUME CInv, NEW r \in forward.group
  PROVE  /\ r \in Requests /\ r \in Nat /\ handles[r] # None /\ handles[r] \in Handle
         /\ handles[r].computed \in Nat /\ forward.drafts[r] \in Seq(Cache) /\ Len(forward.drafts[r]) \in Nat
         /\ Cardinality(Layers) \in Nat /\ Len(forward.drafts[r]) <= Cardinality(Layers)
<1>1. r \in Open /\ Held(handles, forward.drafts)
  BY Going
<1>2. r \in Requests /\ handles[r] # None /\ handles[r] \in Handle /\ forward.drafts[r] \in Seq(Cache)
      /\ Len(forward.drafts[r]) <= Cardinality(Layers)
  BY <1>1 DEF Held, Open
<1>. QED
  BY <1>2, Constants DEF Handle

\* The drafts of a forward change, and nothing else of its record but the stage.
Redrafted(ds, stage) ==
    /\ forward'.stage = stage /\ forward'.group = forward.group /\ forward'.width = forward.width
    /\ forward'.transient = forward.transient /\ forward'.drafts = ds
    /\ forward'.active = forward.active /\ forward'.accounts = forward.accounts
    /\ forward' = [stage |-> forward'.stage, group |-> forward'.group, width |-> forward'.width,
                   transient |-> forward'.transient, drafts |-> forward'.drafts,
                   active |-> forward'.active, accounts |-> forward'.accounts]

\* A step that changes the drafts of one request.
LEMMA RedraftedTyped ==
  ASSUME CInv, handles' = handles, NEW ds, NEW stage \in {"clone", "append"}, Redrafted(ds, stage),
         Step("clone") \/ Step("append"), Held(handles, ds),
         NEW r \in forward.group, \A o \in Requests \ {r} : ds[o] = forward.drafts[o]
  PROVE  HandlesOK' /\ ForwardTyped' /\ Drafting'
<1>1. ForwardTyped /\ Drafting /\ HandlesOK
  BY Going DEF CInv
<1>2. HandlesOK'
  BY <1>1 DEF HandlesOK, Open, Redrafted
<1>3. Drafting'
  BY <1>1 DEF Drafting, Redrafted
<1>4. ForwardTyped'
  <2>1. forward.group \subseteq Open' /\ forward.active \subseteq forward.group /\ forward.transient \in Nat
    BY <1>1 DEF ForwardTyped, Open
  <2>2. \A o \in Requests \ forward.group : ds[o] = <<>>
    BY <1>1 DEF ForwardTyped
  <2>3. ds \in [Requests -> Seq(Cache)] /\ \A o \in Requests : Len(ds[o]) <= Cardinality(Layers)
    BY DEF Held
  <2>. QED
    BY <2>1, <2>2, <2>3 DEF ForwardTyped, Redrafted
<1>. QED
  BY <1>2, <1>3, <1>4

\* A finite set of numbers has a bound.
LEMMA FiniteBounded ==
  ASSUME NEW S \in SUBSET Nat, IsFiniteSet(S)
  PROVE  \E b \in Nat : \A s \in S : s <= b
<1>1. PICK n \in Nat : ExistsBijection(1 .. n, S)
  BY FS_NatBijection
<1>2. PICK f \in [1 .. n -> S] : \A s \in S : \E i \in 1 .. n : f[i] = s
  BY <1>1 DEF ExistsBijection, Bijection, Surjection
<1>3. f \in [1 .. n -> Nat]
  BY <1>2
<1>4. PICK b \in Nat : \A i \in 1 .. n : f[i] <= b
  BY <1>3, Bounded
<1>. QED
  BY <1>2, <1>4

\* One tail fewer waits for its copy.
LEMMA OneFewer ==
  ASSUME NEW group, group \subseteq Requests, NEW A, A \subseteq group \X Layers, NEW x, NEW B,
         B = A \ {x}
  PROVE  /\ Cardinality(A) \in Nat /\ Cardinality(B) \in Nat
         /\ x \in A => Cardinality(B) + 1 = Cardinality(A)
         /\ x \notin A => Cardinality(B) = Cardinality(A)
<1>1. IsFiniteSet(A) /\ Cardinality(A) \in Nat
  BY PairsFinite
<1>2. CASE x \in A
  <2>1. Cardinality(A \ {x}) = Cardinality(A) - 1
    BY <1>1, <1>2, FS_RemoveElement
  <2>2. IsFiniteSet(B) /\ Cardinality(B) \in Nat
    BY <1>1, FS_Subset, FS_CardinalityType
  <2>. QED
    BY <1>1, <1>2, <2>1, <2>2
<1>3. CASE x \notin A
  BY <1>1, <1>3
<1>. QED
  BY <1>2, <1>3

\* The room that is left for the tails still to be copied, behind a copy.
LEMMA RoomKept ==
  ASSUME NEW P \in Nat, NEW Q \in Nat, NEW a \in Nat, NEW b \in Nat, NEW s \in Nat, NEW m \in BOOLEAN,
         P + s * a <= Capacity, Q <= P + (IF m THEN 0 ELSE s),
         ~m => b + 1 = a, m => b = a
  PROVE  Q + s * b <= Capacity
<1>1. Capacity \in Nat
  BY Constants
<1>2. CASE m
  BY <1>1, <1>2
<1>3. CASE ~m
  <2>1. s * a = s * b + s
    BY <1>3
  <2>2. s * a \in Nat /\ s * b \in Nat
    OBVIOUS
  <2>. QED
    BY <1>1, <1>3, <2>1, <2>2
<1>. QED
  BY <1>2, <1>3

\* A layer is cloned: Clone.
LEMMA CloneNext ==
  ASSUME CInv, NEW r \in Requests, NEW l \in Layers, Clone(r, l)
  PROVE  CInv'
<1>. DEFINE g == forward.group
            c == handles[r].caches[l]
            stage == IF l = Cardinality(Layers) /\ r = Max(g) THEN "append" ELSE "clone"
<1>1. Step("clone") /\ r \in g /\ Cloning(r, l) /\ index' = index /\ handles' = handles
  BY DEF Clone
<1>2. PICK a \in Cloned(pool, c, l) :
         /\ pool' = a.pool
         /\ forward' = [forward EXCEPT !.drafts[r] = Append(@, a.cache),
                                       !.stage = IF l = Cardinality(Layers) /\ r = Max(g)
                                                 THEN "append" ELSE @]
  BY DEF Clone
<1>. DEFINE ds == [forward.drafts EXCEPT ![r] = Append(@, a.cache)]
<1>3. /\ Held(handles, forward.drafts) /\ Sound(pool, index, CachesOf(handles, forward.drafts))
      /\ g \subseteq Open /\ g \subseteq Requests /\ ForwardTyped /\ Drafting /\ Copying
      /\ \A o \in Open : Whole(handles[o])
  BY <1>1, Going DEF Drafting, Open
<1>4. Redrafted(ds, stage)
  <2>1. /\ forward = [stage |-> forward.stage, group |-> forward.group, width |-> forward.width,
                      transient |-> forward.transient, drafts |-> forward.drafts,
                      active |-> forward.active, accounts |-> forward.accounts]
        /\ forward.stage = "clone"
    BY <1>1, <1>3 DEF ForwardTyped, Step
  <2>2. forward' = [forward EXCEPT !.drafts = ds, !.stage = stage]
    BY <1>2, <2>1
  <2>. HIDE DEF ds, stage
  <2>. QED
    BY <2>1, <2>2 DEF Redrafted
<1>5. stage \in {"clone", "append"}
  OBVIOUS
<1>6. /\ handles[r] # None /\ Len(forward.drafts[r]) = l - 1
      /\ \A o \in g : o < r => Len(forward.drafts[o]) = Cardinality(Layers)
  BY <1>1, GroupIs DEF Cloning
<1>7. Drafted(forward.drafts, ds, r, l, a.cache)
  BY <1>6 DEF Drafted
<1>. HIDE DEF ds, stage
<1>8. /\ DraftIn(handles, forward.drafts, ds, r, l, a.cache)
      /\ Copied(pool, index, c, a, CachesOf(handles, ds))
  BY <1>3, <1>6, <1>7, ClonedDraft
<1>. HIDE DEF c
<1>9. /\ Held(handles, ds) /\ Len(ds[r]) = l /\ ds[r][l] = a.cache
      /\ \A i \in 1 .. (l - 1) : ds[r][i] = forward.drafts[r][i]
      /\ \A o \in Requests \ {r} : ds[o] = forward.drafts[o]
  BY <1>8 DEF DraftIn
<1>10. /\ Sound(pool', index, CachesOf(handles, ds)) /\ a.cache.offset = c.offset
       /\ Physical(pool') <= Physical(pool) + (IF LastSealed(pool, c) THEN 0 ELSE SegmentPages)
  BY <1>2, <1>8 DEF Copied
<1>11. HandlesOK' /\ ForwardTyped' /\ Drafting'
  BY <1>1, <1>4, <1>5, <1>9, RedraftedTyped
<1>12. Sound(pool, index, Caches)'
  BY <1>1, <1>4, <1>10 DEF Caches, Redrafted
<1>13. ASSUME NEW o \in g, NEW i \in DOMAIN ds[o] PROVE ds[o][i].offset = handles[o].computed
  <2>1. \A k \in DOMAIN forward.drafts[o] : forward.drafts[o][k].offset = handles[o].computed
    BY <1>3 DEF Copying
  <2>2. CASE o # r
    BY <1>3, <1>9, <2>1, <2>2
  <2>3. CASE o = r /\ i = l
    <3>1. c.offset = handles[r].computed
      BY <1>1, <1>3 DEF Whole, c
    <3>. QED
      BY <1>9, <1>10, <2>3, <3>1
  <2>4. CASE o = r /\ i # l
    <3>1. ds[r] \in Seq(Cache) /\ forward.drafts[r] \in Seq(Cache) /\ l \in Nat
      BY <1>3, <1>9, Constants DEF Held
    <3>2. i \in 1 .. l
      BY <1>9, <2>4, <3>1
    <3>3. i \in 1 .. (l - 1) /\ i \in DOMAIN forward.drafts[r]
      BY <1>6, <2>4, <3>1, <3>2
    <3>. QED
      BY <1>9, <2>1, <2>4, <3>3
  <2>. QED
    BY <2>2, <2>3, <2>4
<1>14. Physical(pool') + SegmentPages * Cardinality(Awaiting') <= Capacity
  <2>1. Physical(pool) + SegmentPages * Cardinality(Awaiting) <= Capacity
    BY <1>3 DEF Copying
  <2>. DEFINE x == <<r, l>>
  <2>2. ASSUME NEW z \in g \X Layers
        PROVE  LastSealed(pool, handles[z[1]].caches[z[2]]) <=> LastSealed(pool', handles[z[1]].caches[z[2]])
    <3>1. z[1] \in Requests /\ handles[z[1]] # None /\ z[2] \in Layers
      BY <1>3 DEF Open
    <3>. QED
      BY <1>3, <1>9, <1>10, <3>1, TailsKept
  <2>3. ASSUME NEW z \in g \X Layers
        PROVE  Len(ds[z[1]]) < z[2] <=> (Len(forward.drafts[z[1]]) < z[2] /\ z # x)
    <3>. DEFINE i == z[1]
                j == z[2]
    <3>1. z = <<i, j>> /\ i \in g /\ j \in Layers /\ i \in Requests
      BY <1>3
    <3>2. z = x <=> (i = r /\ j = l)
      BY <3>1
    <3>. HIDE DEF i, j, x
    <3>3. j \in Nat /\ l \in Nat
      BY <3>1, Constants
    <3>4. Len(ds[i]) < j <=> (Len(forward.drafts[i]) < j /\ ~(i = r /\ j = l))
      <4>1. CASE i = r
        BY <1>6, <1>9, <3>3, <4>1
      <4>2. CASE i # r
        BY <1>9, <3>1, <4>2
      <4>. QED
        BY <4>1, <4>2
    <3>. QED
      BY <3>2, <3>4 DEF i, j
  <2>4. Awaiting' = Awaiting \ {x}
    <3>. DEFINE Keep(q, d) == {z \in g \X Layers : Len(d[z[1]]) < z[2] /\ ~LastSealed(q, handles[z[1]].caches[z[2]])}
    <3>1. Awaiting' = Keep(pool', ds)
      BY <1>1, <1>4 DEF Awaiting, Mutable, Redrafted
    <3>2. Awaiting = Keep(pool, forward.drafts)
      BY DEF Awaiting, Mutable
    <3>3. Keep(pool', ds) = Keep(pool, forward.drafts) \ {x}
      <4>. HIDE DEF x
      <4>. QED
        BY <2>2, <2>3
    <3>. HIDE DEF Keep
    <3>. QED
      BY <3>1, <3>2, <3>3
  <2>5. x \in Awaiting <=> ~LastSealed(pool, c)
    <3>1. Len(forward.drafts[r]) < l
      BY <1>6, Constants
    <3>. QED
      BY <1>1, <3>1 DEF Awaiting, Mutable, c
  <2>6. Awaiting \subseteq g \X Layers
    BY DEF Awaiting
  <2>. HIDE DEF x
  <2>7. /\ Cardinality(Awaiting) \in Nat /\ Cardinality(Awaiting') \in Nat
        /\ x \in Awaiting => Cardinality(Awaiting') + 1 = Cardinality(Awaiting)
        /\ x \notin Awaiting => Cardinality(Awaiting') = Cardinality(Awaiting)
    BY <1>3, <2>4, <2>6, OneFewer
  <2>8. Physical(pool) \in Nat /\ Physical(pool') \in Nat /\ SegmentPages \in Nat
    BY PhysicalIs, Constants
  <2>. DEFINE m == x \notin Awaiting
  <2>9. m \in BOOLEAN /\ Physical(pool') <= Physical(pool) + (IF m THEN 0 ELSE SegmentPages)
    BY <1>10, <2>5
  <2>10. (~m => Cardinality(Awaiting') + 1 = Cardinality(Awaiting))
         /\ (m => Cardinality(Awaiting') = Cardinality(Awaiting))
    BY <2>7
  <2>. HIDE DEF m
  <2>. QED
    BY <2>1, <2>7, <2>8, <2>9, <2>10, RoomKept
<1>15. CASE stage = "clone"
  <2>1. Copying'
    BY <1>1, <1>4, <1>13, <1>14 DEF Copying, Redrafted
  <2>2. ForwardOK'
    BY <1>4, <1>11, <1>15, <2>1 DEF ForwardOK, Step, Redrafted
  <2>. QED
    BY <1>11, <1>12, <2>2 DEF CInv
<1>16. CASE stage = "append"
  <2>1. l = Cardinality(Layers) /\ r = Max(g)
    BY <1>16 DEF stage
  <2>2. \A o \in g : o <= r
    <3>1. g \in SUBSET Nat /\ g # {} /\ IsFiniteSet(g)
      BY <1>1, <1>3, Constants, FS_Subset
    <3>2. \E n \in Nat : \A o \in g : o <= n
      BY <3>1, FiniteBounded
    <3>. QED
      BY <2>1, <3>1, <3>2, MaxIs
  <2>3. \A o \in g : Len(ds[o]) = Cardinality(Layers)
    <3>. SUFFICES ASSUME NEW o \in g PROVE Len(ds[o]) = Cardinality(Layers)
      OBVIOUS
    <3>1. CASE o = r
      BY <1>9, <2>1, <3>1
    <3>2. CASE o # r
      <4>1. o \in Nat /\ r \in Nat /\ o \in Requests
        BY <1>3, Constants
      <4>2. o < r
        BY <2>2, <3>2, <4>1
      <4>. QED
        BY <1>6, <1>9, <3>2, <4>1, <4>2
    <3>. QED
      BY <3>1, <3>2
  <2>4. Complete'
    BY <1>4, <2>3 DEF Complete, Redrafted
  <2>5. \A o \in g, i \in Layers :
           ds[o][i].offset \in handles[o].computed .. (handles[o].computed + forward.width[o])
    <3>. SUFFICES ASSUME NEW o \in g, NEW i \in Layers
                  PROVE  ds[o][i].offset \in handles[o].computed .. (handles[o].computed + forward.width[o])
      OBVIOUS
    <3>1. ds[o] \in Seq(Cache)
      BY <1>3, <1>9 DEF Held
    <3>2. i \in DOMAIN ds[o]
      BY <2>3, <3>1, Constants
    <3>3. ds[o][i].offset = handles[o].computed
      BY <1>13, <3>2
    <3>4. handles[o].computed \in Nat /\ forward.width[o] \in Nat
      BY <1>3, GroupIs DEF Drafting
    <3>. QED
      BY <3>3, <3>4
  <2>6. Growing'
    BY <1>1, <1>4, <2>5 DEF Growing, Redrafted
  <2>7. ForwardOK'
    BY <1>4, <1>11, <1>16, <2>4, <2>6 DEF ForwardOK, Step, Redrafted
  <2>. QED
    BY <1>11, <1>12, <2>7 DEF CInv
<1>. QED
  BY <1>5, <1>15, <1>16

-----------------------------------------------------------------------------
(* The layers append.                                                      *)

\* A draft that is there is another one, and the others are as they were.
Replaced(drafts, ds, r, l, c) == l <= Len(drafts[r]) /\ ds = [drafts EXCEPT ![r] = [@ EXCEPT ![l] = c]]

\* A layer of a draft is replaced.
LEMMA DraftReplaced ==
  ASSUME NEW hs, NEW drafts, Held(hs, drafts), NEW r \in Requests, NEW l \in Layers,
         NEW c \in Cache, NEW ds, Replaced(drafts, ds, r, l, c)
  PROVE  /\ Held(hs, ds) /\ ds[r][l] = c /\ \A o \in Requests : Len(ds[o]) = Len(drafts[o])
         /\ \A o \in Requests : \A i \in Layers : ~(o = r /\ i = l) => ds[o][i] = drafts[o][i]
         /\ Replacing(CachesOf(hs, drafts), CachesOf(hs, ds), <<"draft", r, l>>, c)
<1>1. l \in Nat /\ l >= 1 /\ l <= Len(drafts[r]) /\ ds = [drafts EXCEPT ![r] = [@ EXCEPT ![l] = c]]
  BY Constants DEF Replaced
<1>2. drafts \in [Requests -> Seq(Cache)] /\ drafts[r] \in Seq(Cache)
      /\ \A o \in Requests : Len(drafts[o]) <= Cardinality(Layers)
  BY DEF Held
<1>3. /\ ds[r] = [drafts[r] EXCEPT ![l] = c] /\ \A o \in Requests \ {r} : ds[o] = drafts[o]
      /\ DOMAIN ds = Requests /\ ds = [o \in Requests |-> ds[o]]
  BY <1>1, <1>2
<1>4. l \in DOMAIN drafts[r]
  BY <1>1, <1>2
<1>5. /\ ds[r] \in Seq(Cache) /\ Len(ds[r]) = Len(drafts[r]) /\ ds[r][l] = c
      /\ \A i \in Layers : i # l => ds[r][i] = drafts[r][i]
  <2>1. ds[r] \in Seq(Cache) /\ Len(ds[r]) = Len(drafts[r])
    BY <1>2, <1>3, <1>4
  <2>2. ds[r][l] = c
    BY <1>3, <1>4
  <2>3. \A i \in Layers : i # l => ds[r][i] = drafts[r][i]
    BY <1>3
  <2>. QED
    BY <2>1, <2>2, <2>3
<1>6. \A o \in Requests : ds[o] \in Seq(Cache) /\ Len(ds[o]) = Len(drafts[o])
  BY <1>2, <1>3, <1>5
<1>7. Held(hs, ds)
  <2>1. ds \in [Requests -> Seq(Cache)]
    BY <1>3, <1>6
  <2>. QED
    BY <1>2, <1>6, <2>1 DEF Held
<1>8. \A o \in Requests : \A i \in Layers : ~(o = r /\ i = l) => ds[o][i] = drafts[o][i]
  BY <1>3, <1>5
<1>. DEFINE C == CachesOf(hs, drafts)
            E == CachesOf(hs, ds)
            y == <<"draft", r, l>>
<1>9. At(C, <<"draft", r, l>>, drafts[r][l]) /\ At(E, <<"draft", r, l>>, ds[r][l])
  <2>1. l <= Len(ds[r])
    BY <1>1, <1>5
  <2>. QED
    BY <1>1, <1>7, <2>1, DraftAt
<1>10. y \in DOMAIN C /\ y \in DOMAIN E /\ E[y] = c
  BY <1>5, <1>9 DEF At
<1>. HIDE DEF y
<1>11. ASSUME NEW z \in DOMAIN C PROVE z \in DOMAIN E /\ (z # y => E[z] = C[z])
  <2>. DEFINE o == z[2]
              i == z[3]
  <2>1. CASE OfRequest(C, hs, z)
    <3>1. z = <<"request", o, i>> /\ o \in Requests /\ i \in Layers /\ hs[o] # None /\ C[z] = hs[o].caches[i]
      BY <2>1 DEF OfRequest
    <3>. HIDE DEF o, i
    <3>2. At(CachesOf(hs, ds), <<"request", o, i>>, hs[o].caches[i])
      BY <1>7, <3>1, RequestAt
    <3>. QED
      BY <3>1, <3>2 DEF At
  <2>2. CASE OfDraft(C, drafts, z)
    <3>1. z = <<"draft", o, i>> /\ o \in Requests /\ i \in Layers /\ i <= Len(drafts[o])
          /\ C[z] = drafts[o][i]
      BY <2>2 DEF OfDraft
    <3>. HIDE DEF o, i
    <3>2. i <= Len(ds[o])
      BY <1>6, <3>1
    <3>3. At(CachesOf(hs, ds), <<"draft", o, i>>, ds[o][i])
      BY <1>7, <3>1, <3>2, DraftAt
    <3>4. z # y => ~(o = r /\ i = l)
      BY <3>1 DEF y
    <3>. QED
      BY <1>8, <3>1, <3>3, <3>4 DEF At
  <2>. QED
    BY <2>1, <2>2, CachesNames
<1>12. ASSUME NEW z \in DOMAIN E PROVE z \in DOMAIN C
  <2>. DEFINE o == z[2]
              i == z[3]
  <2>1. CASE OfRequest(E, hs, z)
    <3>1. z = <<"request", o, i>> /\ o \in Requests /\ i \in Layers /\ hs[o] # None
      BY <2>1 DEF OfRequest
    <3>. HIDE DEF o, i
    <3>2. At(CachesOf(hs, drafts), <<"request", o, i>>, hs[o].caches[i])
      BY <3>1, RequestAt
    <3>. QED
      BY <3>1, <3>2 DEF At
  <2>2. CASE OfDraft(E, ds, z)
    <3>1. z = <<"draft", o, i>> /\ o \in Requests /\ i \in Layers /\ i <= Len(ds[o])
      BY <2>2 DEF OfDraft
    <3>. HIDE DEF o, i
    <3>2. i <= Len(drafts[o])
      BY <1>6, <3>1
    <3>3. At(CachesOf(hs, drafts), <<"draft", o, i>>, drafts[o][i])
      BY <3>1, <3>2, DraftAt
    <3>. QED
      BY <3>1, <3>3 DEF At
  <2>. QED
    BY <1>7, <2>1, <2>2, CachesNames
<1>. HIDE DEF C, E
<1>13. Replacing(C, E, y, c)
  <2>1. DOMAIN E = DOMAIN C
    BY <1>11, <1>12
  <2>. QED
    BY <1>10, <1>11, <2>1 DEF Replacing
<1>. QED
  BY <1>5, <1>6, <1>7, <1>8, <1>13 DEF C, E, y

\* It is replaced by what append makes of it.
LEMMA AppendedDraft ==
  ASSUME NEW p, NEW ix, NEW hs, NEW drafts, Held(hs, drafts), Sound(p, ix, CachesOf(hs, drafts)),
         NEW r \in Requests, NEW l \in Layers, l <= Len(drafts[r]),
         NEW tokens, Due(tokens, drafts[r][l], r), NEW a \in Appended(p, drafts[r][l], l, tokens),
         NEW ds, Replaced(drafts, ds, r, l, a.cache)
  PROVE  /\ Held(hs, ds) /\ ds[r][l] = a.cache /\ \A o \in Requests : Len(ds[o]) = Len(drafts[o])
         /\ \A o \in Requests : \A i \in Layers : ~(o = r /\ i = l) => ds[o][i] = drafts[o][i]
         /\ Lengthened(a.pool, ix, drafts[r][l], a.cache, tokens, CachesOf(hs, ds))
<1>. DEFINE C == CachesOf(hs, drafts)
            x == <<"draft", r, l>>
            c == drafts[r][l]
            D == [z \in DOMAIN C |-> IF z = x THEN a.cache ELSE C[z]]
<1>1. At(C, <<"draft", r, l>>, c)
  BY DraftAt
<1>2. x[2] = r /\ x[3] = l
  OBVIOUS
<1>3. Sound(p, ix, C)
  OBVIOUS
<1>4. x \in DOMAIN C /\ C[x] = c
  BY <1>1 DEF At
<1>. HIDE DEF C, x, c
<1>5. Replacing(C, D, x, a.cache)
  BY <1>4 DEF Replacing
<1>6. DOMAIN D = DOMAIN C /\ D[x] = a.cache
  BY <1>4
<1>. HIDE DEF D
<1>7. Due(tokens, C[x], x[2]) /\ a \in Appended(p, C[x], x[3], tokens)
  BY <1>2, <1>4 DEF c
<1>8. a.cache \in Cache
  <2>1. Lengthened(a.pool, ix, C[x], a.cache, tokens, D)
    BY <1>3, <1>4, <1>5, <1>7, AppendedSound
  <2>2. CacheOK(a.pool, D[x], x[2], x[3])
    BY <1>4, <1>6, <2>1 DEF Lengthened, Sound, CachesOK
  <2>. QED
    BY <1>6, <2>2 DEF CacheOK
<1>9. /\ Held(hs, ds) /\ ds[r][l] = a.cache /\ \A o \in Requests : Len(ds[o]) = Len(drafts[o])
      /\ \A o \in Requests : \A i \in Layers : ~(o = r /\ i = l) => ds[o][i] = drafts[o][i]
      /\ Replacing(CachesOf(hs, drafts), CachesOf(hs, ds), <<"draft", r, l>>, a.cache)
  BY <1>8, DraftReplaced
<1>10. Replacing(C, CachesOf(hs, ds), x, a.cache)
  BY <1>9 DEF C, x
<1>11. Lengthened(a.pool, ix, C[x], a.cache, tokens, CachesOf(hs, ds))
  BY <1>3, <1>4, <1>7, <1>10, AppendedSound
<1>. QED
  BY <1>4, <1>9, <1>11 DEF c

\* The last n of the next w tokens of a stream.
Ending(t, n) == SubSeq(t, Len(t) - n + 1, Len(t))
LEMMA EndingIs ==
  ASSUME NEW t \in Seq(Vocabulary), NEW n \in Nat, NEW f \in Nat, f + n = Len(t)
  PROVE  /\ Ending(t, n) \in Seq(Vocabulary) /\ Len(Ending(t, n)) = n
         /\ \A j \in 1 .. n : Ending(t, n)[j] = t[f + j]
<1>1. f + n <= Len(t)
  OBVIOUS
<1>2. /\ Slice(t, f, n) \in Seq(Vocabulary) /\ Len(Slice(t, f, n)) = n
      /\ \A j \in 1 .. n : Slice(t, f, n)[j] = t[f + j]
  BY <1>1, SliceIs
<1>3. Ending(t, n) = Slice(t, f, n)
  BY DEF Ending, Slice
<1>. QED
  BY <1>2, <1>3

Ends(r, e, w, n, tokens) ==
    /\ tokens \in Seq(Vocabulary) /\ Len(tokens) = n
    /\ \A j \in 1 .. n : tokens[j] = Stream[r][e + w - n + j]

\* The tokens that a layer has still to append are the next ones of its stream.
LEMMA TailIs ==
  ASSUME NEW r \in Requests, NEW e \in Nat, NEW w \in Nat, e + w <= Len(Stream[r]),
         NEW n \in Nat \ {0}, n <= w, NEW tokens, tokens = Ending(Slice(Stream[r], e, w), n)
  PROVE  Ends(r, e, w, n, tokens)
<1>. DEFINE s == Stream[r]
            t == Slice(Stream[r], e, w)
            f == w - n
<1>1. s \in Seq(Vocabulary) /\ e + w <= Len(s)
  BY Constants
<1>2. t \in Seq(Vocabulary) /\ Len(t) = w /\ \A j \in 1 .. w : t[j] = Stream[r][e + j]
  <2>. HIDE DEF s
  <2>1. /\ Slice(s, e, w) \in Seq(Vocabulary) /\ Len(Slice(s, e, w)) = w
        /\ \A j \in 1 .. w : Slice(s, e, w)[j] = s[e + j]
    BY <1>1, SliceIs
  <2>. QED
    BY <2>1 DEF s
<1>3. tokens = Ending(t, n)
  OBVIOUS
<1>. HIDE DEF t
<1>4. f \in Nat /\ f + n = Len(t)
  BY <1>2
<1>. HIDE DEF f
<1>5. /\ Ending(t, n) \in Seq(Vocabulary) /\ Len(Ending(t, n)) = n
      /\ \A j \in 1 .. n : Ending(t, n)[j] = t[f + j]
  BY <1>2, <1>4, EndingIs
<1>6. ASSUME NEW j \in 1 .. n PROVE tokens[j] = Stream[r][e + w - n + j]
  <2>1. f + j \in 1 .. w /\ e + (f + j) = e + w - n + j
    BY <1>2, <1>4
  <2>2. tokens[j] = t[f + j]
    BY <1>3, <1>5
  <2>. QED
    BY <1>2, <2>1, <2>2
<1>. QED
  BY <1>3, <1>5, <1>6 DEF Ends

\* A layer appends, or finds no room: AppendPage.
LEMMA AppendNext ==
  ASSUME CInv, NEW r \in Requests, NEW l \in Layers, AppendPage(r, l)
  PROVE  CInv'
<1>. DEFINE g == forward.group
            c == forward.drafts[r][l]
            n == Behind(r, l)
            tokens == SubSeq(Tokens(r), Len(Tokens(r)) - n + 1, Len(Tokens(r)))
<1>1. Step("append") /\ r \in g /\ Appending(r, l) /\ index' = index
      /\ \/ \E a \in Appended(pool, c, l, tokens) :
               /\ pool' = a.pool
               /\ forward' = [forward EXCEPT !.drafts[r][l] = a.cache]
               /\ UNCHANGED handles
         \/ Abort(DiscardFree(pool))
  BY DEF AppendPage
<1>2. /\ Held(handles, forward.drafts) /\ Sound(pool, index, CachesOf(handles, forward.drafts))
      /\ g \subseteq Open /\ g \subseteq Requests /\ ForwardTyped /\ Drafting /\ Complete /\ Growing
  BY <1>1, Going DEF Drafting, Open
<1>3. CASE Abort(DiscardFree(pool))
  <2>1. Sound(DiscardFree(pool), index, CachesOf(handles, forward.drafts))
    BY <1>2, DiscardSound
  <2>. QED
    BY <1>1, <1>3, <2>1, AbortNext
<1>4. ASSUME NEW a \in Appended(pool, c, l, tokens), pool' = a.pool,
             forward' = [forward EXCEPT !.drafts[r][l] = a.cache], UNCHANGED handles
      PROVE  CInv'
  <2>. DEFINE e == handles[r].computed
              w == forward.width[r]
              ds == [forward.drafts EXCEPT ![r] = [@ EXCEPT ![l] = a.cache]]
  <2>1. /\ e \in Nat /\ w \in Nat /\ e + w <= Len(Stream[r]) /\ c.offset \in e .. (e + w)
        /\ Len(forward.drafts[r]) = Cardinality(Layers)
    BY <1>1, <1>2, GroupIs DEF Drafting, Growing, Complete
  <2>2. n = e + w - c.offset /\ n > 0
    BY <1>1 DEF Appending, Behind
  <2>3. n \in Nat \ {0} /\ n <= w
    BY <2>1, <2>2
  <2>4. Tokens(r) = Slice(Stream[r], e, w)
    BY DEF Tokens, Slice
  <2>. HIDE DEF n, e, w
  <2>5. /\ tokens \in Seq(Vocabulary) /\ Len(tokens) = n
        /\ \A j \in 1 .. n : tokens[j] = Stream[r][e + w - n + j]
    <3>1. tokens = Ending(Slice(Stream[r], e, w), n)
      BY <2>4 DEF Ending
    <3>. HIDE DEF tokens
    <3>2. Ends(r, e, w, n, tokens)
      BY <2>1, <2>3, <3>1, TailIs
    <3>. QED
      BY <3>2 DEF Ends
  <2>. HIDE DEF tokens, c
  <2>6. Due(tokens, c, r)
    <3>1. c.offset \in Nat /\ c.offset + n <= Len(Stream[r]) /\ \A j \in 1 .. n : e + w - n + j = c.offset + j
      BY <2>1, <2>2, <2>3
    <3>2. tokens # <<>>
      BY <2>3, <2>5
    <3>. QED
      BY <2>5, <3>1, <3>2 DEF Due
  <2>7. l <= Len(forward.drafts[r])
    BY <2>1, Constants
  <2>8. Replaced(forward.drafts, ds, r, l, a.cache)
    BY <2>7 DEF Replaced
  <2>9. Redrafted(ds, "append")
    <3>1. /\ forward = [stage |-> forward.stage, group |-> forward.group, width |-> forward.width,
                        transient |-> forward.transient, drafts |-> forward.drafts,
                        active |-> forward.active, accounts |-> forward.accounts]
          /\ forward.stage = "append"
      BY <1>1, <1>2 DEF ForwardTyped, Step
    <3>2. forward' = [forward EXCEPT !.drafts = ds]
      BY <1>4, <3>1
    <3>. HIDE DEF ds
    <3>. QED
      BY <3>1, <3>2 DEF Redrafted
  <2>. HIDE DEF ds
  <2>10. /\ Held(handles, ds) /\ ds[r][l] = a.cache /\ \A o \in Requests : Len(ds[o]) = Len(forward.drafts[o])
         /\ \A o \in Requests : \A i \in Layers : ~(o = r /\ i = l) => ds[o][i] = forward.drafts[o][i]
         /\ Lengthened(a.pool, index, c, a.cache, tokens, CachesOf(handles, ds))
    BY <1>2, <2>6, <2>7, <2>8, AppendedDraft DEF c
  <2>11. Sound(pool', index, CachesOf(handles, ds)) /\ a.cache.offset \in e .. (e + w)
    <3>1. /\ Sound(a.pool, index, CachesOf(handles, ds)) /\ a.cache.offset \in Nat
          /\ c.offset < a.cache.offset /\ a.cache.offset <= c.offset + Len(tokens)
      BY <2>10 DEF Lengthened
    <3>2. a.cache.offset \in e .. (e + w)
      BY <2>1, <2>2, <2>3, <2>5, <3>1
    <3>. QED
      BY <1>4, <3>1, <3>2
  <2>12. \A o \in Requests \ {r} : ds[o] = forward.drafts[o]
    BY <1>2, <2>8 DEF Replaced, Held
  <2>13. HandlesOK' /\ ForwardTyped' /\ Drafting'
    BY <1>1, <1>4, <2>9, <2>10, <2>12, RedraftedTyped
  <2>14. Sound(pool, index, Caches)'
    BY <1>1, <1>4, <2>9, <2>11 DEF Caches, Redrafted
  <2>15. Complete'
    BY <1>2, <2>9, <2>10 DEF Complete, Redrafted
  <2>16. \A o \in g, i \in Layers :
            ds[o][i].offset \in handles[o].computed .. (handles[o].computed + forward.width[o])
    <3>. SUFFICES ASSUME NEW o \in g, NEW i \in Layers
                  PROVE  ds[o][i].offset \in handles[o].computed .. (handles[o].computed + forward.width[o])
      OBVIOUS
    <3>1. CASE o = r /\ i = l
      BY <2>10, <2>11, <3>1 DEF e, w
    <3>2. CASE ~(o = r /\ i = l)
      BY <1>2, <2>10, <3>2 DEF Growing
    <3>. QED
      BY <3>1, <3>2
  <2>17. Growing'
    BY <1>4, <2>9, <2>16 DEF Growing, Redrafted
  <2>18. ForwardOK'
    BY <2>9, <2>13, <2>15, <2>17 DEF ForwardOK, Step, Redrafted
  <2>. QED
    BY <2>13, <2>14, <2>18 DEF CInv
<1>. QED
  BY <1>1, <1>3, <1>4

-----------------------------------------------------------------------------
(* The commit and what follows it.                                         *)

\* The fields of the forward.
LEMMA ForwardIs ==
  ASSUME CInv
  PROVE  forward = [stage |-> forward.stage, group |-> forward.group, width |-> forward.width,
                    transient |-> forward.transient, drafts |-> forward.drafts,
                    active |-> forward.active, accounts |-> forward.accounts]
  BY Going DEF ForwardTyped

\* The commit swaps drafts and caches: Commit.
LEMMA CommitNext ==
  ASSUME CInv, Commit
  PROVE  CInv'
<1>. DEFINE g == forward.group
            A == Committing
            s == Swapped(handles, forward.drafts, A)
            book == [r \in A |-> [computed |-> handles[r].computed, reserved |-> handles[r].reserved]]
<1>1. /\ Step("append") /\ pool' = pool /\ index' = index /\ handles' = s.handles
      /\ \A r \in g, l \in Layers : Behind(r, l) = 0
      /\ forward' = [forward EXCEPT !.stage = "reconcile", !.drafts = s.drafts, !.active = A,
                                    !.accounts = book]
  BY DEF Commit
<1>2. /\ Held(handles, forward.drafts) /\ Sound(pool, index, CachesOf(handles, forward.drafts))
      /\ g \subseteq Open /\ g \subseteq Requests /\ ForwardTyped /\ Drafting /\ Complete /\ Growing
      /\ \A r \in Open : Whole(handles[r])
  BY <1>1, Going DEF Drafting, Open
<1>3. A \subseteq g
  BY DEF Committing
<1>. HIDE DEF A
<1>4. Swappable(handles, forward.drafts, A)
  BY <1>2, <1>3 DEF Swappable, Open, Complete
<1>5. /\ Crossed(handles, forward.drafts, A, s.handles, s.drafts)
      /\ Sound(pool, index, CachesOf(s.handles, s.drafts))
  BY <1>2, <1>4, SwappedIs, SwapSound
<1>. DEFINE ds == s.drafts
<1>6. /\ forward'.stage = "reconcile" /\ forward'.group = g /\ forward'.width = forward.width
      /\ forward'.transient = forward.transient /\ forward'.drafts = ds
      /\ forward'.active = A /\ forward'.accounts = book
      /\ forward' = [stage |-> forward'.stage, group |-> forward'.group, width |-> forward'.width,
                     transient |-> forward'.transient, drafts |-> forward'.drafts,
                     active |-> forward'.active, accounts |-> forward'.accounts]
  <2>. HIDE DEF book, ds, s
  <2>1. forward' = [forward EXCEPT !.stage = "reconcile", !.drafts = ds, !.active = A, !.accounts = book]
    BY <1>1 DEF ds
  <2>. QED
    BY <2>1, ForwardIs
<1>7. Crossed(handles, forward.drafts, A, handles', ds) /\ Sound(pool, index, CachesOf(handles', ds))
  BY <1>1, <1>5
<1>8. \A r \in A : book[r].computed = handles[r].computed /\ book[r].reserved = handles[r].reserved
  OBVIOUS
<1>9. DOMAIN book = A
  OBVIOUS
<1>. HIDE DEF book, ds, s
<1>10. /\ Held(handles', ds)
       /\ \A r \in Requests : /\ handles'[r] = None <=> handles[r] = None
                              /\ r \notin A => handles'[r] = handles[r] /\ ds[r] = forward.drafts[r]
                              /\ Len(ds[r]) = Len(forward.drafts[r])
  BY <1>7 DEF Crossed
<1>11. \A r \in A : /\ handles'[r] = [handles[r] EXCEPT !.caches = forward.drafts[r]]
                    /\ handles'[r].caches = forward.drafts[r] /\ ds[r] = handles[r].caches
                    /\ handles'[r] \in Handle /\ handles[r] \in Handle
  BY <1>7 DEF Crossed
<1>12. HandlesOK'
  BY <1>2, <1>6, <1>10 DEF HandlesOK, Open, Held
<1>13. Sound(pool, index, Caches)'
  BY <1>1, <1>6, <1>7 DEF Caches
<1>14. ForwardTyped'
  <2>1. g \subseteq Open' /\ forward.transient \in Nat
    BY <1>2, <1>10 DEF ForwardTyped, Open
  <2>2. \A o \in Requests \ g : ds[o] = <<>>
    BY <1>2, <1>3, <1>10 DEF ForwardTyped
  <2>3. ds \in [Requests -> Seq(Cache)] /\ \A o \in Requests : Len(ds[o]) <= Cardinality(Layers)
    BY <1>10 DEF Held
  <2>. QED
    BY <1>3, <1>6, <2>1, <2>2, <2>3 DEF ForwardTyped
<1>15. Complete'
  BY <1>2, <1>6, <1>10 DEF Complete
<1>16. ASSUME NEW r \in A
       PROVE  /\ forward'.accounts[r] \in [computed : Nat, reserved : Nat] /\ Whole(Restored(r)')
              /\ \A l \in Layers : handles'[r].caches[l].offset = handles'[r].caches[1].offset
  <2>1. handles[r] \in Handle /\ handles[r].computed \in Nat /\ handles[r].reserved \in Nat
    BY <1>11 DEF Handle
  <2>2. forward'.accounts[r] \in [computed : Nat, reserved : Nat]
    <3>1. book[r] = [computed |-> handles[r].computed, reserved |-> handles[r].reserved]
      BY DEF book
    <3>. QED
      BY <1>6, <2>1, <3>1
  <2>3. Restored(r)' = [handles'[r] EXCEPT !.caches = handles[r].caches,
                                           !.computed = handles[r].computed,
                                           !.reserved = handles[r].reserved]
    BY <1>6, <1>8, <1>11 DEF Restored
  <2>4. Alike(handles[r], Restored(r)')
    <3>. DEFINE h == handles[r]
                k == handles'[r]
    <3>1. h \in Handle /\ k = [h EXCEPT !.caches = forward.drafts[r]]
      BY <1>11, <2>1
    <3>2. Restored(r)' = [k EXCEPT !.caches = h.caches, !.computed = h.computed, !.reserved = h.reserved]
      BY <2>3
    <3>. HIDE DEF h, k
    <3>3. Alike(h, Restored(r)')
      BY <3>1, <3>2 DEF Alike, Handle
    <3>. QED
      BY <3>3 DEF h
  <2>5. Whole(Restored(r)')
    <3>1. Whole(handles[r])
      BY <1>2, <1>3
    <3>. QED
      BY <2>4, <3>1, AlikeWhole
  <2>6. ASSUME NEW l \in Layers PROVE handles'[r].caches[l].offset = handles[r].computed + forward.width[r]
    <3>1. Behind(r, l) = 0 /\ handles'[r].caches[l] = forward.drafts[r][l]
      BY <1>1, <1>3, <1>11
    <3>2. forward.drafts[r][l].offset \in handles[r].computed .. (handles[r].computed + forward.width[r])
          /\ forward.width[r] \in Nat
      BY <1>2, <1>3 DEF Growing, Drafting
    <3>. QED
      BY <2>1, <3>1, <3>2 DEF Behind
  <2>7. \A l \in Layers : handles'[r].caches[l].offset = handles'[r].caches[1].offset
    BY <2>6, Constants
  <2>. QED
    BY <2>2, <2>5, <2>7
<1>17. Adopting'
  BY <1>3, <1>6, <1>9, <1>16 DEF Adopting
<1>18. ForwardOK'
  BY <1>6, <1>14, <1>15, <1>17 DEF ForwardOK, Step
<1>. QED
  BY <1>12, <1>13, <1>18 DEF CInv

\* The handle of a request that has been reconciled.
Reconciled(h) == [h EXCEPT !.computed = h.caches[1].offset, !.reserved = Remainder(h)]

\* The accounts of a handle that is reconciled.
LEMMA ReconciledIs ==
  ASSUME NEW h \in Handle, \A l \in Layers : h.caches[l].offset = h.caches[1].offset
  PROVE  /\ Reconciled(h) \in Handle /\ Reconciled(h) # None /\ Whole(Reconciled(h))
         /\ Reconciled(h).caches = h.caches
<1>. DEFINE n == Remainder(h)
            m == h.caches[1].offset
            k == Reconciled(h)
<1>1. n \in Nat /\ m \in Nat
  BY RemainderNat, Constants DEF Handle, Cache
<1>2. k = [h EXCEPT !.computed = m, !.reserved = n]
  BY DEF Reconciled
<1>. HIDE DEF n, m, k
<1>3. /\ k \in Handle /\ k.caches = h.caches /\ k.computed = m /\ k.reserved = n
      /\ k.requested = h.requested /\ k.base = h.base
  BY <1>1, <1>2 DEF Handle
<1>4. Remainder(k) = n
  BY <1>3 DEF Remainder, n
<1>5. Whole(k)
  BY <1>3, <1>4 DEF Whole, m
<1>. QED
  BY <1>3, <1>5, NoHandle DEF k

\* The commit is taken back: Rollback.
LEMMA RollbackNext ==
  ASSUME CInv, Step("reconcile"), Rollback, index' = index
  PROVE  CInv'
<1>. DEFINE g == forward.group
            A == DOMAIN forward.accounts
            s == Swapped(handles, forward.drafts, A)
<1>1. /\ handles' = [r \in Requests |-> IF r \in A THEN RolledBack(r) ELSE Failed(g)[r]]
      /\ pool' = Drop(pool, s.drafts) /\ forward' = Idle
  BY DEF Rollback, Swapped
<1>2. /\ Held(handles, forward.drafts) /\ Sound(pool, index, CachesOf(handles, forward.drafts))
      /\ g \subseteq Open /\ g \subseteq Requests /\ Complete
      /\ A \subseteq g /\ forward.active \subseteq A
      /\ \A r \in A : forward.accounts[r] \in [computed : Nat, reserved : Nat] /\ Whole(Restored(r))
      /\ \A r \in Open \ forward.active : Whole(handles[r])
  BY Going DEF Adopting, Open
<1>. HIDE DEF A
<1>3. Swappable(handles, forward.drafts, A)
  BY <1>2 DEF Swappable, Open, Complete
<1>4. /\ Crossed(handles, forward.drafts, A, s.handles, s.drafts)
      /\ Sound(pool, index, CachesOf(s.handles, s.drafts))
  BY <1>2, <1>3, SwappedIs, SwapSound
<1>. HIDE DEF s
<1>5. Held(s.handles, s.drafts)
  BY <1>4 DEF Crossed
<1>6. Sound(pool', index, CachesOf(s.handles, NoDrafts))
  BY <1>1, <1>4, <1>5, DropSound
<1>7. Marked(handles, Failed(g))
  BY <1>2, FailedMarks DEF Held
<1>8. ASSUME NEW r \in A
      PROVE  /\ handles'[r] \in Handle /\ handles'[r] # None /\ Whole(handles'[r])
             /\ handles'[r].caches = s.handles[r].caches /\ s.handles[r] # None
  <2>1. /\ s.handles[r].caches = forward.drafts[r] /\ s.handles[r] \in Handle
        /\ s.handles[r] = [handles[r] EXCEPT !.caches = forward.drafts[r]] /\ handles[r] \in Handle
    BY <1>4 DEF Crossed
  <2>2. forward.accounts[r].computed \in Nat /\ forward.accounts[r].reserved \in Nat
    BY <1>2
  <2>3. handles'[r] = RolledBack(r)
    BY <1>1, <1>2
  <2>4. forward.drafts[r] \in [Layers -> Cache]
    BY <2>1 DEF Handle
  <2>5. Alike(Restored(r), RolledBack(r)) /\ RolledBack(r).caches = forward.drafts[r]
    <3>. DEFINE h == handles[r]
                c == forward.drafts[r]
                m == forward.accounts[r].computed
                n == forward.accounts[r].reserved
    <3>1. h \in Handle /\ c \in [Layers -> Cache] /\ m \in Nat /\ n \in Nat
      BY <2>1, <2>2, <2>4
    <3>2. /\ Restored(r) = [h EXCEPT !.caches = c, !.computed = m, !.reserved = n]
          /\ RolledBack(r) = [h EXCEPT !.caches = c, !.failed = TRUE, !.computed = m, !.reserved = n]
      BY DEF Restored, RolledBack
    <3>. HIDE DEF h, c, m, n
    <3>. DEFINE back == Restored(r)
                taken == RolledBack(r)
    <3>3. /\ back.caches = c /\ back.computed = m /\ back.reserved = n
          /\ back.requested = h.requested /\ back.base = h.base
      BY <3>1, <3>2 DEF Handle
    <3>4. /\ taken.caches = c /\ taken.computed = m /\ taken.reserved = n
          /\ taken.requested = h.requested /\ taken.base = h.base
      BY <3>1, <3>2 DEF Handle
    <3>5. taken \in Handle
      BY <3>1, <3>2 DEF Handle
    <3>. HIDE DEF back, taken
    <3>6. Alike(back, taken)
      BY <3>3, <3>4, <3>5 DEF Alike
    <3>. QED
      BY <3>4, <3>6 DEF c, back, taken
  <2>6. Whole(RolledBack(r))
    BY <1>2, <2>5, AlikeWhole
  <2>. QED
    BY <2>1, <2>3, <2>5, <2>6, NoHandle DEF Alike
<1>9. ASSUME NEW r \in Requests \ A
      PROVE  /\ handles'[r] \in Handle \cup {None} /\ (handles'[r] = None <=> s.handles[r] = None)
             /\ handles'[r] # None => Whole(handles'[r]) /\ handles'[r].caches = s.handles[r].caches
  <2>1. handles'[r] = Failed(g)[r] /\ s.handles[r] = handles[r]
    BY <1>1, <1>4 DEF Crossed
  <2>2. /\ Failed(g)[r] \in Handle \cup {None} /\ (handles[r] = None <=> Failed(g)[r] = None)
        /\ handles[r] # None => Alike(handles[r], Failed(g)[r])
    BY <1>7 DEF Marked
  <2>3. handles[r] # None => Whole(handles[r])
    BY <1>2 DEF Open
  <2>. QED
    BY <2>1, <2>2, <2>3, AlikeWhole DEF Alike
<1>10. /\ \A r \in Requests : s.handles[r] = None <=> handles'[r] = None
       /\ \A r \in Requests : s.handles[r] # None => s.handles[r].caches = handles'[r].caches
       /\ \A r \in Requests : handles'[r] \in Handle \cup {None}
       /\ \A r \in Requests : handles'[r] # None => Whole(handles'[r])
  BY <1>8, <1>9
<1>11. CachesOf(handles', NoDrafts) = CachesOf(s.handles, NoDrafts)
  BY <1>10, SameCaches
<1>12. Held(handles', NoDrafts)
  <2>1. Held(handles, NoDrafts)
    BY <1>2, NoDraftsIs
  <2>2. handles' = [r \in Requests |-> handles'[r]]
    BY <1>1
  <2>3. handles' \in [Requests -> Handle \cup {None}]
    BY <1>10, <2>2
  <2>. QED
    BY <2>1, <2>3 DEF Held
<1>13. Settled(pool', index', handles')
  BY <1>6, <1>10, <1>11, <1>12 DEF Settled
<1>. QED
  BY <1>1, <1>13, IdleNext

\* A handle is reconciled, or the commit taken back: Reconcile.
LEMMA ReconcileNext ==
  ASSUME CInv, NEW r \in Requests, Reconcile(r)
  PROVE  CInv'
<1>. DEFINE g == forward.group
            h == handles[r]
<1>1. /\ Step("reconcile") /\ r \in forward.active /\ index' = index
      /\ \/ /\ handles' = [handles EXCEPT ![r].computed = h.caches[1].offset, ![r].reserved = Remainder(h)]
            /\ forward' = [forward EXCEPT !.active = @ \ {r}]
            /\ UNCHANGED pool
         \/ Rollback
  BY DEF Reconcile
<1>2. CASE Rollback
  BY <1>1, <1>2, RollbackNext
<1>3. ASSUME handles' = [handles EXCEPT ![r].computed = h.caches[1].offset, ![r].reserved = Remainder(h)],
             forward' = [forward EXCEPT !.active = @ \ {r}], UNCHANGED pool
      PROVE  CInv'
  <2>1. /\ Held(handles, forward.drafts) /\ Sound(pool, index, CachesOf(handles, forward.drafts))
        /\ g \subseteq Open /\ g \subseteq Requests /\ ForwardTyped /\ Complete /\ Adopting
        /\ forward.active \subseteq g
        /\ \A o \in Open \ forward.active : Whole(handles[o])
    BY <1>1, Going DEF Open, ForwardTyped
  <2>2. handles[r] \in Handle /\ handles[r] # None
    BY <1>1, <2>1 DEF Held, Open
  <2>3. \A l \in Layers : h.caches[l].offset = h.caches[1].offset
    BY <1>1, <2>1 DEF Adopting
  <2>4. /\ Reconciled(h) \in Handle /\ Reconciled(h) # None /\ Whole(Reconciled(h))
        /\ Reconciled(h).caches = h.caches
    BY <2>2, <2>3, ReconciledIs
  <2>5. /\ handles'[r] = Reconciled(h) /\ \A o \in Requests \ {r} : handles'[o] = handles[o]
        /\ handles' \in [Requests -> Handle \cup {None}]
    <3>1. handles \in [Requests -> Handle \cup {None}]
      BY <2>1 DEF Held
    <3>2. handles' = [handles EXCEPT ![r] = Reconciled(h)]
      BY <1>3, <2>2, <3>1 DEF Reconciled
    <3>. HIDE DEF h
    <3>. QED
      BY <2>4, <3>1, <3>2
  <2>6. /\ forward'.stage = "reconcile" /\ forward'.group = g /\ forward'.width = forward.width
        /\ forward'.transient = forward.transient /\ forward'.drafts = forward.drafts
        /\ forward'.active = forward.active \ {r} /\ forward'.accounts = forward.accounts
        /\ forward' = [stage |-> forward'.stage, group |-> forward'.group, width |-> forward'.width,
                       transient |-> forward'.transient, drafts |-> forward'.drafts,
                       active |-> forward'.active, accounts |-> forward'.accounts]
    BY <1>1, <1>3, ForwardIs DEF Step
  <2>7. /\ \A o \in Requests : handles[o] = None <=> handles'[o] = None
        /\ \A o \in Requests : handles[o] # None => handles[o].caches = handles'[o].caches
    BY <2>2, <2>4, <2>5
  <2>8. CachesOf(handles', forward.drafts) = CachesOf(handles, forward.drafts)
    BY <2>7, SameCaches
  <2>9. Sound(pool, index, Caches)'
    BY <1>1, <1>3, <2>1, <2>6, <2>8 DEF Caches
  <2>10. HandlesOK'
    <3>1. ASSUME NEW o \in Open', o \notin forward.active \ {r} PROVE Whole(handles'[o])
      BY <2>1, <2>4, <2>5, <2>7, <3>1 DEF Open
    <3>. QED
      BY <2>5, <2>6, <3>1 DEF HandlesOK
  <2>11. ForwardTyped'
    <3>1. g \subseteq Open' /\ forward.transient \in Nat /\ \A o \in Requests \ g : forward.drafts[o] = <<>>
      BY <2>1, <2>7 DEF ForwardTyped, Open
    <3>2. /\ forward.drafts \in [Requests -> Seq(Cache)]
          /\ \A o \in Requests : Len(forward.drafts[o]) <= Cardinality(Layers)
      BY <2>1 DEF Held
    <3>. QED
      BY <2>1, <2>6, <3>1, <3>2 DEF ForwardTyped
  <2>12. Complete'
    BY <2>1, <2>6 DEF Complete
  <2>13. ASSUME NEW o \in DOMAIN forward.accounts PROVE Whole(Restored(o)')
    <3>1. o \in g /\ handles[o] \in Handle /\ forward.accounts[o] \in [computed : Nat, reserved : Nat]
          /\ Whole(Restored(o)) /\ forward.drafts[o] \in Seq(Cache)
          /\ Len(forward.drafts[o]) = Cardinality(Layers)
      BY <2>1 DEF Adopting, Held, Open, Complete
    <3>2. forward.drafts[o] \in [Layers -> Cache]
      BY <3>1, LayersSeq
    <3>3. Restored(o)' = [handles'[o] EXCEPT !.caches = forward.drafts[o],
                                             !.computed = forward.accounts[o].computed,
                                             !.reserved = forward.accounts[o].reserved]
      BY <2>6 DEF Restored
    <3>4. Alike(Restored(o), Restored(o)')
      <4>. DEFINE k == handles[o]
                  c == forward.drafts[o]
                  m == forward.accounts[o].computed
                  n == forward.accounts[o].reserved
                  i == handles[r].caches[1].offset
                  j == Remainder(handles[r])
      <4>1. k \in Handle /\ c \in [Layers -> Cache] /\ m \in Nat /\ n \in Nat
        BY <3>1, <3>2
      <4>2. Restored(o) = [k EXCEPT !.caches = c, !.computed = m, !.reserved = n]
        BY DEF Restored
      <4>3. handles'[o] = k \/ handles'[o] = [k EXCEPT !.computed = i, !.reserved = j]
        <5>1. CASE o = r
          BY <2>5, <5>1 DEF Reconciled
        <5>2. CASE o # r
          BY <2>1, <2>5, <3>1, <5>2
        <5>. QED
          BY <5>1, <5>2
      <4>4. Restored(o)' = [handles'[o] EXCEPT !.caches = c, !.computed = m, !.reserved = n]
        BY <3>3
      <4>. DEFINE d == handles'[o]
      <4>5. d \in Handle
        BY <2>1, <2>5, <2>7, <3>1 DEF Open
      <4>. HIDE DEF k, c, m, n, i, j
      <4>6. d.requested = k.requested /\ d.base = k.base
        BY <4>1, <4>3 DEF Handle
      <4>. HIDE DEF d
      <4>7. Restored(o)' = [d EXCEPT !.caches = c, !.computed = m, !.reserved = n]
        BY <4>4 DEF d
      <4>. QED
        BY <4>1, <4>2, <4>5, <4>6, <4>7 DEF Alike, Handle
    <3>. QED
      BY <3>1, <3>4, AlikeWhole
  <2>14. Adopting'
    <3>1. /\ DOMAIN forward.accounts \subseteq g /\ forward.active \subseteq DOMAIN forward.accounts
          /\ \A o \in DOMAIN forward.accounts : forward.accounts[o] \in [computed : Nat, reserved : Nat]
          /\ \A o \in forward.active, l \in Layers : handles[o].caches[l].offset = handles[o].caches[1].offset
      BY <2>1 DEF Adopting
    <3>2. \A o \in forward.active \ {r}, l \in Layers : handles'[o].caches[l].offset = handles'[o].caches[1].offset
      BY <2>1, <2>5, <3>1
    <3>. QED
      BY <2>6, <2>13, <3>1, <3>2 DEF Adopting
  <2>15. ForwardOK'
    BY <2>6, <2>11, <2>12, <2>14 DEF ForwardOK, Step
  <2>. QED
    BY <2>9, <2>10, <2>15 DEF CInv
<1>. QED
  BY <1>1, <1>2, <1>3

\* The forward ends: Finish.
LEMMA FinishNext ==
  ASSUME CInv, Finish
  PROVE  CInv'
<1>1. /\ Step("reconcile") /\ forward.active = {} /\ pool' = Drop(pool, forward.drafts)
      /\ forward' = Idle /\ index' = index /\ handles' = handles
  BY DEF Finish
<1>2. Held(handles, forward.drafts) /\ Sound(pool, index, CachesOf(handles, forward.drafts))
      /\ \A r \in Requests : handles[r] # None => Whole(handles[r])
  BY <1>1, Going DEF Open
<1>3. Sound(pool', index', CachesOf(handles, NoDrafts)) /\ Held(handles, NoDrafts)
  BY <1>1, <1>2, DropSound, NoDraftsIs
<1>4. Settled(pool', index', handles')
  BY <1>1, <1>2, <1>3 DEF Settled
<1>. QED
  BY <1>1, <1>4, IdleNext

\* The invariant is kept by every step.
LEMMA CacheStep ==
  ASSUME CInv, [Next]_vars
  PROVE  CInv'
<1>1. ASSUME NEW r \in Requests, Start(r) PROVE CInv'
  BY <1>1, StartNext
<1>2. ASSUME NEW r \in Requests, Cancel(r) PROVE CInv'
  BY <1>2, SameNext DEF Cancel
<1>3. ASSUME NEW r \in Requests, Publish(r) PROVE CInv'
  BY <1>3, PublishNext
<1>4. ASSUME NEW r \in Requests, End(r) PROVE CInv'
  BY <1>4, EndNext
<1>5. ASSUME NEW r \in Requests, Reconcile(r) PROVE CInv'
  BY <1>5, ReconcileNext
<1>6. ASSUME NEW group \in SUBSET Requests, Begin(group) PROVE CInv'
  BY <1>6, BeginNext
<1>7. ASSUME NEW r \in Requests, NEW l \in Layers, Clone(r, l) PROVE CInv'
  BY <1>7, CloneNext
<1>8. ASSUME NEW r \in Requests, NEW l \in Layers, AppendPage(r, l) PROVE CInv'
  BY <1>8, AppendNext
<1>9. CASE Commit
  BY <1>9, CommitNext
<1>10. CASE Finish
  BY <1>10, FinishNext
<1>11. CASE Crash
  BY <1>11, CrashNext
<1>12. CASE Shed
  BY <1>12, ShedNext
<1>13. CASE Close
  BY <1>13, CloseNext
<1>14. CASE UNCHANGED vars
  BY <1>14, SameNext DEF vars
<1>. QED
  BY <1>1, <1>2, <1>3, <1>4, <1>5, <1>6, <1>7, <1>8, <1>9, <1>10, <1>11, <1>12, <1>13, <1>14 DEF Next

\* Handles, drafts, index and pool belong together at every step: every page has its
\* owners counted, every cache holds the tokens it has computed, in order, a page that
\* can be written has one owner, a forward's drafts are where its handles are, and what
\* it needs to copy its tails is set aside (cache_manager.py, paged.py, transactions.py).
THEOREM CacheInvariance == Spec => []CInv
  BY InitCInv, CacheStep, PTL DEF Spec

-----------------------------------------------------------------------------
(* What the invariant says.                                                *)

\* What the invariant says of the counts.
LEMMA RefsCountedHolds ==
  ASSUME CInv
  PROVE  RefsCounted
<1>. DEFINE lists == PagesIn(Caches)
<1>1. Named(Caches) /\ CachesOK(pool, Caches) /\ IndexOK(pool, index) /\ Counted(pool, index, Caches)
  BY DEF CInv, Sound
<1>2. ASSUME NEW at \in Live(pool)
      PROVE  /\ pool.page[at].refs = Count(lists, at)
             /\ pool.page[at].pins = (IF at \in Stored(index) THEN 1 ELSE 0)
             /\ pool.page[at].refs + pool.page[at].pins > 0
  BY <1>1 DEF Counted, Refs, Pins
<1>3. Stored(index) \subseteq Live(pool)
  BY <1>1, IndexTouches
<1>4. DOMAIN lists = DOMAIN Caches /\ \A x \in DOMAIN Caches : lists[x] = Caches[x].pages
  BY DEF PagesIn
<1>5. \A x \in DOMAIN Caches : \A i \in 1 .. Len(Caches[x].pages) : Caches[x].pages[i] \in Live(pool)
  BY <1>1, HeldIs
<1>6. \A x \in DOMAIN Caches : Caches[x].pages \in Seq(Places)
  BY <1>1, HeldIs
<1>. HIDE DEF lists
<1>7. ASSUME NEW x \in DOMAIN lists PROVE Range(lists[x]) \subseteq Live(pool)
  <2>1. lists[x] \in Seq(Places) /\ \A i \in 1 .. Len(lists[x]) : lists[x][i] \in Live(pool)
    BY <1>4, <1>5, <1>6
  <2>. QED
    BY <2>1 DEF Range
<1>. QED
  BY <1>2, <1>3, <1>7 DEF RefsCounted, lists

\* What it says of the index.
LEMMA IndexSoundHolds ==
  ASSUME CInv
  PROVE  IndexSound
  BY DEF CInv, Sound, IndexOK, NodeOK, IndexSound, Paths

\* What it says of the accounts between forwards.
LEMMA CommitWholeHolds ==
  ASSUME CInv
  PROVE  CommitWhole
<1>1. Step("idle") => forward.active = {}
  BY DEF CInv, ForwardOK, Idle
<1>. QED
  BY <1>1 DEF CInv, HandlesOK, CommitWhole, Whole

\* There is room to copy the tail of x.
LEMMA CopyFits ==
  ASSUME NEW p, NEW ix, NEW C, Sound(p, ix, C), NEW x \in DOMAIN C, NEW y, y \notin DOMAIN C,
         y[2] = x[2], y[3] = x[3], LastSealed(p, C[x]) \/ Physical(p) + SegmentPages <= Capacity
  PROVE  Cloned(p, C[x], x[3]) # {}
<1>. DEFINE c == C[x]
            s == Shorter(c)
            q == Acquired(p, <<Front(c.pages)>>)
            data == p.page[Last(c.pages)].data
            E == [z \in DOMAIN C \cup {y} |-> IF z = y THEN s ELSE C[z]]
<1>1. CASE LastSealed(p, c)
  BY <1>1 DEF Cloned
<1>2. CASE ~LastSealed(p, c)
  <2>1. Named(C) /\ PoolOK(p) /\ CachesOK(p, C)
    BY DEF Sound
  <2>2. x[2] \in Requests /\ x[3] \in Layers /\ CacheOK(p, c, x[2], x[3])
    BY <2>1 DEF Named, CachesOK
  <2>3. c.pages # <<>>
    BY <1>2 DEF LastSealed
  <2>4. CacheOK(p, s, x[2], x[3]) /\ \A i \in 1 .. Len(s.pages) : p.page[s.pages[i]].sealed
    BY <2>1, <2>2, <2>3, ShorterIs
  <2>5. s.pages = Front(c.pages)
    BY DEF Shorter
  <2>. HIDE DEF s, c
  <2>6. Extended(C, E, y, s)
    BY DEF Extended
  <2>. HIDE DEF E
  <2>7. Sound(Acquired(p, <<s.pages>>), ix, E)
    <3>1. CacheOK(p, s, y[2], y[3]) /\ y[2] \in Requests /\ y[3] \in Layers
      BY <2>2, <2>4
    <3>. QED
      BY <2>4, <2>6, <3>1, OneMore
  <2>8. Sound(q, ix, E)
    BY <2>5, <2>7
  <2>9. Physical(q) = Physical(p)
    BY <2>1, AcquiredIs
  <2>. HIDE DEF q, data
  <2>10. Physical(q) + SegmentPages <= Capacity
    BY <1>2, <2>9 DEF c
  <2>11. Allocated(q, x[3], data) # {}
    BY <2>2, <2>8, <2>10, AllocatedIs
  <2>12. PICK b : b \in Allocated(q, x[3], data)
    BY <2>11
  <2>13. [pool |-> b.pool, cache |-> [c EXCEPT !.pages = Append(Front(c.pages), b.at),
                                             !.table = Append(Front(c.table), Row(b.pool, b.at))]]
           \in Cloned(p, c, x[3])
    <3>. DEFINE K(a) == [pool |-> a.pool, cache |-> [c EXCEPT !.pages = Append(Front(c.pages), a.at),
                                             !.table = Append(Front(c.table), Row(a.pool, a.at))]]
    <3>1. Cloned(p, c, x[3]) = {K(a) : a \in Allocated(q, x[3], data)}
      BY <1>2 DEF Cloned, q, data
    <3>. HIDE DEF K
    <3>2. K(b) \in Cloned(p, c, x[3])
      BY <2>12, <3>1
    <3>. QED
      BY <3>2 DEF K
  <2>. QED
    BY <2>13 DEF c
<1>. QED
  BY <1>1, <1>2

\* What it says of the room for copies.
LEMMA ClonesFitHolds ==
  ASSUME CInv
  PROVE  ClonesFit
<1>. SUFFICES ASSUME Step("clone"), NEW r \in forward.group, NEW l \in Layers, Cloning(r, l)
              PROVE  Cloned(pool, handles[r].caches[l], l) # {}
  BY DEF ClonesFit
<1>. DEFINE C == CachesOf(handles, forward.drafts)
            x == <<"request", r, l>>
            y == <<"draft", r, l>>
            c == handles[r].caches[l]
<1>1. Held(handles, forward.drafts) /\ Sound(pool, index, C) /\ Copying /\ forward.group \subseteq Requests
  BY Going DEF Open
<1>2. r \in Requests /\ handles[r] # None /\ Len(forward.drafts[r]) = l - 1 /\ l \in Nat
  BY GroupIs, Constants DEF Cloning
<1>3. At(C, x, c)
  BY <1>1, <1>2, RequestAt
<1>4. x[2] = r /\ x[3] = l /\ y[2] = r /\ y[3] = l /\ y[1] = "draft"
  OBVIOUS
<1>. HIDE DEF x, y
<1>5. y \notin DOMAIN C
  <2>. SUFFICES ASSUME y \in DOMAIN C PROVE FALSE
    OBVIOUS
  <2>1. OfRequest(C, handles, y) \/ OfDraft(C, forward.drafts, y)
    BY <1>1, CachesNames
  <2>2. ~(l <= Len(forward.drafts[r]))
    BY <1>2
  <2>. QED
    BY <1>4, <2>1, <2>2 DEF OfRequest, OfDraft
<1>6. LastSealed(pool, c) \/ Physical(pool) + SegmentPages <= Capacity
  <2>. SUFFICES ASSUME ~LastSealed(pool, c) PROVE Physical(pool) + SegmentPages <= Capacity
    OBVIOUS
  <2>1. Physical(pool) + SegmentPages * Cardinality(Awaiting) <= Capacity
    BY <1>1 DEF Copying
  <2>2. <<r, l>> \in Awaiting
    <3>1. Len(forward.drafts[r]) < l
      BY <1>2
    <3>. QED
      BY <3>1 DEF Awaiting, Mutable
  <2>3. Awaiting \subseteq forward.group \X Layers
    BY DEF Awaiting
  <2>4. IsFiniteSet(Awaiting) /\ Cardinality(Awaiting) \in Nat
    BY <1>1, <2>3, PairsFinite
  <2>5. Cardinality(Awaiting) # 0
    BY <2>2, <2>4, FS_EmptySet
  <2>6. SegmentPages * Cardinality(Awaiting) >= SegmentPages
    <3>1. SegmentPages \in Nat
      BY Constants
    <3>. QED
      BY <2>4, <2>5, <3>1
  <2>7. Physical(pool) \in Nat /\ Capacity \in Nat /\ SegmentPages \in Nat
    BY PhysicalIs, Constants
  <2>8. SegmentPages * Cardinality(Awaiting) \in Nat
    BY <2>4, <2>7
  <2>. QED
    BY <2>1, <2>6, <2>7, <2>8
<1>. HIDE DEF C, c
<1>7. x \in DOMAIN C /\ C[x] = c
  BY <1>3 DEF At
<1>8. y[2] = x[2] /\ y[3] = x[3]
  BY <1>4
<1>9. Cloned(pool, C[x], x[3]) # {}
  BY <1>1, <1>5, <1>6, <1>7, <1>8, CopyFits
<1>. QED
  BY <1>4, <1>7, <1>9 DEF c

\* A piece of a stream, from the tokens it has.
LEMMA PieceIs ==
  ASSUME NEW S, NEW stream \in Seq(S), NEW a \in Nat, NEW data \in Seq(S),
         a + Len(data) <= Len(stream), \A j \in 1 .. Len(data) : data[j] = stream[a + j]
  PROVE  data = SubSeq(stream, a + 1, a + Len(data))
<1>. DEFINE b == a + Len(data)
            t == SubSeq(stream, a + 1, b)
<1>1. Len(data) \in Nat /\ Len(stream) \in Nat /\ b \in Nat /\ a + 1 \in Int /\ b \in Int
  OBVIOUS
<1>2. \A i \in (a + 1) .. b : stream[i] \in S
  BY <1>1
<1>3. /\ t \in Seq(S) /\ Len(t) = IF a + 1 <= b THEN b - (a + 1) + 1 ELSE 0
      /\ \A i \in 1 .. b - (a + 1) + 1 : t[i] = stream[(a + 1) + i - 1]
  BY <1>1, <1>2, SubSeqProperties
<1>4. Len(t) = Len(data)
  BY <1>1, <1>3
<1>5. \A i \in 1 .. Len(data) : data[i] = t[i]
  <2>. TAKE i \in 1 .. Len(data)
  <2>1. t[i] = stream[(a + 1) + i - 1] /\ (a + 1) + i - 1 = a + i
    BY <1>1, <1>3
  <2>. QED
    BY <2>1
<1>. HIDE DEF t, b
<1>6. data = t
  BY <1>3, <1>4, <1>5, SeqEqual
<1>. QED
  BY <1>6 DEF t, b

\* The start of a stream and the piece behind it.
LEMMA Adjoining ==
  ASSUME NEW S, NEW stream \in Seq(S), NEW a \in 0 .. Len(stream), NEW b \in a .. Len(stream)
  PROVE  SubSeq(stream, 1, a) \o SubSeq(stream, a + 1, b) = SubSeq(stream, 1, b)
<1>1. 1 \in 1 .. Len(stream) + 1 /\ a \in 1 - 1 .. Len(stream)
  OBVIOUS
<1>. QED
  BY <1>1, ConcatAdjacentSubSeq

\* Adjacent pieces of a stream, flattened, are its start.
LEMMA FlattenIs ==
  ASSUME NEW S, NEW stream \in Seq(S), NEW n \in Nat \ {0}, NEW e \in [0 .. n -> 0 .. Len(stream)],
         e[0] = 0, \A i \in 1 .. n : e[i - 1] <= e[i],
         NEW seqs, Len(seqs) = n, \A i \in 1 .. n : seqs[i] = SubSeq(stream, e[i - 1] + 1, e[i])
  PROVE  FlattenSeq(seqs) = SubSeq(stream, 1, e[n])
<1>. DEFINE State(g) == g = [i \in 1 .. n |-> IF i = 1 THEN seqs[i] ELSE g[i - 1] \o seqs[i]]
            flat == CHOOSE g : State(g)
            up == [i \in 1 .. n |-> SubSeq(stream, 1, e[i])]
            val(g, i) == IF i = 1 THEN seqs[i] ELSE g[i - 1] \o seqs[i]
<1>1. FlattenSeq(seqs) = flat[n]
  BY DEF FlattenSeq
<1>2. ASSUME NEW i \in 2 .. n PROVE SubSeq(stream, 1, e[i - 1]) \o seqs[i] = SubSeq(stream, 1, e[i])
  <2>1. i - 1 \in 0 .. n /\ i \in 0 .. n /\ i \in 1 .. n
    OBVIOUS
  <2>2. e[i - 1] \in 0 .. Len(stream) /\ e[i] \in 0 .. Len(stream) /\ e[i - 1] <= e[i]
    BY <2>1
  <2>3. seqs[i] = SubSeq(stream, e[i - 1] + 1, e[i])
    BY <2>1
  <2>4. e[i] \in e[i - 1] .. Len(stream)
    BY <2>2
  <2>. QED
    BY <2>2, <2>3, <2>4, Adjoining
<1>3. seqs[1] = SubSeq(stream, 1, e[1])
  <2>1. 1 \in 1 .. n /\ e[1 - 1] = 0
    OBVIOUS
  <2>2. seqs[1] = SubSeq(stream, e[1 - 1] + 1, e[1])
    BY <2>1
  <2>3. 0 + 1 = 1
    OBVIOUS
  <2>. QED
    BY <2>1, <2>2, <2>3
<1>4. State(up)
  <2>1. ASSUME NEW i \in 1 .. n PROVE up[i] = val(up, i)
    <3>1. CASE i = 1
      BY <1>3, <3>1
    <3>2. CASE i \in 2 .. n
      <4>1. i - 1 \in 1 .. n /\ i # 1
        BY <3>2
      <4>2. up[i - 1] = SubSeq(stream, 1, e[i - 1]) /\ up[i] = SubSeq(stream, 1, e[i])
        BY <4>1
      <4>. HIDE DEF up
      <4>. QED
        BY <1>2, <3>2, <4>1, <4>2
    <3>3. i = 1 \/ i \in 2 .. n
      OBVIOUS
    <3>. QED
      BY <3>1, <3>2, <3>3
  <2>2. up = [i \in 1 .. n |-> up[i]]
    OBVIOUS
  <2>. HIDE DEF up, val
  <2>3. up = [i \in 1 .. n |-> val(up, i)]
    BY <2>1, <2>2
  <2>. QED
    BY <2>3 DEF val
<1>5. State(flat)
  BY <1>4
<1>. HIDE DEF flat, up
<1>6. ASSUME NEW i \in 1 .. n PROVE flat[i] = val(flat, i)
  BY <1>5
<1>. DEFINE T == {m \in 0 .. n : m # 0 /\ flat[m] # SubSeq(stream, 1, e[m])}
<1>7. 0 \notin T
  OBVIOUS
<1>8. ASSUME NEW m \in 1 .. n, m - 1 \notin T PROVE m \notin T
  <2>1. CASE m = 1
    BY <1>3, <1>6, <2>1
  <2>2. CASE m \in 2 .. n
    <3>1. m - 1 \in 0 .. n /\ m - 1 # 0 /\ m # 1
      BY <2>2
    <3>2. flat[m - 1] = SubSeq(stream, 1, e[m - 1])
      BY <1>8, <3>1
    <3>3. flat[m] = flat[m - 1] \o seqs[m]
      BY <1>6, <3>1
    <3>4. flat[m] = SubSeq(stream, 1, e[m])
      BY <1>2, <2>2, <3>2, <3>3
    <3>. QED
      BY <3>4
  <2>3. m = 1 \/ m \in 2 .. n
    OBVIOUS
  <2>. QED
    BY <2>1, <2>2, <2>3
<1>9. T \in SUBSET (0 .. n)
  OBVIOUS
<1>10. n \notin T /\ n \in 0 .. n /\ n # 0
  <2>. HIDE DEF T
  <2>1. T = {}
    BY <1>7, <1>8, <1>9, Climb
  <2>. QED
    BY <2>1
<1>. QED
  BY <1>1, <1>10

\* Where the pages of a cache of n pages start.
LEMMA Starts ==
  ASSUME NEW n \in Nat, NEW i \in 1 .. n
  PROVE  /\ PageTokens * (i - 1) \in Nat /\ PageTokens * i \in Nat /\ PageTokens * (n - 1) \in Nat
         /\ PageTokens * i = PageTokens * (i - 1) + PageTokens
         /\ PageTokens * (i - 1) <= PageTokens * (n - 1)
         /\ i < n => PageTokens * i <= PageTokens * (n - 1)
<1>1. PageTokens \in Nat /\ i - 1 \in Nat /\ n - 1 \in Nat /\ i \in Nat /\ i - 1 <= n - 1
  BY Constants
<1>2. \A a, b \in Nat : a <= b => PageTokens * a \in Nat /\ PageTokens * a <= PageTokens * b
  <2>. TAKE a, b \in Nat
  <2>. HAVE a <= b
  <2>1. PageTokens * a \in Nat /\ PageTokens * b \in Nat /\ PageTokens * (b - a) \in Nat
    BY <1>1
  <2>2. PageTokens * b = PageTokens * a + PageTokens * (b - a)
    BY <1>1
  <2>. QED
    BY <2>1, <2>2
<1>3. PageTokens * i = PageTokens * (i - 1) + PageTokens
  BY <1>1
<1>4. i < n => i <= n - 1
  BY <1>1
<1>. QED
  BY <1>1, <1>2, <1>3, <1>4

\* A cache reads its tokens through its table.
LEMMA CacheReads ==
  ASSUME NEW p, PoolOK(p), NEW c, NEW r \in Requests, NEW l, CacheOK(p, c, r, l)
  PROVE  Reads(p, c) = SubSeq(Stream[r], 1, c.offset)
<1>. DEFINE n == Len(c.pages)
            data(i) == p.page[c.pages[i]].data
            seqs == [i \in DOMAIN c.table |-> SubSeq(p.page[c.table[i].at].data, 1, c.table[i].count)]
            e == [i \in 0 .. n |-> IF i = n THEN c.offset ELSE PageTokens * i]
<1>1. /\ c.pages \in Seq(Places) /\ n \in Nat /\ DOMAIN c.table = 1 .. n /\ Len(c.table) = n
      /\ c.offset \in Nat /\ c.offset <= Len(Stream[r]) /\ Stream[r] \in Seq(Vocabulary)
  <2>1. c \in Cache /\ Len(c.table) = Len(c.pages) /\ c.offset <= Len(Stream[r])
    BY DEF CacheOK
  <2>2. Stream[r] \in Seq(Vocabulary)
    BY Constants
  <2>. QED
    BY <2>1, <2>2 DEF Cache
<1>2. ASSUME NEW i \in 1 .. n
      PROVE  /\ data(i) \in Seq(Vocabulary) /\ Len(data(i)) \in 1 .. PageTokens
             /\ c.table[i].at = c.pages[i] /\ c.table[i].count = Len(data(i))
             /\ i < n => Len(data(i)) = PageTokens
             /\ \A j \in 1 .. Len(data(i)) : data(i)[j] = Stream[r][PageTokens * (i - 1) + j]
  <2>1. /\ c.pages[i] \in Live(p) /\ c.table[i] = Row(p, c.pages[i])
        /\ i < n => p.page[c.pages[i]].sealed
        /\ Holds(p, c.pages[i], Stream[r], i)
    BY DEF CacheOK
  <2>2. BlockOK(p, c.pages[i])
    BY <2>1 DEF PoolOK
  <2>. DEFINE b == p.page[c.pages[i]]
  <2>3. b.data \in Seq(Vocabulary) /\ Len(b.data) \in 1 .. PageTokens /\ (b.sealed => Len(b.data) = PageTokens)
    BY <2>2 DEF BlockOK
  <2>4. c.table[i].at = c.pages[i] /\ c.table[i].count = Len(b.data)
    BY <2>1 DEF Row
  <2>5. \A j \in 1 .. Len(b.data) : b.data[j] = Stream[r][PageTokens * (i - 1) + j]
    BY <2>1 DEF Holds
  <2>. QED
    BY <2>1, <2>3, <2>4, <2>5
<1>3. ASSUME NEW i \in 1 .. n PROVE seqs[i] = data(i)
  <2>1. seqs[i] = SubSeq(p.page[c.table[i].at].data, 1, c.table[i].count)
    BY <1>1
  <2>2. seqs[i] = SubSeq(data(i), 1, Len(data(i)))
    BY <1>2, <2>1
  <2>. HIDE DEF seqs, data
  <2>. QED
    BY <1>2, <2>2, SubSeqFull
<1>4. CASE n = 0
  <2>1. c.pages = <<>> /\ c.offset = 0
    BY <1>1, <1>4, EmptySeq DEF CacheOK
  <2>2. seqs = <<>> /\ Len(seqs) = 0
    BY <1>1, <1>4
  <2>3. Reads(p, c) = <<>>
    BY <2>2 DEF Reads, FlattenSeq
  <2>4. SubSeq(Stream[r], 1, 0) = <<>>
    BY SubSeqEmpty
  <2>. QED
    BY <2>1, <2>3, <2>4
<1>5. CASE n # 0
  <2>1. n \in Nat \ {0} /\ n \in 1 .. n /\ c.pages # <<>>
    BY <1>1, <1>5
  <2>2. c.offset = PageTokens * (n - 1) + Len(data(n))
    BY <2>1 DEF CacheOK
  <2>. HIDE DEF data, seqs
  <2>3. e[n] = c.offset /\ \A i \in 0 .. (n - 1) : e[i] = PageTokens * i
    BY <2>1
  <2>. HIDE DEF n
  <2>4. e = [i \in 0 .. n |-> e[i]]
    OBVIOUS
  <2>5. e[0] = 0
    BY <2>1, <2>3, Constants
  <2>. HIDE DEF e
  <2>6. ASSUME NEW i \in 1 .. n
        PROVE  /\ e[i - 1] = PageTokens * (i - 1) /\ e[i] = e[i - 1] + Len(data(i))
               /\ e[i - 1] \in Nat /\ e[i] \in 0 .. Len(Stream[r])
    <3>1. e[i - 1] = PageTokens * (i - 1) /\ PageTokens * (i - 1) \in Nat
      BY <2>1, <2>3, Starts
    <3>2. Len(data(i)) \in Nat /\ Len(Stream[r]) \in Nat
      BY <1>1, <1>2
    <3>3. CASE i = n
      BY <1>1, <2>2, <2>3, <3>1, <3>2, <3>3
    <3>4. CASE i # n
      <4>1. i \in 0 .. (n - 1) /\ i < n
        BY <2>1, <3>4
      <4>2. e[i] = PageTokens * i /\ Len(data(i)) = PageTokens
        BY <1>2, <2>3, <4>1
      <4>3. PageTokens * i = PageTokens * (i - 1) + PageTokens /\ PageTokens * i \in Nat
            /\ PageTokens * i <= PageTokens * (n - 1) /\ PageTokens * (n - 1) \in Nat
        BY <2>1, <4>1, Starts
      <4>4. PageTokens * (n - 1) <= c.offset
        BY <1>2, <2>1, <2>2, <4>3
      <4>5. e[i] <= Len(Stream[r])
        BY <1>1, <3>2, <4>2, <4>3, <4>4
      <4>. QED
        BY <3>1, <3>2, <4>2, <4>3, <4>5
    <3>. QED
      BY <3>3, <3>4
  <2>7. e \in [0 .. n -> 0 .. Len(Stream[r])]
    <3>1. ASSUME NEW i \in 0 .. n PROVE e[i] \in 0 .. Len(Stream[r])
      <4>1. CASE i = 0
        BY <1>1, <2>5, <4>1
      <4>2. CASE i \in 1 .. n
        BY <2>6, <4>2
      <4>. QED
        BY <2>1, <4>1, <4>2
    <3>. QED
      BY <2>4, <3>1
  <2>8. ASSUME NEW i \in 1 .. n PROVE e[i - 1] <= e[i] /\ seqs[i] = SubSeq(Stream[r], e[i - 1] + 1, e[i])
    <3>. DEFINE a == e[i - 1]
    <3>1. a \in Nat /\ a = PageTokens * (i - 1) /\ e[i] = a + Len(data(i)) /\ e[i] <= Len(Stream[r])
      BY <2>6
    <3>2. Len(data(i)) \in Nat /\ data(i) \in Seq(Vocabulary)
      BY <1>2
    <3>3. \A j \in 1 .. Len(data(i)) : data(i)[j] = Stream[r][a + j]
      BY <1>2, <3>1
    <3>. HIDE DEF a
    <3>4. data(i) = SubSeq(Stream[r], a + 1, a + Len(data(i)))
      <4>. DEFINE d == data(i)
                  s == Stream[r]
      <4>1. s \in Seq(Vocabulary) /\ d \in Seq(Vocabulary) /\ a + Len(d) <= Len(s)
        BY <1>1, <3>1, <3>2
      <4>2. \A j \in 1 .. Len(d) : d[j] = s[a + j]
        BY <3>3
      <4>. HIDE DEF d, s
      <4>3. d = SubSeq(s, a + 1, a + Len(d))
        BY <3>1, <4>1, <4>2, PieceIs
      <4>. QED
        BY <4>3 DEF d, s
    <3>5. a <= e[i]
      BY <3>1, <3>2
    <3>. QED
      BY <1>3, <3>1, <3>4, <3>5 DEF a
  <2>9. Len(seqs) = n
    BY <1>1 DEF seqs
  <2>10. FlattenSeq(seqs) = SubSeq(Stream[r], 1, e[n])
    BY <1>1, <2>1, <2>5, <2>7, <2>8, <2>9, FlattenIs
  <2>11. Reads(p, c) = FlattenSeq(seqs)
    BY DEF Reads, seqs
  <2>. QED
    BY <2>3, <2>10, <2>11
<1>. QED
  BY <1>4, <1>5

\* What it says of the tokens that are read.
LEMMA TablesReadHolds ==
  ASSUME CInv
  PROVE  TablesRead
<1>. DEFINE C == Caches
<1>1. Named(C) /\ PoolOK(pool) /\ CachesOK(pool, C) /\ IndexOK(pool, index) /\ Counted(pool, index, C)
      /\ Alone(pool, index, C)
  BY DEF CInv, Sound
<1>. HIDE DEF C
<1>2. ASSUME NEW x \in DOMAIN C
      PROVE  Reads(pool, C[x]) = SubSeq(Stream[x[2]], 1, C[x].offset)
  <2>1. x[2] \in Requests /\ CacheOK(pool, C[x], x[2], x[3])
    BY <1>1 DEF Named, CachesOK
  <2>. QED
    BY <1>1, <2>1, CacheReads
<1>3. ASSUME NEW at \in Live(pool), ~pool.page[at].sealed
      PROVE  Count(PagesIn(C), at) = 1 /\ at \notin Stored(index)
  <2>1. at \notin Stored(index) /\ \A x, y \in Uses(PagesIn(C), at) : x = y
    BY <1>1, <1>3 DEF Alone
  <2>2. Refs(C, at) + Pins(index, at) > 0 /\ Pins(index, at) = 0
    BY <1>1, <2>1 DEF Counted, Pins
  <2>3. Lists(PagesIn(C)) /\ Refs(C, at) \in Nat
    BY <1>1, HeldIs
  <2>4. Count(PagesIn(C), at) # 0
    BY <2>2, <2>3 DEF Refs
  <2>5. PICK x : x \in Uses(PagesIn(C), at)
    BY <2>3, <2>4, CountNat
  <2>6. Uses(PagesIn(C), at) = {x}
    BY <2>1, <2>5
  <2>7. Cardinality({x}) = 1
    BY FS_Singleton
  <2>. QED
    BY <2>1, <2>6, <2>7 DEF Count
<1>. QED
  BY <1>2, <1>3 DEF TablesRead, C

\* A page is referenced as often as caches and drafts hold it and pinned while the index
\* names it; it lives while someone can reach it, and no longer (block_cache.py).
THEOREM RefsAlwaysCounted == Spec => []RefsCounted
  BY CacheInvariance, RefsCountedHolds, PTL

\* A node of the index holds complete pages of a prompt, in every layer, and has its
\* parent in the index, whatever has been evicted (prefix_cache.py).
THEOREM IndexAlwaysSound == Spec => []IndexSound
  BY CacheInvariance, IndexSoundHolds, PTL

\* Between forwards all layers of a request are where its handle says, and its
\* reservation is what it has not used, also after a rollback (transactions.py).
THEOREM CommitsAreWhole == Spec => []CommitWhole
  BY CacheInvariance, CommitWholeHolds, PTL

\* The transient reservation of a forward is enough for every copy it starts with
\* (paged.py, estimate_clone_bytes).
THEOREM ClonesAlwaysFit == Spec => []ClonesFit
  BY CacheInvariance, ClonesFitHolds, PTL

\* A layer reads through its page table exactly the tokens it has computed, and a page
\* that can be written has one holder (paged.py, arena.py).
THEOREM TablesAlwaysRead == Spec => []TablesRead
  BY CacheInvariance, TablesReadHolds, PTL
=============================================================================
