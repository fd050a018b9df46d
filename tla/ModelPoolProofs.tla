-------------------------- MODULE ModelPoolProofs --------------------------
(***************************************************************************)
(* Proofs about ModelPool for any number of models, clients, slots, bytes  *)
(* and loads.                                                              *)
(*                                                                         *)
(* The inductive invariant says who owns what: a key marked as loading has *)
(* one loader, which is at a known place of its call; a waiter waits for   *)
(* the loader of its own key; a lease is on the resident epoch; and the    *)
(* lease count is the number of clients that hold one.  The two budgets,   *)
(* in the second half, need invariants of their own.                       *)
(***************************************************************************)
EXTENDS ModelPool, FiniteSetTheorems, WellFoundedInduction, TLAPS

LoadSteps == {"clear", "load", "discard", "unregister"}

\* A client at these steps has a key.
Keyed ==
    \A c \in Clients :
        pc[c] \in LoadSteps \cup {"leased", "resolve", "raise", "join", "resume", "drain", "unload"}
            => key[c] \in Keys

\* _loading and the loaders agree, and a key is not loaded while it is resident.
Owned ==
    /\ \A c \in Clients : pc[c] \in LoadSteps => loading[key[c]] = c
    /\ \A k \in Keys : loading[k] # None =>
        /\ live[k] = 0
        /\ pc[loading[k]] \in LoadSteps /\ key[loading[k]] = k

\* Who waits for whom.
Waiting ==
    \A w \in Clients :
        /\ on[w] # None => pc[w] = "join"
        /\ pc[w] = "join" => /\ on[w] \in Clients
                             /\ pc[on[w]] \in LoadSteps \cup {"resolve", "raise"}
                             /\ key[on[w]] = key[w]

IInv == TypeOK /\ Keyed /\ Owned /\ Waiting /\ LeaseSafety /\ LeaseCount

-----------------------------------------------------------------------------
(* Type correctness.                                                       *)

LEMMA InitType == Init => TypeOK
<1>. SUFFICES ASSUME Init PROVE TypeOK
  OBVIOUS
<1>1. live \in [Keys -> Nat] /\ leases \in [Keys -> Nat] /\ epochs \in [Keys -> Nat]
  BY DEF Init
<1>2. bytes \in [Keys -> Sizes \cup {0}] /\ loading \in [Keys -> Clients \cup {None}]
  BY DEF Init
<1>3. pc \in [Clients -> Steps] /\ key \in [Clients -> Keys \cup {None}]
  BY DEF Init, Steps
<1>4. epoch \in [Clients -> Nat] /\ est \in [Clients -> Sizes \cup {0}]
      /\ on \in [Clients -> Clients \cup {None}]
  BY DEF Init
<1>5. removed \in [Clients -> SUBSET Records] /\ todo \in [Clients -> SUBSET Keys]
  BY Zenon DEF Init
<1>. QED
  BY <1>1, <1>2, <1>3, <1>4, <1>5 DEF Init, TypeOK

\* A step preserves the types, provided that a lease is counted before it is
\* released and that a loader has a key.
LEMMA TypeStep ==
  ASSUME TypeOK, Keyed, [Next]_vars,
         \A c \in Clients : pc[c] = "leased" => leases[key[c]] > 0
  PROVE  TypeOK'
<1> USE ModelPoolAssumption
<1>1. ASSUME NEW c \in Clients, NEW k \in Keys, AcquireHit(c, k) PROVE TypeOK'
  BY <1>1 DEF AcquireHit, TypeOK, Steps, Goto, Lease
<1>2. ASSUME NEW c \in Clients, NEW k \in Keys, AcquireJoin(c, k) PROVE TypeOK'
  BY <1>2 DEF AcquireJoin, TypeOK, Steps, Goto, pool
<1>3. ASSUME NEW c \in Clients, NEW k \in Keys, NEW n \in Sizes, AcquireMiss(c, k, n) PROVE TypeOK'
  <2>1. PICK V \in SUBSET Evictable :
          /\ Retire(c, V)
          /\ \/ /\ loading' = [loading EXCEPT ![k] = c] /\ est' = [est EXCEPT ![c] = n]
                /\ key' = [key EXCEPT ![c] = k] /\ Goto(c, "clear")
             \/ Goto(c, "refused") /\ UNCHANGED <<loading, est, key>>
    BY <1>3 DEF AcquireMiss
  <2>2. V \subseteq Keys
    BY DEF Evictable, Resident
  <2>3. removed' \in [Clients -> SUBSET Records]
    BY <2>1, <2>2 DEF Retire, Entry, Records, TypeOK
  <2>4. /\ live' \in [Keys -> Nat] /\ bytes' \in [Keys -> Sizes \cup {0}]
        /\ pinned' \subseteq Keys /\ older' \subseteq Keys \X Keys
    BY <2>1 DEF Retire, TypeOK
  <2>5. /\ loading' \in [Keys -> Clients \cup {None}] /\ est' \in [Clients -> Sizes \cup {0}]
        /\ key' \in [Clients -> Keys \cup {None}] /\ pc' \in [Clients -> Steps]
    BY <2>1 DEF Goto, Steps, TypeOK
  <2>. QED
    BY <1>3, <2>3, <2>4, <2>5 DEF AcquireMiss, TypeOK
<1>4. ASSUME NEW c \in Clients, NEW k \in Keys, Pin(c, k) PROVE TypeOK'
  BY <1>4 DEF Pin, TypeOK, Steps, Goto, pool, local
<1>5. ASSUME NEW c \in Clients, EvictIdle(c) PROVE TypeOK'
  BY <1>5 DEF EvictIdle, TypeOK, Steps, Goto, Evictable, Resident, Retire, Entry, Records
<1>6. ASSUME NEW c \in Clients, BeginClose(c) PROVE TypeOK'
  BY <1>6 DEF BeginClose, ToUnload, TypeOK, Steps, Goto, Resident, Loading
<1>7. ASSUME NEW c \in Clients, Dispose(c) PROVE TypeOK'
  BY <1>7 DEF Dispose, TypeOK, Steps, Goto, pool
<1>8. ASSUME NEW c \in Clients, Cleared(c) PROVE TypeOK'
  BY <1>8 DEF Cleared, TypeOK, Steps, Goto, pool
<1>9. ASSUME NEW c \in Clients, Disposed(c) PROVE TypeOK'
  BY <1>9 DEF Disposed, TypeOK, Steps, Goto, Return, pool
<1>10. ASSUME NEW c \in Clients, NEW n \in Sizes, Publish(c, n) PROVE TypeOK'
  BY <1>10 DEF Publish, TypeOK, Steps, Goto, Touch, Resident, Keyed, LoadSteps
<1>11. ASSUME NEW c \in Clients, NEW n \in Sizes, Reject(c, n) PROVE TypeOK'
  BY <1>11 DEF Reject, TypeOK, Steps, Goto, pool
<1>12. ASSUME NEW c \in Clients, Discard(c) PROVE TypeOK'
  BY <1>12 DEF Discard, TypeOK, Steps, Goto, pool
<1>13. ASSUME NEW c \in Clients, Unregister(c) PROVE TypeOK'
  BY <1>13 DEF Unregister, TypeOK, Steps, Goto, Keyed, LoadSteps
<1>14. ASSUME NEW c \in Clients, Resolve(c) PROVE TypeOK'
  BY <1>14 DEF Resolve, TypeOK, Steps, Answered, pool
<1>15. ASSUME NEW c \in Clients, Raise(c) PROVE TypeOK'
  BY <1>15 DEF Raise, TypeOK, Steps, Answered, pool
<1>16. ASSUME NEW c \in Clients, Resume(c) PROVE TypeOK'
  BY <1>16 DEF Resume, TypeOK, Steps, Goto, Lease, Return, Keyed
<1>17. ASSUME NEW c \in Clients, Release(c) PROVE TypeOK'
  BY <1>17 DEF Release, TypeOK, Steps, Goto, Touch, Resident, Return, Keyed
<1>18. ASSUME NEW c \in Clients, Drained(c) PROVE TypeOK'
  BY <1>18 DEF Drained, TypeOK, Steps, Goto, Resident, Retire, Entry, Records
<1>19. ASSUME NEW c \in Clients, EndUnload(c) PROVE TypeOK'
  BY <1>19 DEF EndUnload, TypeOK, Steps, Goto, UnloadReturns
<1>20. ASSUME NEW c \in Clients, EndClose(c) PROVE TypeOK'
  BY <1>20 DEF EndClose, TypeOK, Steps, Goto, Return, pool
<1>21. ASSUME NEW c \in Clients, NEW k \in Keys, CloseSkips(c, k) PROVE TypeOK'
  BY <1>21 DEF CloseSkips, TypeOK, Steps, Goto, pool
<1>22. ASSUME NEW c \in Clients, NEW k \in Keys, BeginUnload(c, k) PROVE TypeOK'
  BY <1>22 DEF BeginUnload, TypeOK, Steps, Goto
<1>23. ASSUME NEW c \in Clients, LoadFails(c) PROVE TypeOK'
  BY <1>23 DEF LoadFails, TypeOK, Steps, Goto, pool
<1>24. ASSUME NEW c \in Clients, DrainTimesOut(c) PROVE TypeOK'
  BY <1>24 DEF DrainTimesOut, TypeOK, Steps, Goto, UnloadReturns
<1>25. CASE UNCHANGED vars
  BY <1>25 DEF TypeOK, vars, pool, local
<1>26. QED
  BY <1>1, <1>2, <1>3, <1>4, <1>5, <1>6, <1>7, <1>8, <1>9, <1>10, <1>11, <1>12, <1>13, <1>14,
     <1>15, <1>16, <1>17, <1>18, <1>19, <1>20, <1>21, <1>22, <1>23, <1>24, <1>25 DEF Next, Call,
     Work

-----------------------------------------------------------------------------
(* The lease count.                                                        *)

LEMMA HoldersFinite == \A k \in Keys : IsFiniteSet(Holders(k))
  BY ModelPoolAssumption, FS_Subset DEF Holders

\* A client that holds a lease is counted.
LEMMA HeldIsCounted ==
  ASSUME TypeOK, LeaseCount, NEW c \in Clients, Holds(c), key[c] \in Keys
  PROVE  leases[key[c]] > 0
<1>1. c \in Holders(key[c]) /\ IsFiniteSet(Holders(key[c]))
  BY HoldersFinite DEF Holders
<1>2. Cardinality(Holders(key[c])) # 0 /\ Cardinality(Holders(key[c])) \in Nat
  BY <1>1, FS_EmptySet, FS_CardinalityType
<1>. QED
  BY <1>2 DEF LeaseCount

\* The steps that take no lease and release none.
LEMMA CountSame ==
  ASSUME LeaseCount, leases' = leases,
         \A c \in Clients : Holds(c)' <=> Holds(c),
         \A c \in Clients : Holds(c) => key'[c] = key[c]
  PROVE  LeaseCount'
<1>1. \A k \in Keys : Holders(k)' = Holders(k)
  BY DEF Holders
<1>. QED
  BY <1>1 DEF LeaseCount

\* The steps by which client c takes a lease on k.
LEMMA CountUp ==
  ASSUME TypeOK, LeaseCount, NEW c \in Clients, NEW k \in Keys,
         leases' = [leases EXCEPT ![k] = @ + 1],
         ~Holds(c), Holds(c)', key'[c] = k,
         \A d \in Clients \ {c} : Holds(d)' <=> Holds(d),
         \A d \in Clients \ {c} : Holds(d) => key'[d] = key[d]
  PROVE  LeaseCount'
<1>1. Holders(k)' = Holders(k) \cup {c} /\ c \notin Holders(k)
  BY DEF Holders
<1>2. \A j \in Keys \ {k} : Holders(j)' = Holders(j)
  BY DEF Holders
<1>3. Cardinality(Holders(k)') = Cardinality(Holders(k)) + 1
  BY <1>1, HoldersFinite, FS_AddElement
<1>. QED
  BY <1>2, <1>3 DEF LeaseCount, TypeOK

\* ModelLease.release by client c.
LEMMA CountDown ==
  ASSUME TypeOK, LeaseCount, NEW c \in Clients, NEW k \in Keys,
         leases' = [leases EXCEPT ![k] = @ - 1],
         Holds(c), ~Holds(c)', key[c] = k,
         \A d \in Clients \ {c} : Holds(d)' <=> Holds(d),
         \A d \in Clients \ {c} : Holds(d) => key'[d] = key[d]
  PROVE  LeaseCount'
<1>1. Holders(k)' = Holders(k) \ {c} /\ c \in Holders(k)
  BY DEF Holders
<1>2. \A j \in Keys \ {k} : Holders(j)' = Holders(j)
  BY DEF Holders
<1>3. Cardinality(Holders(k)') = Cardinality(Holders(k)) - 1
  BY <1>1, HoldersFinite, FS_RemoveElement
<1>. QED
  BY <1>2, <1>3 DEF LeaseCount, TypeOK

-----------------------------------------------------------------------------
(* The inductive invariant.                                                *)

\* Nobody holds a lease on an entry that looks idle.
LEMMA IdleIsUnheld ==
  ASSUME TypeOK, Keyed, LeaseCount, NEW k \in Keys, leases[k] = 0, NEW c \in Clients, Holds(c)
  PROVE  key[c] # k
<1>1. key[c] \in Keys
  BY DEF Keyed, Holds
<1>. QED
  BY <1>1, HeldIsCounted DEF TypeOK

\* Entries are taken out of the pool without touching a leased one.
LEMMA RetireKeepsLeased ==
  ASSUME IInv, NEW c \in Clients, NEW V \in SUBSET Keys, Retire(c, V),
         \A k \in V : leases[k] = 0 \/ live[k] = 0
  PROVE  \A d \in Clients : Holds(d) => live'[key[d]] = live[key[d]]
<1>. SUFFICES ASSUME NEW d \in Clients, Holds(d) PROVE live'[key[d]] = live[key[d]]
  OBVIOUS
<1>1. key[d] \in Keys /\ live[key[d]] # 0
  BY DEF IInv, Keyed, Holds, LeaseSafety
<1>2. key[d] \notin V
  BY <1>1, IdleIsUnheld DEF IInv
<1>. QED
  BY <1>1, <1>2 DEF Retire

LEMMA InvStep ==
  ASSUME IInv, [Next]_vars
  PROVE  IInv'
<1> USE ModelPoolAssumption DEF IInv
<1>0. TypeOK'
  BY HeldIsCounted, TypeStep DEF Keyed, Holds
<1>1. ASSUME NEW c \in Clients, NEW k \in Keys, AcquireHit(c, k) PROVE IInv'
  <2>1. Keyed' /\ Owned'
    BY <1>1 DEF AcquireHit, TypeOK, Goto, Keyed, Owned, Waiting, LeaseSafety, LoadSteps, Holds,
       Lease, MayAcquire
  <2>2. Waiting' /\ LeaseSafety'
    BY <1>1 DEF AcquireHit, TypeOK, Goto, Keyed, Owned, Waiting, LeaseSafety, LoadSteps, Holds,
       Lease, MayAcquire
  <2>3. LeaseCount'
    BY <1>1, CountUp DEF AcquireHit, TypeOK, Keyed, LoadSteps, Holds, Goto, Lease, MayAcquire
  <2>. QED
    BY <1>0, <2>1, <2>2, <2>3
<1>2. ASSUME NEW c \in Clients, NEW k \in Keys, AcquireJoin(c, k) PROVE IInv'
  <2>1. Keyed' /\ Owned'
    BY <1>2 DEF AcquireJoin, TypeOK, Goto, Keyed, Owned, Waiting, LeaseSafety, LoadSteps, Holds,
       MayAcquire, pool
  <2>2. Waiting' /\ LeaseSafety'
    BY <1>2 DEF AcquireJoin, TypeOK, Goto, Keyed, Owned, Waiting, LeaseSafety, LoadSteps, Holds,
       MayAcquire, pool
  <2>3. LeaseCount'
    BY <1>2, CountSame DEF AcquireJoin, TypeOK, Keyed, LoadSteps, Holds, Goto, MayAcquire, pool
  <2>. QED
    BY <1>0, <2>1, <2>2, <2>3
<1>3. ASSUME NEW c \in Clients, NEW k \in Keys, NEW n \in Sizes, AcquireMiss(c, k, n) PROVE IInv'
  <2>1. Keyed' /\ Owned'
    BY SMTT(30), <1>3 DEF AcquireMiss, TypeOK, Goto, Keyed, Owned, Waiting, LeaseSafety,
       LoadSteps, Holds, MayAcquire, Evictable, Resident, Retire
  <2>2. Waiting' /\ LeaseSafety'
    <3>1. PICK V \in SUBSET Evictable : Retire(c, V)
      BY <1>3 DEF AcquireMiss
    <3>2. V \subseteq Keys /\ \A j \in V : leases[j] = 0
      BY DEF Evictable, Resident
    <3>3. \A d \in Clients : Holds(d) => live'[key[d]] = live[key[d]]
      BY <3>1, <3>2, RetireKeepsLeased
    <3>. QED
      BY <1>3, <3>3 DEF AcquireMiss, TypeOK, Goto, Keyed, Waiting, LeaseSafety, LoadSteps,
         Holds, MayAcquire
  <2>3. LeaseCount'
    BY <1>3, CountSame DEF AcquireMiss, TypeOK, Keyed, LoadSteps, Holds, Goto, MayAcquire,
       Evictable, Resident, Retire
  <2>. QED
    BY <1>0, <2>1, <2>2, <2>3
<1>4. ASSUME NEW c \in Clients, NEW k \in Keys, Pin(c, k) PROVE IInv'
  <2>1. Keyed' /\ Owned'
    BY <1>4 DEF Pin, TypeOK, Goto, Keyed, Owned, Waiting, LeaseSafety, LoadSteps, Holds, local
  <2>2. Waiting' /\ LeaseSafety'
    BY <1>4 DEF Pin, TypeOK, Goto, Keyed, Owned, Waiting, LeaseSafety, LoadSteps, Holds, local
  <2>3. LeaseCount'
    BY <1>4, CountSame DEF Pin, TypeOK, Keyed, LoadSteps, Holds, Goto, local
  <2>. QED
    BY <1>0, <2>1, <2>2, <2>3
<1>5. ASSUME NEW c \in Clients, EvictIdle(c) PROVE IInv'
  <2>1. Keyed' /\ Owned'
    BY <1>5 DEF EvictIdle, TypeOK, Goto, Keyed, Owned, Waiting, LeaseSafety, LoadSteps, Holds,
       Evictable, Resident, Retire
  <2>2. Waiting' /\ LeaseSafety'
    <3>1. PICK V \in SUBSET Evictable : Retire(c, V)
      BY <1>5 DEF EvictIdle
    <3>2. V \subseteq Keys /\ \A j \in V : leases[j] = 0
      BY DEF Evictable, Resident
    <3>3. \A d \in Clients : Holds(d) => live'[key[d]] = live[key[d]]
      BY <3>1, <3>2, RetireKeepsLeased
    <3>. QED
      BY <1>5, <3>3 DEF EvictIdle, TypeOK, Goto, Keyed, Waiting, LeaseSafety, LoadSteps, Holds
  <2>3. LeaseCount'
    BY <1>5, CountSame DEF EvictIdle, TypeOK, Keyed, LoadSteps, Holds, Goto, Evictable,
       Resident, Retire
  <2>. QED
    BY <1>0, <2>1, <2>2, <2>3
<1>6. ASSUME NEW c \in Clients, BeginClose(c) PROVE IInv'
  <2>1. Keyed' /\ Owned'
    BY <1>6 DEF BeginClose, ToUnload, TypeOK, Goto, Keyed, Owned, Waiting, LeaseSafety,
       LoadSteps, Holds
  <2>2. Waiting' /\ LeaseSafety'
    BY <1>6 DEF BeginClose, ToUnload, TypeOK, Goto, Keyed, Owned, Waiting, LeaseSafety,
       LoadSteps, Holds
  <2>3. LeaseCount'
    BY <1>6, CountSame DEF BeginClose, ToUnload, TypeOK, Keyed, LoadSteps, Holds, Goto
  <2>. QED
    BY <1>0, <2>1, <2>2, <2>3
<1>7. ASSUME NEW c \in Clients, Dispose(c) PROVE IInv'
  <2>1. Keyed' /\ Owned'
    BY <1>7 DEF Dispose, TypeOK, Goto, Keyed, Owned, Waiting, LeaseSafety, LoadSteps, Holds, pool
  <2>2. Waiting' /\ LeaseSafety'
    BY <1>7 DEF Dispose, TypeOK, Goto, Keyed, Owned, Waiting, LeaseSafety, LoadSteps, Holds, pool
  <2>3. LeaseCount'
    BY <1>7, CountSame DEF Dispose, TypeOK, Keyed, LoadSteps, Holds, Goto, pool
  <2>. QED
    BY <1>0, <2>1, <2>2, <2>3
<1>8. ASSUME NEW c \in Clients, Cleared(c) PROVE IInv'
  <2>1. Keyed' /\ Owned'
    BY <1>8 DEF Cleared, TypeOK, Goto, Keyed, Owned, Waiting, LeaseSafety, LoadSteps, Holds, pool
  <2>2. Waiting' /\ LeaseSafety'
    BY <1>8 DEF Cleared, TypeOK, Goto, Keyed, Owned, Waiting, LeaseSafety, LoadSteps, Holds, pool
  <2>3. LeaseCount'
    BY <1>8, CountSame DEF Cleared, TypeOK, Keyed, LoadSteps, Holds, Goto, pool
  <2>. QED
    BY <1>0, <2>1, <2>2, <2>3
<1>9. ASSUME NEW c \in Clients, Disposed(c) PROVE IInv'
  <2>1. Keyed' /\ Owned'
    BY <1>9 DEF Disposed, TypeOK, Goto, Keyed, Owned, Waiting, LeaseSafety, LoadSteps, Holds,
       Return, pool
  <2>2. Waiting' /\ LeaseSafety'
    BY <1>9 DEF Disposed, TypeOK, Goto, Keyed, Owned, Waiting, LeaseSafety, LoadSteps, Holds,
       Return, pool
  <2>3. LeaseCount'
    BY <1>9, CountSame DEF Disposed, TypeOK, Keyed, LoadSteps, Holds, Goto, Return, pool
  <2>. QED
    BY <1>0, <2>1, <2>2, <2>3
<1>10. ASSUME NEW c \in Clients, NEW n \in Sizes, Publish(c, n) PROVE IInv'
  <2>1. Keyed' /\ Owned'
    BY <1>10 DEF Publish, TypeOK, Goto, Keyed, Owned, Waiting, LeaseSafety, LoadSteps, Holds
  <2>2. Waiting' /\ LeaseSafety'
    BY <1>10 DEF Publish, TypeOK, Goto, Keyed, Owned, Waiting, LeaseSafety, LoadSteps, Holds
  <2>3. LeaseCount'
    <3>. DEFINE k == key[c]
    <3>1. k \in Keys /\ live[k] = 0 /\ leases[k] \in Nat
      BY <1>10 DEF Publish, Keyed, Owned, LoadSteps, TypeOK
    <3>2. Holders(k) = {}
      BY <3>1 DEF Holders, Holds, LeaseSafety
    <3>3. leases[k] = 0
      BY <3>1, <3>2, FS_EmptySet DEF LeaseCount
    <3>4. leases' = [leases EXCEPT ![k] = @ + 1]
      BY <1>10, <3>3 DEF Publish
    <3>. QED
      <4>1. ~Holds(c) /\ Holds(c)' /\ key'[c] = k
        BY <1>10 DEF Publish, TypeOK, Holds, Goto
      <4>2. \A d \in Clients \ {c} : (Holds(d)' <=> Holds(d)) /\ key'[d] = key[d]
        BY <1>10 DEF Publish, TypeOK, Holds, Goto
      <4>. QED
        BY <3>1, <3>4, <4>1, <4>2, CountUp
  <2>. QED
    BY <1>0, <2>1, <2>2, <2>3
<1>11. ASSUME NEW c \in Clients, NEW n \in Sizes, Reject(c, n) PROVE IInv'
  <2>1. Keyed' /\ Owned'
    BY <1>11 DEF Reject, TypeOK, Goto, Keyed, Owned, Waiting, LeaseSafety, LoadSteps, Holds, pool
  <2>2. Waiting' /\ LeaseSafety'
    BY <1>11 DEF Reject, TypeOK, Goto, Keyed, Owned, Waiting, LeaseSafety, LoadSteps, Holds, pool
  <2>3. LeaseCount'
    BY <1>11, CountSame DEF Reject, TypeOK, Keyed, LoadSteps, Holds, Goto, pool
  <2>. QED
    BY <1>0, <2>1, <2>2, <2>3
<1>12. ASSUME NEW c \in Clients, Discard(c) PROVE IInv'
  <2>1. Keyed' /\ Owned'
    BY <1>12 DEF Discard, TypeOK, Goto, Keyed, Owned, Waiting, LeaseSafety, LoadSteps, Holds, pool
  <2>2. Waiting' /\ LeaseSafety'
    BY <1>12 DEF Discard, TypeOK, Goto, Keyed, Owned, Waiting, LeaseSafety, LoadSteps, Holds, pool
  <2>3. LeaseCount'
    BY <1>12, CountSame DEF Discard, TypeOK, Keyed, LoadSteps, Holds, Goto, pool
  <2>. QED
    BY <1>0, <2>1, <2>2, <2>3
<1>13. ASSUME NEW c \in Clients, Unregister(c) PROVE IInv'
  <2>1. Keyed' /\ Owned'
    BY <1>13 DEF Unregister, TypeOK, Goto, Keyed, Owned, Waiting, LeaseSafety, LoadSteps, Holds
  <2>2. Waiting' /\ LeaseSafety'
    BY <1>13 DEF Unregister, TypeOK, Goto, Keyed, Owned, Waiting, LeaseSafety, LoadSteps, Holds
  <2>3. LeaseCount'
    BY <1>13, CountSame DEF Unregister, TypeOK, Keyed, LoadSteps, Holds, Goto
  <2>. QED
    BY <1>0, <2>1, <2>2, <2>3
<1>14. ASSUME NEW c \in Clients, Resolve(c) PROVE IInv'
  <2>1. Keyed' /\ Owned'
    BY <1>14 DEF Resolve, TypeOK, Goto, Keyed, Owned, Waiting, LeaseSafety, LoadSteps, Holds,
       Joined, Answered, pool
  <2>2. Waiting' /\ LeaseSafety'
    BY <1>14 DEF Resolve, TypeOK, Goto, Keyed, Owned, Waiting, LeaseSafety, LoadSteps, Holds,
       Joined, Answered, pool
  <2>3. LeaseCount'
    <3>1. \A w \in Joined(c) : pc[w] = "join"
      BY <1>14 DEF Joined, Waiting
    <3>2. leases' = leases
      BY <1>14 DEF Resolve, pool
    <3>3. \A d \in Clients : Holds(d)' <=> Holds(d)
      BY <1>14, <3>1 DEF Resolve, TypeOK, Holds
    <3>4. \A d \in Clients : Holds(d) => key'[d] = key[d]
      BY <1>14, <3>1 DEF Resolve, TypeOK, Holds
    <3>. QED
      BY <3>2, <3>3, <3>4, CountSame
  <2>. QED
    BY <1>0, <2>1, <2>2, <2>3
<1>15. ASSUME NEW c \in Clients, Raise(c) PROVE IInv'
  <2>1. Keyed' /\ Owned'
    BY <1>15 DEF Raise, TypeOK, Goto, Keyed, Owned, Waiting, LeaseSafety, LoadSteps, Holds,
       Joined, Answered, pool
  <2>2. Waiting' /\ LeaseSafety'
    BY <1>15 DEF Raise, TypeOK, Goto, Keyed, Owned, Waiting, LeaseSafety, LoadSteps, Holds,
       Joined, Answered, pool
  <2>3. LeaseCount'
    <3>1. \A w \in Joined(c) : pc[w] = "join"
      BY <1>15 DEF Joined, Waiting
    <3>2. leases' = leases
      BY <1>15 DEF Raise, pool
    <3>3. \A d \in Clients : Holds(d)' <=> Holds(d)
      BY <1>15, <3>1 DEF Raise, TypeOK, Holds
    <3>4. \A d \in Clients : Holds(d) => key'[d] = key[d]
      BY <1>15, <3>1 DEF Raise, TypeOK, Holds
    <3>. QED
      BY <3>2, <3>3, <3>4, CountSame
  <2>. QED
    BY <1>0, <2>1, <2>2, <2>3
<1>16. ASSUME NEW c \in Clients, Resume(c) PROVE IInv'
  <2>1. Keyed' /\ Owned'
    BY <1>16 DEF Resume, TypeOK, Goto, Keyed, Owned, Waiting, LeaseSafety, LoadSteps, Holds,
       Lease, Return
  <2>2. Waiting' /\ LeaseSafety'
    BY <1>16 DEF Resume, TypeOK, Goto, Keyed, Owned, Waiting, LeaseSafety, LoadSteps, Holds,
       Lease, Return
  <2>3. LeaseCount'
    BY SMTT(30), <1>16, CountSame, CountUp DEF Resume, TypeOK, Keyed, LoadSteps, Holds, Goto,
       Lease, Return
  <2>. QED
    BY <1>0, <2>1, <2>2, <2>3
<1>17. ASSUME NEW c \in Clients, Release(c) PROVE IInv'
  <2>1. Keyed' /\ Owned'
    BY <1>17 DEF Release, TypeOK, Goto, Keyed, Owned, Waiting, LeaseSafety, LoadSteps, Holds,
       Return
  <2>2. Waiting' /\ LeaseSafety'
    BY <1>17 DEF Release, TypeOK, Goto, Keyed, Owned, Waiting, LeaseSafety, LoadSteps, Holds,
       Return
  <2>3. LeaseCount'
    BY <1>17, CountDown DEF Release, TypeOK, Keyed, LoadSteps, Holds, Goto, Return
  <2>. QED
    BY <1>0, <2>1, <2>2, <2>3
<1>18. ASSUME NEW c \in Clients, Drained(c) PROVE IInv'
  <2>1. Keyed' /\ Owned'
    BY <1>18 DEF Drained, TypeOK, Goto, Keyed, Owned, Waiting, LeaseSafety, LoadSteps, Holds,
       Resident, Retire
  <2>2. Waiting' /\ LeaseSafety'
    <3>1. PICK V \in SUBSET Keys : Retire(c, V) /\ V = {key[c]} \cap Resident
      BY <1>18 DEF Drained, Resident
    <3>2. \A j \in V : leases[j] = 0
      BY <1>18, <3>1 DEF Drained, Resident
    <3>3. \A d \in Clients : Holds(d) => live'[key[d]] = live[key[d]]
      BY <3>1, <3>2, RetireKeepsLeased
    <3>. QED
      BY <1>18, <3>3 DEF Drained, TypeOK, Goto, Keyed, Waiting, LeaseSafety, LoadSteps, Holds
  <2>3. LeaseCount'
    BY <1>18, CountSame DEF Drained, TypeOK, Keyed, LoadSteps, Holds, Goto, Resident, Retire
  <2>. QED
    BY <1>0, <2>1, <2>2, <2>3
<1>19. ASSUME NEW c \in Clients, EndUnload(c) PROVE IInv'
  <2>1. Keyed' /\ Owned'
    BY <1>19 DEF EndUnload, TypeOK, Goto, Keyed, Owned, Waiting, LeaseSafety, LoadSteps, Holds,
       UnloadReturns
  <2>2. Waiting' /\ LeaseSafety'
    BY <1>19 DEF EndUnload, TypeOK, Goto, Keyed, Owned, Waiting, LeaseSafety, LoadSteps, Holds,
       UnloadReturns
  <2>3. LeaseCount'
    BY <1>19, CountSame DEF EndUnload, TypeOK, Keyed, LoadSteps, Holds, Goto, UnloadReturns
  <2>. QED
    BY <1>0, <2>1, <2>2, <2>3
<1>20. ASSUME NEW c \in Clients, EndClose(c) PROVE IInv'
  <2>1. Keyed' /\ Owned'
    BY <1>20 DEF EndClose, TypeOK, Goto, Keyed, Owned, Waiting, LeaseSafety, LoadSteps, Holds,
       Return, pool
  <2>2. Waiting' /\ LeaseSafety'
    BY <1>20 DEF EndClose, TypeOK, Goto, Keyed, Owned, Waiting, LeaseSafety, LoadSteps, Holds,
       Return, pool
  <2>3. LeaseCount'
    BY <1>20, CountSame DEF EndClose, TypeOK, Keyed, LoadSteps, Holds, Goto, Return, pool
  <2>. QED
    BY <1>0, <2>1, <2>2, <2>3
<1>21. ASSUME NEW c \in Clients, NEW k \in Keys, CloseSkips(c, k) PROVE IInv'
  <2>1. Keyed' /\ Owned'
    BY <1>21 DEF CloseSkips, TypeOK, Goto, Keyed, Owned, Waiting, LeaseSafety, LoadSteps, Holds,
       pool
  <2>2. Waiting' /\ LeaseSafety'
    BY <1>21 DEF CloseSkips, TypeOK, Goto, Keyed, Owned, Waiting, LeaseSafety, LoadSteps, Holds,
       pool
  <2>3. LeaseCount'
    BY <1>21, CountSame DEF CloseSkips, TypeOK, Keyed, LoadSteps, Holds, Goto, pool
  <2>. QED
    BY <1>0, <2>1, <2>2, <2>3
<1>22. ASSUME NEW c \in Clients, NEW k \in Keys, BeginUnload(c, k) PROVE IInv'
  <2>1. Keyed' /\ Owned'
    BY <1>22 DEF BeginUnload, TypeOK, Goto, Keyed, Owned, Waiting, LeaseSafety, LoadSteps, Holds
  <2>2. Waiting' /\ LeaseSafety'
    BY <1>22 DEF BeginUnload, TypeOK, Goto, Keyed, Owned, Waiting, LeaseSafety, LoadSteps, Holds
  <2>3. LeaseCount'
    BY <1>22, CountSame DEF BeginUnload, TypeOK, Keyed, LoadSteps, Holds, Goto
  <2>. QED
    BY <1>0, <2>1, <2>2, <2>3
<1>23. ASSUME NEW c \in Clients, LoadFails(c) PROVE IInv'
  <2>1. Keyed' /\ Owned'
    BY <1>23 DEF LoadFails, TypeOK, Goto, Keyed, Owned, Waiting, LeaseSafety, LoadSteps, Holds,
       pool
  <2>2. Waiting' /\ LeaseSafety'
    BY <1>23 DEF LoadFails, TypeOK, Goto, Keyed, Owned, Waiting, LeaseSafety, LoadSteps, Holds,
       pool
  <2>3. LeaseCount'
    BY <1>23, CountSame DEF LoadFails, TypeOK, Keyed, LoadSteps, Holds, Goto, pool
  <2>. QED
    BY <1>0, <2>1, <2>2, <2>3
<1>24. ASSUME NEW c \in Clients, DrainTimesOut(c) PROVE IInv'
  <2>1. Keyed' /\ Owned'
    BY <1>24 DEF DrainTimesOut, TypeOK, Goto, Keyed, Owned, Waiting, LeaseSafety, LoadSteps,
       Holds, UnloadReturns
  <2>2. Waiting' /\ LeaseSafety'
    BY <1>24 DEF DrainTimesOut, TypeOK, Goto, Keyed, Owned, Waiting, LeaseSafety, LoadSteps,
       Holds, UnloadReturns
  <2>3. LeaseCount'
    BY <1>24, CountSame DEF DrainTimesOut, TypeOK, Keyed, LoadSteps, Holds, Goto, UnloadReturns
  <2>. QED
    BY <1>0, <2>1, <2>2, <2>3
<1>25. CASE UNCHANGED vars
  BY <1>0, <1>25 DEF vars, pool, local, Keyed, Owned, Waiting, LeaseSafety, LeaseCount, Holders,
     Holds
<1>26. QED
  BY <1>1, <1>2, <1>3, <1>4, <1>5, <1>6, <1>7, <1>8, <1>9, <1>10, <1>11, <1>12, <1>13, <1>14,
     <1>15, <1>16, <1>17, <1>18, <1>19, <1>20, <1>21, <1>22, <1>23, <1>24, <1>25 DEF Next, Call,
     Work

LEMMA InitInv == Init => IInv
<1>. SUFFICES ASSUME Init PROVE IInv
  OBVIOUS
<1>1. TypeOK
  BY InitType
<1>2. Keyed /\ Owned /\ Waiting /\ LeaseSafety
  BY ModelPoolAssumption DEF Init, Keyed, Owned, Waiting, LeaseSafety, Holds, LoadSteps
<1>3. \A k \in Keys : Holders(k) = {} /\ leases[k] = 0
  BY DEF Init, Holders, Holds
<1>4. LeaseCount
  BY <1>3, FS_EmptySet DEF LeaseCount
<1>. QED
  BY <1>1, <1>2, <1>4 DEF IInv

\* The inductive invariant holds in every reachable state of the pool, whatever
\* the clients, keys, budgets and sizes.
THEOREM Invariance == Spec => []IInv
  BY InitInv, InvStep, PTL DEF Spec

-----------------------------------------------------------------------------
(* What the pool guarantees.                                               *)

\* Every variable keeps its type; in particular no lease is released twice.
THEOREM TypeCorrect == Spec => []TypeOK
  BY Invariance, PTL DEF IInv

\* A leased model is never evicted, unloaded or replaced, whatever loads, unloads,
\* evictions and closes interleave (ModelLease, acquire, _remove_idle, unload).
THEOREM LeasesAreSafe == Spec => []LeaseSafety
  BY Invariance, PTL DEF IInv

\* The count that eviction and unload rely on is exact (_Resident.leases).
THEOREM LeasesAreCounted == Spec => []LeaseCount
  BY Invariance, PTL DEF IInv

\* A waiter waits for a call that is loading its key and will answer it (acquire's
\* single flight).
THEOREM WaitersAreServed == Spec => []JoinersServed
<1>1. IInv => JoinersServed
  BY DEF IInv, Waiting, JoinersServed, LoadSteps
<1>. QED
  BY <1>1, Invariance, PTL

-----------------------------------------------------------------------------
(* Draining.                                                               *)

\* unload's own half of DrainOwned, without counting: a marked key has its unload,
\* an unload has its mark, and no key has two.
DrainInv ==
    /\ \A k \in draining : \E c \in Clients : pc[c] \in {"drain", "unload"} /\ key[c] = k
    /\ \A c \in Clients : pc[c] \in {"drain", "unload"} => key[c] \in draining
    /\ \A c, d \in Clients :
        pc[c] \in {"drain", "unload"} /\ pc[d] \in {"drain", "unload"} /\ key[c] = key[d] => c = d

LEMMA DrainStep ==
  ASSUME IInv, DrainInv, [Next]_vars
  PROVE  DrainInv'
<1> USE ModelPoolAssumption DEF IInv
<1>1. ASSUME NEW c \in Clients, NEW k \in Keys, AcquireHit(c, k) PROVE DrainInv'
  BY <1>1 DEF AcquireHit, TypeOK, DrainInv, Goto, MayAcquire
<1>2. ASSUME NEW c \in Clients, NEW k \in Keys, AcquireJoin(c, k) PROVE DrainInv'
  BY <1>2 DEF AcquireJoin, TypeOK, DrainInv, Goto, MayAcquire, pool
<1>3. ASSUME NEW c \in Clients, NEW k \in Keys, NEW n \in Sizes, AcquireMiss(c, k, n) PROVE DrainInv'
  BY <1>3 DEF AcquireMiss, TypeOK, DrainInv, Goto, MayAcquire
<1>4. ASSUME NEW c \in Clients, NEW k \in Keys, Pin(c, k) PROVE DrainInv'
  BY <1>4 DEF Pin, TypeOK, DrainInv, Goto, local
<1>5. ASSUME NEW c \in Clients, EvictIdle(c) PROVE DrainInv'
  BY <1>5 DEF EvictIdle, TypeOK, DrainInv, Goto
<1>6. ASSUME NEW c \in Clients, BeginClose(c) PROVE DrainInv'
  BY <1>6 DEF BeginClose, ToUnload, TypeOK, DrainInv, Goto
<1>7. ASSUME NEW c \in Clients, Dispose(c) PROVE DrainInv'
  BY <1>7 DEF Dispose, TypeOK, DrainInv, Goto, pool
<1>8. ASSUME NEW c \in Clients, Cleared(c) PROVE DrainInv'
  BY <1>8 DEF Cleared, TypeOK, DrainInv, Goto, pool
<1>9. ASSUME NEW c \in Clients, Disposed(c) PROVE DrainInv'
  BY <1>9 DEF Disposed, TypeOK, DrainInv, Goto, Return, pool
<1>10. ASSUME NEW c \in Clients, NEW n \in Sizes, Publish(c, n) PROVE DrainInv'
  BY <1>10 DEF Publish, TypeOK, DrainInv, Goto
<1>11. ASSUME NEW c \in Clients, NEW n \in Sizes, Reject(c, n) PROVE DrainInv'
  BY <1>11 DEF Reject, TypeOK, DrainInv, Goto, pool
<1>12. ASSUME NEW c \in Clients, Discard(c) PROVE DrainInv'
  BY <1>12 DEF Discard, TypeOK, DrainInv, Goto, pool
<1>13. ASSUME NEW c \in Clients, Unregister(c) PROVE DrainInv'
  BY <1>13 DEF Unregister, TypeOK, DrainInv, Goto
<1>14. ASSUME NEW c \in Clients, Resolve(c) PROVE DrainInv'
  BY <1>14 DEF Resolve, TypeOK, DrainInv, Goto, Joined, Waiting, pool
<1>15. ASSUME NEW c \in Clients, Raise(c) PROVE DrainInv'
  BY <1>15 DEF Raise, TypeOK, DrainInv, Goto, Joined, Waiting, pool
<1>16. ASSUME NEW c \in Clients, Resume(c) PROVE DrainInv'
  BY SMTT(30), <1>16 DEF Resume, TypeOK, DrainInv, Goto, Return
<1>17. ASSUME NEW c \in Clients, Release(c) PROVE DrainInv'
  BY <1>17 DEF Release, TypeOK, DrainInv, Goto, Return
<1>18. ASSUME NEW c \in Clients, Drained(c) PROVE DrainInv'
  BY <1>18 DEF Drained, TypeOK, DrainInv, Goto
<1>19. ASSUME NEW c \in Clients, EndUnload(c) PROVE DrainInv'
  BY <1>19 DEF EndUnload, TypeOK, DrainInv, Goto, UnloadReturns
<1>20. ASSUME NEW c \in Clients, EndClose(c) PROVE DrainInv'
  BY <1>20 DEF EndClose, TypeOK, DrainInv, Goto, Return, pool
<1>21. ASSUME NEW c \in Clients, NEW k \in Keys, CloseSkips(c, k) PROVE DrainInv'
  BY <1>21 DEF CloseSkips, TypeOK, DrainInv, Goto, pool
<1>22. ASSUME NEW c \in Clients, NEW k \in Keys, BeginUnload(c, k) PROVE DrainInv'
  BY <1>22 DEF BeginUnload, TypeOK, DrainInv, Goto
<1>23. ASSUME NEW c \in Clients, LoadFails(c) PROVE DrainInv'
  BY <1>23 DEF LoadFails, TypeOK, DrainInv, Goto, pool
<1>24. ASSUME NEW c \in Clients, DrainTimesOut(c) PROVE DrainInv'
  BY <1>24 DEF DrainTimesOut, TypeOK, DrainInv, Goto, UnloadReturns
<1>25. CASE UNCHANGED vars
  BY <1>25 DEF vars, pool, local, DrainInv
<1>26. QED
  BY <1>1, <1>2, <1>3, <1>4, <1>5, <1>6, <1>7, <1>8, <1>9, <1>10, <1>11, <1>12, <1>13, <1>14,
     <1>15, <1>16, <1>17, <1>18, <1>19, <1>20, <1>21, <1>22, <1>23, <1>24, <1>25 DEF Next, Call,
     Work

LEMMA DrainInvariance == Spec => []DrainInv
<1>1. Init => DrainInv
  BY DEF Init, DrainInv
<1>. QED
  BY <1>1, DrainStep, Invariance, PTL DEF Spec

\* A key is marked draining exactly while one call unloads it (unload's try/finally).
THEOREM DrainsAreOwned == Spec => []DrainOwned
<1>1. DrainInv => DrainOwned
  <2>. SUFFICES ASSUME DrainInv, NEW k \in Keys
                PROVE  Cardinality({c \in Clients : pc[c] \in {"drain", "unload"} /\ key[c] = k})
                           = IF k \in draining THEN 1 ELSE 0
    BY DEF DrainOwned
  <2>1. CASE k \in draining
    <3>1. PICK d \in Clients : {c \in Clients : pc[c] \in {"drain", "unload"} /\ key[c] = k} = {d}
      BY <2>1 DEF DrainInv
    <3>. QED
      BY <2>1, <3>1, FS_Singleton
  <2>2. CASE k \notin draining
    <3>1. {c \in Clients : pc[c] \in {"drain", "unload"} /\ key[c] = k} = {}
      BY <2>2 DEF DrainInv
    <3>. QED
      BY <2>2, <3>1, FS_EmptySet
  <2>. QED
    BY <2>1, <2>2
<1>. QED
  BY <1>1, DrainInvariance, PTL

-----------------------------------------------------------------------------
(* Residency: who may take a model out of the pool.                        *)

\* The steps that change what is resident.
LEMMA LiveSteps ==
  ASSUME [Next]_vars, live' # live
  PROVE  \E c \in Clients :
            \/ \E k \in Keys, n \in Sizes : AcquireMiss(c, k, n)
            \/ \E n \in Sizes : Publish(c, n)
            \/ Drained(c)
            \/ EvictIdle(c)
<1>. USE DEF pool
<1>1. ~(UNCHANGED vars)
  BY DEF vars
<1>2. PICK c \in Clients : \/ Call(c) \/ Work(c)
                           \/ \E k \in Keys : BeginUnload(c, k)
                           \/ LoadFails(c) \/ DrainTimesOut(c)
  BY <1>1 DEF Next
<1>3. CASE Call(c)
  BY <1>3 DEF Call, AcquireHit, AcquireJoin, Pin, BeginClose
<1>4. CASE Work(c)
  BY <1>4 DEF Work, Dispose, Cleared, Disposed, Reject, Discard, Unregister, Resolve, Raise,
     Resume,
              Release, EndUnload, EndClose, CloseSkips
<1>5. CASE \/ \E k \in Keys : BeginUnload(c, k)
           \/ LoadFails(c) \/ DrainTimesOut(c)
  BY <1>5 DEF BeginUnload, LoadFails, DrainTimesOut
<1>. QED
  BY <1>2, <1>3, <1>4, <1>5

\* A pinned model leaves the pool by an unload only: eviction for a load and idle
\* expiry pass it over (_remove_idle).
THEOREM PinsHold == Spec => PinnedStays
<1>1. ASSUME TypeOK, Keyed, DrainInv, [Next]_vars
      PROVE  \A k \in pinned : live[k] # 0 /\ live'[k] = 0 => k \in draining
  <2>. SUFFICES ASSUME NEW k \in pinned, live[k] # 0, live'[k] = 0
                PROVE  k \in draining
    OBVIOUS
  <2>0. k \in Keys
    BY <1>1 DEF TypeOK
  <2>1. PICK c \in Clients :
            \/ \E j \in Keys, n \in Sizes : AcquireMiss(c, j, n)
            \/ \E n \in Sizes : Publish(c, n)
            \/ Drained(c)
            \/ EvictIdle(c)
    BY <1>1, LiveSteps
  <2>2. CASE \E j \in Keys, n \in Sizes : AcquireMiss(c, j, n)
    BY <2>0, <2>2 DEF AcquireMiss, Retire, Evictable
  <2>3. CASE \E n \in Sizes : Publish(c, n)
    BY <1>1, <2>0, <2>3 DEF Publish, TypeOK, Keyed, LoadSteps
  <2>4. CASE Drained(c)
    BY <1>1, <2>0, <2>4 DEF Drained, Retire, DrainInv
  <2>5. CASE EvictIdle(c)
    BY <2>0, <2>5 DEF EvictIdle, Retire, Evictable
  <2>. QED
    BY <2>1, <2>2, <2>3, <2>4, <2>5
<1>2. ASSUME TypeOK, Keyed, DrainInv, [Next]_vars
      PROVE  [\A k \in pinned : live[k] # 0 /\ live'[k] = 0 => k \in draining]_vars
  BY <1>1, <1>2
<1>3. IInv => TypeOK /\ Keyed
  BY DEF IInv
<1>. QED
  BY <1>2, <1>3, Invariance, DrainInvariance, PTL DEF Spec, PinnedStays

-----------------------------------------------------------------------------
(* close.                                                                  *)

\* Whatever is still resident or loading is on the list of every close that has had
\* no error so far, or is the key it is waiting for.
CloseInv ==
    /\ closers # {} \/ quiet => closed
    /\ \A c \in Clients : pc[c] = "closing" => c \in closers
    /\ \A c \in closers :
        /\ pc[c] \in {"closing", "drain", "unload"}
        /\ c \notin failed => Resident \cup Loading
                                  \subseteq todo[c] \cup (IF pc[c] = "drain" THEN {key[c]} ELSE {})
    /\ quiet => Resident \cup Loading = {}

LEMMA CloseStep ==
  ASSUME IInv, CloseInv, [Next]_vars
  PROVE  CloseInv'
<1> USE ModelPoolAssumption DEF IInv
<1>1. ASSUME NEW c \in Clients, NEW k \in Keys, AcquireHit(c, k) PROVE CloseInv'
  BY <1>1 DEF AcquireHit, CloseInv, TypeOK, Goto, Resident, Loading, MayAcquire
<1>2. ASSUME NEW c \in Clients, NEW k \in Keys, AcquireJoin(c, k) PROVE CloseInv'
  BY <1>2 DEF AcquireJoin, CloseInv, TypeOK, Goto, Resident, Loading, MayAcquire, pool
<1>3. ASSUME NEW c \in Clients, NEW k \in Keys, NEW n \in Sizes, AcquireMiss(c, k, n) PROVE CloseInv'
  BY <1>3 DEF AcquireMiss, CloseInv, TypeOK, Goto, Resident, Loading, MayAcquire
<1>4. ASSUME NEW c \in Clients, NEW k \in Keys, Pin(c, k) PROVE CloseInv'
  BY <1>4 DEF Pin, CloseInv, TypeOK, Goto, Resident, Loading, local
<1>5. ASSUME NEW c \in Clients, EvictIdle(c) PROVE CloseInv'
  BY <1>5 DEF EvictIdle, CloseInv, TypeOK, Goto, Resident, Loading, Retire
<1>6. ASSUME NEW c \in Clients, BeginClose(c) PROVE CloseInv'
  BY <1>6 DEF BeginClose, CloseInv, TypeOK, Goto, Resident, Loading, ToUnload
<1>7. ASSUME NEW c \in Clients, Dispose(c) PROVE CloseInv'
  BY <1>7 DEF Dispose, CloseInv, TypeOK, Goto, Resident, Loading, pool
<1>8. ASSUME NEW c \in Clients, Cleared(c) PROVE CloseInv'
  BY <1>8 DEF Cleared, CloseInv, TypeOK, Goto, Resident, Loading, pool
<1>9. ASSUME NEW c \in Clients, Disposed(c) PROVE CloseInv'
  BY <1>9 DEF Disposed, CloseInv, TypeOK, Goto, Resident, Loading, Return, pool
<1>10. ASSUME NEW c \in Clients, NEW n \in Sizes, Publish(c, n) PROVE CloseInv'
  BY <1>10 DEF Publish, CloseInv, TypeOK, Goto, Resident, Loading, Fits
<1>11. ASSUME NEW c \in Clients, NEW n \in Sizes, Reject(c, n) PROVE CloseInv'
  BY <1>11 DEF Reject, CloseInv, TypeOK, Goto, Resident, Loading, pool
<1>12. ASSUME NEW c \in Clients, Discard(c) PROVE CloseInv'
  BY <1>12 DEF Discard, CloseInv, TypeOK, Goto, Resident, Loading, pool
<1>13. ASSUME NEW c \in Clients, Unregister(c) PROVE CloseInv'
  BY <1>13 DEF Unregister, CloseInv, TypeOK, Goto, Resident, Loading
<1>14. ASSUME NEW c \in Clients, Resolve(c) PROVE CloseInv'
  BY <1>14 DEF Resolve, CloseInv, TypeOK, Goto, Resident, Loading, Joined, Waiting, pool
<1>15. ASSUME NEW c \in Clients, Raise(c) PROVE CloseInv'
  BY <1>15 DEF Raise, CloseInv, TypeOK, Goto, Resident, Loading, Joined, Waiting, pool
<1>16. ASSUME NEW c \in Clients, Resume(c) PROVE CloseInv'
  BY <1>16 DEF Resume, CloseInv, TypeOK, Goto, Resident, Loading, Return
<1>17. ASSUME NEW c \in Clients, Release(c) PROVE CloseInv'
  BY <1>17 DEF Release, CloseInv, TypeOK, Goto, Resident, Loading, Return
<1>18. ASSUME NEW c \in Clients, Drained(c) PROVE CloseInv'
  BY <1>18 DEF Drained, CloseInv, TypeOK, Goto, Resident, Loading, Retire
<1>19. ASSUME NEW c \in Clients, EndUnload(c) PROVE CloseInv'
  BY <1>19 DEF EndUnload, CloseInv, TypeOK, Goto, Resident, Loading, UnloadReturns
<1>20. ASSUME NEW c \in Clients, EndClose(c) PROVE CloseInv'
  BY <1>20 DEF EndClose, CloseInv, TypeOK, Goto, Resident, Loading, Return, pool
<1>21. ASSUME NEW c \in Clients, NEW k \in Keys, CloseSkips(c, k) PROVE CloseInv'
  BY <1>21 DEF CloseSkips, CloseInv, TypeOK, Goto, Resident, Loading, pool
<1>22. ASSUME NEW c \in Clients, NEW k \in Keys, BeginUnload(c, k) PROVE CloseInv'
  BY <1>22 DEF BeginUnload, CloseInv, TypeOK, Goto, Resident, Loading
<1>23. ASSUME NEW c \in Clients, LoadFails(c) PROVE CloseInv'
  BY <1>23 DEF LoadFails, CloseInv, TypeOK, Goto, Resident, Loading, pool
<1>24. ASSUME NEW c \in Clients, DrainTimesOut(c) PROVE CloseInv'
  BY <1>24 DEF DrainTimesOut, CloseInv, TypeOK, Goto, Resident, Loading, UnloadReturns
<1>25. CASE UNCHANGED vars
  BY <1>25 DEF vars, pool, local, CloseInv, Resident, Loading
<1>26. QED
  BY <1>1, <1>2, <1>3, <1>4, <1>5, <1>6, <1>7, <1>8, <1>9, <1>10, <1>11, <1>12, <1>13, <1>14,
     <1>15, <1>16, <1>17, <1>18, <1>19, <1>20, <1>21, <1>22, <1>23, <1>24, <1>25 DEF Next, Call,
     Work

\* A close that returns without error leaves an empty pool, and no load that was
\* under way can publish into it later (close, and acquire's check of _closed).
THEOREM CloseEmpties == Spec => []ClosedIsEmpty
<1>1. Init => CloseInv
  BY DEF Init, CloseInv, Resident, Loading
<1>2. CloseInv => ClosedIsEmpty
  BY DEF CloseInv, ClosedIsEmpty
<1>. QED
  BY <1>1, <1>2, CloseStep, Invariance, PTL DEF Spec
-----------------------------------------------------------------------------
(* The two budgets, max_models and budget_bytes.                           *)
(*                                                                         *)
(* Slots.  A load asks for room once, at the moment it is registered, and  *)
(* counts neither its own victims, which it disposes before it loads, nor  *)
(* those of other loads that came later.  What makes this right: the bound *)
(* holds for whatever set S of the loads that still dispose their victims  *)
(* one imagines to have finished doing so and to have a model in memory.   *)
(*                                                                         *)
(* Bytes.  A load asks a second time, with what it measured, before its    *)
(* model is published.  The sums of the code are folds over sets; they are *)
(* reduced to the cardinality of a set with one element for every byte.    *)

Clearing == {c \in Clients : pc[c] = "clear"}
Busy == {c \in Clients : pc[c] \in {"load", "discard"}}

\* What is still to be disposed when the clients of S have disposed theirs.
Owed(S) == UNION {removed[c] : c \in Clients \ S}

Fit(S) == Cardinality(Resident) + Cardinality(Owed(S)) + Cardinality(Busy) + Cardinality(S) <= MaxModels

SlotInv ==
    /\ \A c \in Clients : IsFiniteSet(removed[c])
    /\ \A c \in Clients : removed[c] # {} => pc[c] \in {"clear", "refused", "evict", "unload"}
    /\ \A S \in SUBSET Clearing : Fit(S)

-----------------------------------------------------------------------------
(* Finite sets.                                                            *)

LEMMA OwedFinite ==
  ASSUME \A c \in Clients : IsFiniteSet(removed[c]), NEW S
  PROVE  IsFiniteSet(Owed(S))
<1>1. IsFiniteSet(Clients \ S)
  BY ModelPoolAssumption, FS_Difference
<1>. DEFINE I == {removed[c] : c \in Clients \ S}
            f == [c \in Clients \ S |-> removed[c]]
<1>2. f \in Surjection(Clients \ S, I)
  BY DEF Surjection
<1>3. IsFiniteSet(I)
  BY <1>1, <1>2, FS_Surjection
<1>. QED
  BY <1>3, FS_UNION DEF Owed

LEMMA Finite ==
  ASSUME SlotInv
  PROVE  /\ IsFiniteSet(Resident) /\ Cardinality(Resident) \in Nat
         /\ IsFiniteSet(Loading) /\ Cardinality(Loading) \in Nat
         /\ IsFiniteSet(Busy) /\ Cardinality(Busy) \in Nat
         /\ \A S \in SUBSET Clients : IsFiniteSet(S) /\ Cardinality(S) \in Nat
         /\ \A S \in SUBSET Clients : IsFiniteSet(Owed(S)) /\ Cardinality(Owed(S)) \in Nat
<1>1. IsFiniteSet(Resident) /\ IsFiniteSet(Loading) /\ IsFiniteSet(Busy)
  BY ModelPoolAssumption, FS_Subset DEF Resident, Loading, Busy
<1>2. \A S \in SUBSET Clients : IsFiniteSet(S)
  BY ModelPoolAssumption, FS_Subset
<1>3. \A S \in SUBSET Clients : IsFiniteSet(Owed(S))
  BY OwedFinite DEF SlotInv
<1>. QED
  BY <1>1, <1>2, <1>3, FS_CardinalityType

\* As many records are owed for the entries of V as V has members.
LEMMA EntriesCount ==
  ASSUME NEW V \in SUBSET Keys
  PROVE  LET E == {Entry(k) : k \in V} IN
         IsFiniteSet(E) /\ Cardinality(E) \in Nat /\ Cardinality(E) <= Cardinality(V)
<1>. DEFINE E == {Entry(k) : k \in V}
            f == [k \in V |-> Entry(k)]
<1>1. IsFiniteSet(V)
  BY ModelPoolAssumption, FS_Subset
<1>2. f \in Surjection(V, E)
  BY DEF Surjection
<1>. QED
  BY <1>1, <1>2, FS_Surjection, FS_CardinalityType

-----------------------------------------------------------------------------
(* Steps that only give room back.                                         *)

LEMMA SlotsFreed ==
  ASSUME SlotInv, Resident' \subseteq Resident,
         \A c \in Clients : removed'[c] \subseteq removed[c],
         \A c \in Clients : removed'[c] # {} => pc'[c] \in {"clear", "refused", "evict", "unload"},
         Busy' \subseteq Busy, Clearing' \subseteq Clearing
  PROVE  SlotInv'
<1>1. \A c \in Clients : IsFiniteSet(removed'[c])
  BY FS_Subset DEF SlotInv
<1>2. ASSUME NEW S \in SUBSET Clearing' PROVE Fit(S)'
  <2>1. S \in SUBSET Clearing /\ S \in SUBSET Clients
    BY DEF Clearing
  <2>2. Owed(S)' \subseteq Owed(S)
    BY DEF Owed
  <2>3. /\ Cardinality(Resident') \in Nat /\ Cardinality(Resident') <= Cardinality(Resident)
        /\ Cardinality(Busy') \in Nat /\ Cardinality(Busy') <= Cardinality(Busy)
        /\ Cardinality(Owed(S)') \in Nat /\ Cardinality(Owed(S)') <= Cardinality(Owed(S))
    BY <2>1, <2>2, Finite, FS_Subset, FS_CardinalityType
  <2>4. Fit(S)
    BY <2>1 DEF SlotInv
  <2>. QED
    BY <2>1, <2>3, <2>4, Finite, ModelPoolAssumption DEF Fit
<1>. QED
  BY <1>1, <1>2 DEF SlotInv

\* Client c takes V out: whatever is not set aside of it moves from the table to
\* what is owed.
LEMMA SlotsMoved ==
  ASSUME TypeOK, SlotInv, NEW c \in Clients, NEW V \in SUBSET Resident, Retire(c, V),
         removed[c] = {}, Busy' = Busy, NEW S \in SUBSET Clearing, c \notin S
  PROVE  Fit(S)'
<1>. DEFINE E == {Entry(k) : k \in V}
<1>1. V \subseteq Keys /\ S \in SUBSET Clients
  BY DEF Resident, Clearing
<1>2. Resident' = Resident \ V /\ V = Resident \cap V
  BY <1>1 DEF Retire, Resident, TypeOK
<1>3. Cardinality(Resident') = Cardinality(Resident) - Cardinality(V)
  BY <1>2, Finite, FS_Difference
<1>4. Owed(S)' = Owed(S) \cup E
  BY DEF Retire, Owed, TypeOK
<1>5. IsFiniteSet(E) /\ Cardinality(E) \in Nat /\ Cardinality(E) <= Cardinality(V)
  BY <1>1, EntriesCount
<1>6. Cardinality(Owed(S)') <= Cardinality(Owed(S)) + Cardinality(V) /\ Cardinality(Owed(S)') \in Nat
  <2>1. IsFiniteSet(Owed(S) \cap E)
    BY <1>5, FS_Subset
  <2>2. Cardinality(Owed(S) \cap E) \in Nat
    BY <2>1, FS_CardinalityType
  <2>3. /\ IsFiniteSet(Owed(S) \cup E)
        /\ Cardinality(Owed(S) \cup E) = Cardinality(Owed(S)) + Cardinality(E) - Cardinality(Owed(S) \cap E)
    BY <1>1, <1>5, Finite, FS_Union
  <2>4. Cardinality(Owed(S) \cup E) \in Nat
    BY <2>3, FS_CardinalityType
  <2>5. Cardinality(V) \in Nat
    BY <1>1, ModelPoolAssumption, FS_Subset, FS_CardinalityType
  <2>. QED
    BY <1>1, <1>4, <1>5, <2>2, <2>3, <2>4, <2>5, Finite
<1>7. Fit(S)
  BY DEF SlotInv
<1>8. Cardinality(V) \in Nat
  BY <1>1, ModelPoolAssumption, FS_Subset, FS_CardinalityType
<1>. QED
  BY <1>1, <1>3, <1>6, <1>7, <1>8, Finite, ModelPoolAssumption DEF Fit

\* unload, evict_idle and a refused acquire take entries out and load nothing.
LEMMA SlotsMovedOnly ==
  ASSUME TypeOK, SlotInv, NEW c \in Clients, NEW V \in SUBSET Resident, Retire(c, V),
         pc[c] \in {"idle", "drain"}, pc' = [pc EXCEPT ![c] = pc'[c]],
         pc'[c] \in {"refused", "evict", "unload"}
  PROVE  SlotInv'
<1>1. removed[c] = {} /\ Busy' = Busy /\ Clearing' = Clearing /\ c \notin Clearing
  BY DEF SlotInv, Busy, Clearing, TypeOK
<1>2. \A S \in SUBSET Clearing' : Fit(S)'
  BY <1>1, SlotsMoved
<1>3. IsFiniteSet({Entry(k) : k \in V})
  BY EntriesCount DEF Resident
<1>4. \A d \in Clients : removed'[d] = IF d = c THEN {Entry(k) : k \in V} ELSE removed[d]
  BY DEF Retire, TypeOK
<1>5. \A d \in Clients : pc'[d] = IF d = c THEN pc'[c] ELSE pc[d]
  BY DEF TypeOK
<1>. QED
  BY <1>2, <1>3, <1>4, <1>5 DEF SlotInv

-----------------------------------------------------------------------------
(* The life of a load.                                                     *)

\* The loads that dispose their victims or have a model in memory are registered.
LEMMA LoadersRegistered ==
  ASSUME IInv, SlotInv, NEW S \in SUBSET Clearing
  PROVE  Cardinality(Busy) + Cardinality(S) <= Cardinality(Loading)
<1>. DEFINE L == Busy \cup S
            f == [c \in L |-> key[c]]
<1>1. \A c \in L : c \in Clients /\ pc[c] \in LoadSteps
  BY DEF Busy, Clearing, LoadSteps
<1>2. \A c \in L : key[c] \in Loading /\ loading[key[c]] = c
  BY <1>1, ModelPoolAssumption DEF IInv, Keyed, Owned, Loading
<1>3. f \in Injection(L, Loading)
  BY <1>2 DEF Injection, IsInjective
<1>4. Cardinality(L) <= Cardinality(Loading)
  BY <1>3, Finite, FS_Injection
<1>5. Busy \cap S = {} /\ S \in SUBSET Clients
  BY DEF Busy, Clearing
<1>6. Cardinality(L) = Cardinality(Busy) + Cardinality(S)
  <2>1. Cardinality(L) = Cardinality(Busy) + Cardinality(S) - Cardinality(Busy \cap S)
    BY <1>5, Finite, FS_Union
  <2>2. Cardinality(Busy \cap S) = 0
    BY <1>5, FS_EmptySet
  <2>. QED
    BY <1>5, <2>1, <2>2, Finite
<1>. QED
  BY <1>4, <1>6

\* acquire registers a load for which there is room.
LEMMA SlotsReserved ==
  ASSUME IInv, SlotInv, NEW c \in Clients, NEW n \in Sizes, NEW V \in SUBSET Resident,
         pc[c] = "idle", Retire(c, V), HasRoom(V, n), Goto(c, "clear")
  PROVE  SlotInv'
<1>1. removed[c] = {} /\ Busy' = Busy /\ Clearing' = Clearing \cup {c} /\ c \notin Clearing
  BY DEF SlotInv, Busy, Clearing, IInv, TypeOK, Goto
<1>2. ASSUME NEW S \in SUBSET Clearing', c \notin S PROVE Fit(S)'
  BY <1>1, <1>2, SlotsMoved DEF IInv
<1>3. ASSUME NEW S \in SUBSET Clearing', c \in S PROVE Fit(S)'
  <2>. DEFINE T == S \ {c}
  <2>1. T \in SUBSET Clearing /\ T \in SUBSET Clients /\ S = T \cup {c} /\ c \notin T
    BY <1>1, <1>3 DEF Clearing
  <2>2. Cardinality(S) = Cardinality(T) + 1
    BY <2>1, Finite, FS_AddElement
  <2>3. Cardinality(Busy) + Cardinality(T) <= Cardinality(Loading)
    BY <2>1, LoadersRegistered
  <2>4. Resident' = Resident \ V
    BY DEF Retire, Resident, IInv, TypeOK
  <2>5. Retiring = Owed({}) /\ Owed(S)' \subseteq Owed({})
    BY <1>3 DEF Retiring, Owed, Retire, IInv, TypeOK
  <2>6. Cardinality(Owed(S)') <= Cardinality(Retiring) /\ Cardinality(Owed(S)') \in Nat
    BY <2>5, Finite, FS_Subset, FS_CardinalityType
  <2>7. Cardinality(Resident \ V) \in Nat /\ Cardinality(Retiring) \in Nat
    BY <2>5, Finite, FS_Difference, FS_CardinalityType
  <2>8. Cardinality(Resident \ V) + Cardinality(Loading) + Cardinality(Retiring) < MaxModels
    BY DEF HasRoom
  <2>. QED
    BY <1>1, <2>1, <2>2, <2>3, <2>4, <2>6, <2>7, <2>8, Finite, ModelPoolAssumption DEF Fit
<1>4. IsFiniteSet({Entry(k) : k \in V})
  BY EntriesCount DEF Resident
<1>5. \A d \in Clients : removed'[d] = IF d = c THEN {Entry(k) : k \in V} ELSE removed[d]
  BY DEF Retire, IInv, TypeOK
<1>6. \A d \in Clients : pc'[d] = IF d = c THEN "clear" ELSE pc[d]
  BY DEF Goto, IInv, TypeOK
<1>. QED
  BY <1>2, <1>3, <1>4, <1>5, <1>6 DEF SlotInv

\* The load's own victims are disposed: its model takes the room set aside for it.
LEMMA SlotsUsed ==
  ASSUME TypeOK, SlotInv, NEW c \in Clients, Cleared(c)
  PROVE  SlotInv'
<1>1. pc[c] = "clear" /\ removed[c] = {} /\ removed' = removed /\ Resident' = Resident
  BY DEF Cleared, pool, Resident
<1>2. \A d \in Clients : d # c => pc'[d] = pc[d]
  BY DEF Cleared, Goto, TypeOK
<1>3. CASE Goto(c, "unregister")
  <2>1. Busy' = Busy /\ Clearing' \subseteq Clearing
    BY <1>1, <1>3 DEF Busy, Clearing, Goto, TypeOK
  <2>. QED
    BY <1>1, <1>2, <2>1, SlotsFreed DEF SlotInv
<1>4. CASE Goto(c, "load")
  <2>1. Busy' = Busy \cup {c} /\ c \notin Busy /\ Clearing' = Clearing \ {c} /\ c \in Clearing
    BY <1>1, <1>4 DEF Busy, Clearing, Goto, TypeOK
  <2>2. ASSUME NEW S \in SUBSET Clearing' PROVE Fit(S)'
    <3>1. S \cup {c} \in SUBSET Clearing /\ c \notin S /\ S \in SUBSET Clients
      BY <2>1 DEF Clearing
    <3>2. Owed(S)' = Owed(S \cup {c})
      BY <1>1 DEF Owed
    <3>3. /\ Cardinality(S \cup {c}) = Cardinality(S) + 1
          /\ Cardinality(Busy') = Cardinality(Busy) + 1
      BY <2>1, <3>1, Finite, FS_AddElement
    <3>4. Fit(S \cup {c})
      BY <3>1 DEF SlotInv
    <3>5. Cardinality(Owed(S \cup {c})) \in Nat
      BY <3>1, Finite DEF Clearing
    <3>. QED
      BY <1>1, <3>1, <3>2, <3>3, <3>4, <3>5, Finite, ModelPoolAssumption DEF Fit
  <2>. QED
    BY <1>1, <1>2, <2>2 DEF SlotInv
<1>. QED
  BY <1>3, <1>4 DEF Cleared

\* The loaded model becomes a resident one.
LEMMA SlotsPublished ==
  ASSUME IInv, SlotInv, NEW c \in Clients, NEW n \in Sizes, Publish(c, n)
  PROVE  SlotInv'
<1>. DEFINE k == key[c]
<1>1. k \in Keys /\ live[k] = 0 /\ epochs[k] + 1 # 0
  BY ModelPoolAssumption DEF Publish, IInv, Keyed, Owned, LoadSteps, TypeOK
<1>2. Resident' = Resident \cup {k} /\ k \notin Resident
  BY <1>1 DEF Resident, Publish, IInv, TypeOK
<1>3. Busy' = Busy \ {c} /\ c \in Busy /\ Clearing' = Clearing
  BY DEF Busy, Clearing, Publish, Goto, IInv, TypeOK
<1>4. /\ Cardinality(Resident') = Cardinality(Resident) + 1
      /\ Cardinality(Busy') = Cardinality(Busy) - 1
  <2>1. IsFiniteSet(Resident) /\ IsFiniteSet(Busy)
    BY Finite
  <2>2. Cardinality(Resident \cup {k}) = Cardinality(Resident) + 1
    BY <1>2, <2>1, FS_AddElement
  <2>3. Cardinality(Busy \ {c}) = Cardinality(Busy) - 1
    BY <1>3, <2>1, FS_RemoveElement
  <2>. QED
    BY <1>2, <1>3, <2>2, <2>3
<1>5. removed' = removed
  BY DEF Publish
<1>6. ASSUME NEW S \in SUBSET Clearing' PROVE Fit(S)'
  <2>1. S \in SUBSET Clearing /\ S \in SUBSET Clients /\ Owed(S)' = Owed(S)
    BY <1>3, <1>5 DEF Clearing, Owed
  <2>2. Fit(S)
    BY <2>1 DEF SlotInv
  <2>. QED
    BY <1>4, <2>1, <2>2, Finite, ModelPoolAssumption DEF Fit
<1>7. \A d \in Clients : d # c => pc'[d] = pc[d]
  BY DEF Publish, Goto, IInv, TypeOK
<1>8. removed[c] = {}
  BY DEF Publish, SlotInv
<1>. QED
  BY <1>5, <1>6, <1>7, <1>8 DEF SlotInv

-----------------------------------------------------------------------------
(* Every step.                                                             *)

\* The remaining steps give room back or leave it alone.
LeavesRoom ==
    /\ live' = live
    /\ \A c \in Clients : removed'[c] \subseteq removed[c]
    /\ \A c \in Clients :
        \/ pc'[c] = pc[c]
        \/ pc[c] # "load" /\ removed[c] = {} /\ pc'[c] \notin {"clear", "load", "discard"}
        \/ pc[c] = "load" /\ pc'[c] \in {"unregister", "discard"}

LEMMA SlotsLeft ==
  ASSUME SlotInv, LeavesRoom
  PROVE  SlotInv'
<1>1. Resident' = Resident
  BY DEF Resident, LeavesRoom
<1>2. Busy' \subseteq Busy /\ Clearing' \subseteq Clearing
  BY DEF Busy, Clearing, LeavesRoom
<1>3. \A c \in Clients : removed'[c] # {} => pc'[c] \in {"clear", "refused", "evict", "unload"}
  BY DEF SlotInv, LeavesRoom
<1>. QED
  BY <1>1, <1>2, <1>3, SlotsFreed DEF LeavesRoom

LEMMA SlotStep ==
  ASSUME IInv, SlotInv, [Next]_vars
  PROVE  SlotInv'
<1>. USE ModelPoolAssumption DEF IInv
<1>0. \A c \in Clients : removed[c] # {} => pc[c] \in {"clear", "refused", "evict", "unload"}
  BY DEF SlotInv
<1>1. ASSUME NEW c \in Clients, NEW k \in Keys, AcquireHit(c, k) PROVE LeavesRoom
  BY <1>0, <1>1 DEF LeavesRoom, TypeOK, AcquireHit, Goto, MayAcquire
<1>2. ASSUME NEW c \in Clients, NEW k \in Keys, AcquireJoin(c, k) PROVE LeavesRoom
  BY <1>0, <1>2 DEF LeavesRoom, TypeOK, AcquireJoin, Goto, MayAcquire, pool
<1>3. ASSUME NEW c \in Clients, NEW k \in Keys, NEW n \in Sizes, AcquireMiss(c, k, n) PROVE SlotInv'
  <2>1. PICK V \in SUBSET Evictable :
          /\ Retire(c, V)
          /\ \/ HasRoom(V, n) /\ Goto(c, "clear")
             \/ Goto(c, "refused")
    BY <1>3 DEF AcquireMiss
  <2>2. V \in SUBSET Resident /\ pc[c] = "idle"
    BY <1>3 DEF Evictable, AcquireMiss, MayAcquire
  <2>3. CASE HasRoom(V, n) /\ Goto(c, "clear")
    BY <2>1, <2>2, <2>3, SlotsReserved
  <2>4. CASE Goto(c, "refused")
    <3>1. pc' = [pc EXCEPT ![c] = pc'[c]] /\ pc'[c] = "refused"
      BY <2>4 DEF Goto, TypeOK
    <3>. QED
      BY <2>1, <2>2, <3>1, SlotsMovedOnly
  <2>. QED
    BY <2>1, <2>3, <2>4
<1>4. ASSUME NEW c \in Clients, NEW k \in Keys, Pin(c, k) PROVE LeavesRoom
  BY <1>0, <1>4 DEF LeavesRoom, TypeOK, Pin, local
<1>5. ASSUME NEW c \in Clients, EvictIdle(c) PROVE SlotInv'
  <2>1. PICK V \in SUBSET Resident : Retire(c, V)
    BY <1>5 DEF EvictIdle, Evictable
  <2>2. pc[c] = "idle" /\ pc' = [pc EXCEPT ![c] = pc'[c]] /\ pc'[c] = "evict"
    BY <1>5 DEF EvictIdle, Goto, TypeOK
  <2>. QED
    BY <2>1, <2>2, SlotsMovedOnly
<1>6. ASSUME NEW c \in Clients, BeginClose(c) PROVE LeavesRoom
  BY <1>0, <1>6 DEF LeavesRoom, TypeOK, BeginClose, Goto
<1>7. ASSUME NEW c \in Clients, Dispose(c) PROVE LeavesRoom
  BY <1>0, <1>7 DEF LeavesRoom, TypeOK, Dispose, pool
<1>8. ASSUME NEW c \in Clients, Cleared(c) PROVE SlotInv'
  BY <1>8, SlotsUsed
<1>9. ASSUME NEW c \in Clients, Disposed(c) PROVE LeavesRoom
  BY <1>0, <1>9 DEF LeavesRoom, TypeOK, Disposed, Goto, Return, pool
<1>10. ASSUME NEW c \in Clients, NEW n \in Sizes, Publish(c, n) PROVE SlotInv'
  BY <1>10, SlotsPublished
<1>11. ASSUME NEW c \in Clients, NEW n \in Sizes, Reject(c, n) PROVE LeavesRoom
  BY <1>0, <1>11 DEF LeavesRoom, TypeOK, Reject, Goto, pool
<1>12. ASSUME NEW c \in Clients, Discard(c) PROVE LeavesRoom
  BY <1>0, <1>12 DEF LeavesRoom, TypeOK, Discard, Goto, pool
<1>13. ASSUME NEW c \in Clients, Unregister(c) PROVE LeavesRoom
  BY <1>0, <1>13 DEF LeavesRoom, TypeOK, Unregister, Goto
<1>14. ASSUME NEW c \in Clients, Resolve(c) PROVE LeavesRoom
  BY <1>0, <1>14 DEF LeavesRoom, TypeOK, Resolve, Joined, Waiting, pool
<1>15. ASSUME NEW c \in Clients, Raise(c) PROVE LeavesRoom
  BY <1>0, <1>15 DEF LeavesRoom, TypeOK, Raise, Joined, Waiting, pool
<1>16. ASSUME NEW c \in Clients, Resume(c) PROVE LeavesRoom
  BY <1>0, <1>16 DEF LeavesRoom, TypeOK, Resume, Goto, Return
<1>17. ASSUME NEW c \in Clients, Release(c) PROVE LeavesRoom
  BY <1>0, <1>17 DEF LeavesRoom, TypeOK, Release, Goto, Return
<1>18. ASSUME NEW c \in Clients, Drained(c) PROVE SlotInv'
  <2>1. Retire(c, {key[c]} \cap Resident)
    BY <1>18 DEF Drained
  <2>2. pc[c] = "drain" /\ pc' = [pc EXCEPT ![c] = pc'[c]] /\ pc'[c] = "unload"
    BY <1>18 DEF Drained, Goto, TypeOK
  <2>. QED
    BY <2>1, <2>2, SlotsMovedOnly
<1>19. ASSUME NEW c \in Clients, EndUnload(c) PROVE LeavesRoom
  BY <1>0, <1>19 DEF LeavesRoom, TypeOK, EndUnload, Goto, UnloadReturns
<1>20. ASSUME NEW c \in Clients, EndClose(c) PROVE LeavesRoom
  BY <1>0, <1>20 DEF LeavesRoom, TypeOK, EndClose, Goto, Return, pool
<1>21. ASSUME NEW c \in Clients, NEW k \in Keys, CloseSkips(c, k) PROVE LeavesRoom
  BY <1>0, <1>21 DEF LeavesRoom, TypeOK, CloseSkips, pool
<1>22. ASSUME NEW c \in Clients, NEW k \in Keys, BeginUnload(c, k) PROVE LeavesRoom
  BY <1>0, <1>22 DEF LeavesRoom, TypeOK, BeginUnload, Goto
<1>23. ASSUME NEW c \in Clients, LoadFails(c) PROVE LeavesRoom
  BY <1>0, <1>23 DEF LeavesRoom, TypeOK, LoadFails, Goto, pool
<1>24. ASSUME NEW c \in Clients, DrainTimesOut(c) PROVE LeavesRoom
  BY <1>0, <1>24 DEF LeavesRoom, TypeOK, DrainTimesOut, Goto, UnloadReturns
<1>25. ASSUME UNCHANGED vars PROVE LeavesRoom
  BY <1>25 DEF LeavesRoom, vars, pool, local
<1>26. QED
  BY <1>1, <1>2, <1>3, <1>4, <1>5, <1>6, <1>7, <1>8, <1>9, <1>10, <1>11, <1>12, <1>13, <1>14, <1>15, <1>16, <1>17, <1>18, <1>19, <1>20, <1>21, <1>22, <1>23, <1>24, <1>25, SlotsLeft DEF Next, Call, Work

\* The invariant holds in every reachable state.
THEOREM SlotsReservedAhead == Spec => []SlotInv
<1>1. Init => SlotInv
  <2>. SUFFICES ASSUME Init PROVE SlotInv
    OBVIOUS
  <2>1. /\ \A c \in Clients : removed[c] = {}
        /\ Resident = {} /\ Busy = {} /\ Clearing = {}
    BY DEF Init, Resident, Busy, Clearing
  <2>2. \A S : Owed(S) = {}
    BY <2>1 DEF Owed
  <2>3. \A S \in SUBSET Clearing : Fit(S)
    BY <2>1, <2>2, FS_EmptySet, ModelPoolAssumption DEF Fit
  <2>. QED
    BY <2>1, <2>3, FS_EmptySet DEF SlotInv
<1>. QED
  BY <1>1, SlotStep, Invariance, PTL DEF Spec

\* Models in memory never exceed max_models, however loads, evictions, unloads and
\* failing disposals interleave (_remove_idle and its count of _retiring).
THEOREM SlotsAreBounded == Spec => []SlotBudget
<1>1. SlotInv => SlotBudget
  <2>. SUFFICES ASSUME SlotInv PROVE SlotBudget
    OBVIOUS
  <2>1. Fit({})
    BY DEF SlotInv
  <2>2. Owed({}) = Retiring
    BY DEF Owed, Retiring
  <2>3. Cardinality(Owed({})) \in Nat
    BY Finite
  <2>. QED
    BY <2>1, <2>2, <2>3, Finite, FS_EmptySet DEF Fit, SlotBudget, Busy
<1>. QED
  BY <1>1, SlotsReservedAhead, PTL

-----------------------------------------------------------------------------
(* Sums over finite sets.                                                  *)

\* One element for every byte that f counts for the members of S.
Units(f, S) == UNION {{x} \X (1 .. f[x]) : x \in S}

LEMMA UnitsOfOne ==
  ASSUME NEW n \in Nat, NEW x
  PROVE  IsFiniteSet({x} \X (1 .. n)) /\ Cardinality({x} \X (1 .. n)) = n
<1>1. IsFiniteSet({x}) /\ Cardinality({x}) = 1
  BY FS_Singleton
<1>2. IsFiniteSet(1 .. n) /\ Cardinality(1 .. n) = n
  BY FS_Interval
<1>3. /\ IsFiniteSet({x} \X (1 .. n))
      /\ Cardinality({x} \X (1 .. n)) = Cardinality({x}) * Cardinality(1 .. n)
  BY <1>1, <1>2, FS_Product
<1>. QED
  BY <1>1, <1>2, <1>3

LEMMA UnitsFinite ==
  ASSUME NEW S, IsFiniteSet(S), NEW f, \A x \in S : f[x] \in Nat
  PROVE  IsFiniteSet(Units(f, S))
<1>. DEFINE U(x) == {x} \X (1 .. f[x])
            I == {U(x) : x \in S}
            u == [x \in S |-> U(x)]
<1>1. u \in Surjection(S, I)
  BY DEF Surjection
<1>2. IsFiniteSet(I)
  BY <1>1, FS_Surjection
<1>3. \A T \in I : IsFiniteSet(T)
  BY UnitsOfOne
<1>. QED
  BY <1>2, <1>3, FS_UNION DEF Units

LEMMA UnitsAdd ==
  ASSUME NEW S, IsFiniteSet(S), NEW f, \A x \in S : f[x] \in Nat, NEW x \in S
  PROVE  Cardinality(Units(f, S)) = f[x] + Cardinality(Units(f, S \ {x}))
<1>. DEFINE A == {x} \X (1 .. f[x])
            B == Units(f, S \ {x})
<1>1. Units(f, S) = A \cup B /\ A \cap B = {}
  BY DEF Units
<1>2. IsFiniteSet(A) /\ Cardinality(A) = f[x]
  BY UnitsOfOne
<1>3. IsFiniteSet(B) /\ Cardinality(B) \in Nat
  BY FS_Difference, UnitsFinite, FS_CardinalityType
<1>4. Cardinality(A \cup B) = Cardinality(A) + Cardinality(B) - Cardinality(A \cap B)
  BY <1>2, <1>3, FS_Union
<1>5. Cardinality(A \cap B) = 0
  BY <1>1, FS_EmptySet
<1>. HIDE DEF A, B
<1>6. Cardinality(A \cup B) = f[x] + Cardinality(B)
  BY <1>2, <1>3, <1>4, <1>5
<1>. QED
  BY <1>1, <1>6 DEF B

\* A sum is the number of units.  The fold is a recursive function on the subsets
\* of S; the smallest subset on which it differed from the count would not be empty,
\* and without one member they would agree.
LEMMA TotalIs ==
  ASSUME NEW S, IsFiniteSet(S), NEW f, \A x \in S : f[x] \in Nat
  PROVE  Total(f, S) = Cardinality(Units(f, S))
<1>. DEFINE Pick(s) == CHOOSE x \in s : TRUE
            Sum(g) == [s \in SUBSET S |-> IF s = {} THEN 0 ELSE f[Pick(s)] + g[s \ {Pick(s)}]]
            h == [s \in SUBSET S |-> Cardinality(Units(f, s))]
            iter == CHOOSE g : g = Sum(g)
<1>1. Total(f, S) = iter[S]
  BY DEF Total, MapThenSumSet, MapThenFoldSet
<1>2. \A s \in SUBSET S : s # {} => Pick(s) \in s /\ s \ {Pick(s)} \in SUBSET S
  OBVIOUS
<1>. HIDE DEF Pick
<1>3. \A s \in SUBSET S : h[s] = IF s = {} THEN 0 ELSE f[Pick(s)] + h[s \ {Pick(s)}]
  <2>. SUFFICES ASSUME NEW s \in SUBSET S
                PROVE  h[s] = IF s = {} THEN 0 ELSE f[Pick(s)] + h[s \ {Pick(s)}]
    OBVIOUS
  <2>1. CASE s = {}
    <3>1. Units(f, s) = {}
      BY <2>1 DEF Units
    <3>. QED
      BY <2>1, <3>1, FS_EmptySet
  <2>2. CASE s # {}
    <3>1. IsFiniteSet(s) /\ \A x \in s : f[x] \in Nat
      BY FS_Subset
    <3>2. Cardinality(Units(f, s)) = f[Pick(s)] + Cardinality(Units(f, s \ {Pick(s)}))
      BY <1>2, <2>2, <3>1, UnitsAdd
    <3>. QED
      BY <1>2, <2>2, <3>2
  <2>. QED
    BY <2>1, <2>2
<1>4. h = Sum(h)
  BY <1>3
<1>5. iter = Sum(iter)
  BY <1>4
<1>. HIDE DEF iter, h
<1>6. \A s \in SUBSET S : iter[s] = IF s = {} THEN 0 ELSE f[Pick(s)] + iter[s \ {Pick(s)}]
  BY <1>5
<1>. HIDE DEF Sum
<1>7. \A s \in SUBSET S : iter[s] = h[s]
  <2>. DEFINE Bad == {s \in SUBSET S : iter[s] # h[s]}
  <2>. SUFFICES ASSUME Bad # {} PROVE FALSE
    OBVIOUS
  <2>1. Bad \subseteq FiniteSubsetsOf(S)
    BY FS_Subset DEF FiniteSubsetsOf
  <2>2. PICK s \in Bad : \A t \in Bad : ~(<<t, s>> \in StrictSubsetOrdering(S))
    BY <2>1, FS_StrictSubsetOrderingWellFounded, WFMin
  <2>3. s # {}
    BY <1>3, <1>6
  <2>4. <<s \ {Pick(s)}, s>> \in StrictSubsetOrdering(S)
    BY <1>2, <2>3 DEF StrictSubsetOrdering
  <2>5. iter[s \ {Pick(s)}] = h[s \ {Pick(s)}]
    BY <1>2, <2>2, <2>3, <2>4
  <2>. QED
    BY <1>3, <1>6, <2>3, <2>5
<1>8. S \in SUBSET S
  OBVIOUS
<1>. QED
  BY <1>1, <1>7, <1>8 DEF h

\* f counts something for every member of S.
Counts(f, S) == IsFiniteSet(S) /\ \A x \in S : f[x] \in Nat

LEMMA TotalSubset ==
  ASSUME NEW f, NEW S, Counts(f, S), NEW V, V \subseteq S
  PROVE  /\ Total(f, S) \in Nat /\ Total(f, V) \in Nat /\ Total(f, S \ V) \in Nat
         /\ Total(f, S) = Total(f, S \ V) + Total(f, V)
<1>0. IsFiniteSet(S) /\ \A x \in S : f[x] \in Nat
  BY DEF Counts
<1>1. IsFiniteSet(V) /\ IsFiniteSet(S \ V)
  BY <1>0, FS_Subset, FS_Difference
<1>. DEFINE A == Units(f, S \ V)
            B == Units(f, V)
<1>2. /\ Total(f, S) = Cardinality(Units(f, S)) /\ Total(f, S \ V) = Cardinality(A)
      /\ Total(f, V) = Cardinality(B)
  BY <1>0, <1>1, TotalIs
<1>3. IsFiniteSet(Units(f, S)) /\ IsFiniteSet(A) /\ IsFiniteSet(B)
  BY <1>0, <1>1, UnitsFinite
<1>4. Units(f, S) = A \cup B /\ A \cap B = {}
  BY DEF Units
<1>5. Cardinality(A \cup B) = Cardinality(A) + Cardinality(B) - Cardinality(A \cap B)
  BY <1>3, FS_Union
<1>6. Cardinality(A \cap B) = 0
  BY <1>4, FS_EmptySet
<1>7. Cardinality(Units(f, S)) \in Nat /\ Cardinality(A) \in Nat /\ Cardinality(B) \in Nat
  BY <1>3, FS_CardinalityType
<1>. HIDE DEF A, B
<1>. QED
  BY <1>2, <1>4, <1>5, <1>6, <1>7

LEMMA TotalUnion ==
  ASSUME NEW S, IsFiniteSet(S), NEW T, IsFiniteSet(T), NEW f, \A x \in S \cup T : f[x] \in Nat
  PROVE  Total(f, S \cup T) <= Total(f, S) + Total(f, T)
<1>1. Counts(f, S \cup T) /\ Counts(f, S)
  BY FS_Union DEF Counts
<1>2. /\ Total(f, T) \in Nat
      /\ Total(f, S \cup T) = Total(f, (S \cup T) \ T) + Total(f, T)
  BY <1>1, TotalSubset
<1>. DEFINE V == (S \cup T) \ T
<1>3. V \subseteq S
  OBVIOUS
<1>. HIDE DEF V
<1>4. /\ Total(f, S) \in Nat /\ Total(f, V) \in Nat /\ Total(f, S \ V) \in Nat
      /\ Total(f, S) = Total(f, S \ V) + Total(f, V)
  BY <1>1, <1>3, TotalSubset
<1>5. Total(f, S \cup T) = Total(f, V) + Total(f, T)
  BY <1>2 DEF V
<1>. QED
  BY <1>2, <1>4, <1>5

\* Only the values at the members of S count.
LEMMA TotalSame ==
  ASSUME NEW S, IsFiniteSet(S), NEW f, NEW g, \A x \in S : f[x] \in Nat /\ g[x] = f[x]
  PROVE  Total(g, S) = Total(f, S)
<1>1. Units(g, S) = Units(f, S)
  BY DEF Units
<1>. QED
  BY <1>1, TotalIs

LEMMA TotalOne ==
  ASSUME NEW f, NEW x, f[x] \in Nat
  PROVE  Total(f, {x}) = f[x]
<1>1. Units(f, {x}) = {x} \X (1 .. f[x]) /\ IsFiniteSet({x})
  BY FS_Singleton DEF Units
<1>2. Total(f, {x}) = Cardinality(Units(f, {x}))
  BY <1>1, TotalIs
<1>3. Cardinality({x} \X (1 .. f[x])) = f[x]
  BY UnitsOfOne
<1>. QED
  BY <1>1, <1>2, <1>3

-----------------------------------------------------------------------------
(* The three sums of the pool.                                             *)

LEMMA Sized ==
  ASSUME TypeOK
  PROVE  /\ \A k \in Keys : bytes[k] \in Nat
         /\ \A k \in Loading : loading[k] \in Clients /\ est[loading[k]] \in Nat
         /\ \A r \in Records : r.bytes \in Nat
<1>1. \A n \in Sizes \cup {0} : n \in Nat
  BY ModelPoolAssumption
<1>2. \A k \in Keys : bytes[k] \in Sizes \cup {0}
  BY DEF TypeOK
<1>3. \A k \in Loading : loading[k] \in Clients /\ est[loading[k]] \in Sizes \cup {0}
  BY DEF TypeOK, Loading
<1>4. \A r \in Records : r.bytes \in Sizes \cup {0}
  BY DEF Records
<1>. QED
  BY <1>1, <1>2, <1>3, <1>4

LEMMA BytesAre ==
  ASSUME TypeOK, NEW S \in SUBSET Keys, NEW V \in SUBSET S
  PROVE  /\ BytesOf(S) \in Nat /\ BytesOf(V) \in Nat /\ BytesOf(S \ V) \in Nat
         /\ BytesOf(S) = BytesOf(S \ V) + BytesOf(V)
<1>. DEFINE f == bytes
<1>1. IsFiniteSet(S)
  BY ModelPoolAssumption, FS_Subset
<1>2. Counts(f, S)
  BY <1>1, Sized DEF Counts
<1>. HIDE DEF f
<1>3. /\ Total(f, S) \in Nat /\ Total(f, V) \in Nat /\ Total(f, S \ V) \in Nat
      /\ Total(f, S) = Total(f, S \ V) + Total(f, V)
  BY <1>2, TotalSubset
<1>. QED
  BY <1>3 DEF BytesOf, f

LEMMA ReservedAre ==
  ASSUME TypeOK, NEW S \in SUBSET Loading, NEW V \in SUBSET S
  PROVE  /\ ReservedBytes(S) \in Nat /\ ReservedBytes(V) \in Nat /\ ReservedBytes(S \ V) \in Nat
         /\ ReservedBytes(S) = ReservedBytes(S \ V) + ReservedBytes(V)
<1>. DEFINE f == [k \in S |-> est[loading[k]]]
            g(T) == [k \in T |-> est[loading[k]]]
<1>1. IsFiniteSet(S) /\ IsFiniteSet(V) /\ IsFiniteSet(S \ V)
  BY ModelPoolAssumption, FS_Subset DEF Loading
<1>2. \A k \in S : est[loading[k]] \in Nat
  BY Sized
<1>3. \A k \in S : f[k] \in Nat
  BY <1>2
<1>0. Counts(f, S)
  BY <1>1, <1>3 DEF Counts
<1>4. \A k \in V : f[k] \in Nat /\ g(V)[k] = f[k]
  BY <1>3
<1>5. \A k \in S \ V : f[k] \in Nat /\ g(S \ V)[k] = f[k]
  BY <1>3
<1>. HIDE DEF f, g
<1>6. Total(g(V), V) = Total(f, V)
  BY <1>1, <1>4, TotalSame
<1>7. Total(g(S \ V), S \ V) = Total(f, S \ V)
  BY <1>1, <1>5, TotalSame
<1>8. /\ Total(f, S) \in Nat /\ Total(f, V) \in Nat /\ Total(f, S \ V) \in Nat
      /\ Total(f, S) = Total(f, S \ V) + Total(f, V)
  BY <1>0, TotalSubset
<1>9. ReservedBytes(S) = Total(f, S) /\ ReservedBytes(V) = Total(f, V)
      /\ ReservedBytes(S \ V) = Total(f, S \ V)
  BY <1>6, <1>7 DEF ReservedBytes, f, g
<1>. QED
  BY <1>8, <1>9

\* Loads that stay as they are reserve what they did.
LEMMA ReservedSame ==
  ASSUME TypeOK, NEW S \in SUBSET Loading,
         \A k \in S : est'[loading'[k]] = est[loading[k]]
  PROVE  ReservedBytes(S)' = ReservedBytes(S)
<1>. QED
  BY DEF ReservedBytes

LEMMA EntriesAre ==
  ASSUME NEW S \in SUBSET Records, IsFiniteSet(S), NEW V \in SUBSET S
  PROVE  /\ EntryBytes(S) \in Nat /\ EntryBytes(V) \in Nat
         /\ EntryBytes(V) <= EntryBytes(S)
<1>. DEFINE f == [r \in S |-> r.bytes]
            g == [r \in V |-> r.bytes]
<1>1. \A r \in S : f[r] \in Nat
  BY ModelPoolAssumption DEF Records
<1>0. Counts(f, S)
  BY <1>1 DEF Counts
<1>2. \A r \in V : f[r] \in Nat /\ g[r] = f[r]
  BY <1>1
<1>3. IsFiniteSet(V)
  BY FS_Subset
<1>. HIDE DEF f, g
<1>4. Total(g, V) = Total(f, V)
  BY <1>2, <1>3, TotalSame
<1>5. /\ Total(f, S) \in Nat /\ Total(f, V) \in Nat /\ Total(f, S \ V) \in Nat
      /\ Total(f, S) = Total(f, S \ V) + Total(f, V)
  BY <1>0, TotalSubset
<1>6. EntryBytes(S) = Total(f, S) /\ EntryBytes(V) = Total(g, V)
  BY DEF EntryBytes, f, g
<1>. QED
  BY <1>4, <1>5, <1>6

LEMMA EntriesUnion ==
  ASSUME NEW S \in SUBSET Records, IsFiniteSet(S), NEW T \in SUBSET Records, IsFiniteSet(T)
  PROVE  EntryBytes(S \cup T) <= EntryBytes(S) + EntryBytes(T)
<1>. DEFINE h == [r \in S \cup T |-> r.bytes]
            f == [r \in S |-> r.bytes]
            g == [r \in T |-> r.bytes]
<1>1. \A r \in S \cup T : h[r] \in Nat
  BY ModelPoolAssumption DEF Records
<1>2. (\A r \in S : h[r] \in Nat /\ f[r] = h[r]) /\ (\A r \in T : h[r] \in Nat /\ g[r] = h[r])
  BY <1>1
<1>. HIDE DEF f, g, h
<1>3. Total(f, S) = Total(h, S) /\ Total(g, T) = Total(h, T)
  BY <1>2, TotalSame
<1>4. Total(h, S \cup T) <= Total(h, S) + Total(h, T)
  BY <1>1, TotalUnion
<1>5. EntryBytes(S \cup T) = Total(h, S \cup T) /\ EntryBytes(S) = Total(f, S)
      /\ EntryBytes(T) = Total(g, T)
  BY DEF EntryBytes, f, g, h
<1>. QED
  BY <1>3, <1>4, <1>5

\* The entries of V count the bytes that V counted in the table.
LEMMA EntriesTaken ==
  ASSUME TypeOK, NEW V \in SUBSET Keys
  PROVE  LET E == {Entry(k) : k \in V} IN
         /\ E \in SUBSET Records /\ IsFiniteSet(E)
         /\ EntryBytes(E) \in Nat /\ EntryBytes(E) = BytesOf(V)
<1>. DEFINE E == {Entry(k) : k \in V}
            f == [r \in E |-> r.bytes]
            A == Units(f, E)
            B == Units(bytes, V)
            m == [p \in A |-> <<p[1].key, p[2]>>]
<1>1. E \in SUBSET Records
  BY DEF Entry, Records, TypeOK
<1>2. IsFiniteSet(E) /\ IsFiniteSet(V)
  BY EntriesCount, ModelPoolAssumption, FS_Subset
<1>3. (\A r \in E : f[r] \in Nat) /\ (\A k \in V : bytes[k] \in Nat)
  BY <1>1, Sized
<1>4. EntryBytes(E) = Cardinality(A) /\ BytesOf(V) = Cardinality(B)
  BY <1>2, <1>3, TotalIs DEF EntryBytes, BytesOf
<1>5. IsFiniteSet(A) /\ IsFiniteSet(B)
  BY <1>2, <1>3, UnitsFinite
<1>6. \A p \in A : \E k \in V : p[1] = Entry(k) /\ p[2] \in 1 .. bytes[k] /\ p = <<Entry(k), p[2]>>
  <2>. SUFFICES ASSUME NEW p \in A
                PROVE  \E k \in V : p[1] = Entry(k) /\ p[2] \in 1 .. bytes[k] /\ p = <<Entry(k), p[2]>>
    OBVIOUS
  <2>1. PICK r \in E : p \in {r} \X (1 .. f[r])
    BY DEF Units
  <2>2. PICK k \in V : r = Entry(k)
    OBVIOUS
  <2>3. f[r] = bytes[k]
    BY <2>2 DEF Entry
  <2>. QED
    BY <2>1, <2>2, <2>3
<1>7. \A k \in V : \A i \in 1 .. bytes[k] : <<Entry(k), i>> \in A
  <2>. SUFFICES ASSUME NEW k \in V, NEW i \in 1 .. bytes[k] PROVE <<Entry(k), i>> \in A
    OBVIOUS
  <2>1. Entry(k) \in E /\ f[Entry(k)] = bytes[k]
    BY DEF Entry
  <2>. QED
    BY <2>1 DEF Units
<1>8. m \in [A -> B]
  <2>. SUFFICES ASSUME NEW p \in A PROVE <<p[1].key, p[2]>> \in B
    OBVIOUS
  <2>1. PICK k \in V : p[1] = Entry(k) /\ p[2] \in 1 .. bytes[k]
    BY <1>6
  <2>2. p[1].key = k
    BY <2>1 DEF Entry
  <2>. QED
    BY <2>1, <2>2 DEF Units
<1>9. \A p, q \in A : m[p] = m[q] => p = q
  <2>. SUFFICES ASSUME NEW p \in A, NEW q \in A, m[p] = m[q] PROVE p = q
    OBVIOUS
  <2>1. PICK k \in V : p = <<Entry(k), p[2]>>
    BY <1>6
  <2>2. PICK l \in V : q = <<Entry(l), q[2]>>
    BY <1>6
  <2>3. p[1].key = q[1].key /\ p[2] = q[2]
    OBVIOUS
  <2>4. k = l
    BY <2>1, <2>2, <2>3 DEF Entry
  <2>. QED
    BY <2>1, <2>2, <2>3, <2>4
<1>10. \A b \in B : \E p \in A : m[p] = b
  <2>. SUFFICES ASSUME NEW b \in B PROVE \E p \in A : m[p] = b
    OBVIOUS
  <2>1. PICK k \in V : b[2] \in 1 .. bytes[k] /\ b = <<k, b[2]>>
    BY DEF Units
  <2>2. <<Entry(k), b[2]>> \in A
    BY <1>7, <2>1
  <2>3. m[<<Entry(k), b[2]>>] = b
    BY <2>1, <2>2 DEF Entry
  <2>. QED
    BY <2>2, <2>3
<1>. HIDE DEF A, B, m
<1>11. m \in Surjection(A, B) /\ m \in Injection(A, B)
  BY <1>8, <1>9, <1>10 DEF Surjection, Injection, IsInjective
<1>12. Cardinality(A) = Cardinality(B)
  BY <1>5, <1>11, FS_Surjection
<1>. QED
  BY <1>1, <1>2, <1>4, <1>5, <1>12, FS_CardinalityType

-----------------------------------------------------------------------------
(* How a step changes the sums.                                            *)

\* What is owed by clients other than those with a load that has yet to dispose
\* its victims.
Settled == UNION {removed[c] : c \in {d \in Clients : pc[d] # "clear"}}

LEMMA OwedAre ==
  ASSUME TypeOK, SlotInv
  PROVE  /\ Retiring \in SUBSET Records /\ IsFiniteSet(Retiring) /\ EntryBytes(Retiring) \in Nat
         /\ Settled \in SUBSET Retiring /\ Settled \in SUBSET Records /\ IsFiniteSet(Settled)
         /\ EntryBytes(Settled) \in Nat
<1>1. Retiring = Owed({}) /\ {} \in SUBSET Clients
  BY DEF Retiring, Owed
<1>2. Retiring \in SUBSET Records
  BY DEF Retiring, TypeOK
<1>3. IsFiniteSet(Retiring)
  BY <1>1, Finite
<1>4. Settled \in SUBSET Retiring
  BY DEF Settled, Retiring
<1>. QED
  BY <1>2, <1>3, <1>4, EntriesAre, FS_Subset

\* Loads that stay reserve what they did.
LEMMA ReservedKept ==
  ASSUME TypeOK, Loading' \subseteq Loading,
         \A k \in Loading' : est'[loading'[k]] = est[loading[k]]
  PROVE  /\ ReservedBytes(Loading)' = ReservedBytes(Loading')
         /\ ReservedBytes(Loading)' \in Nat /\ ReservedBytes(Loading)' <= ReservedBytes(Loading)
<1>. DEFINE L == Loading'
            f == [k \in L |-> est[loading[k]]]
            g == [k \in L |-> est'[loading'[k]]]
<1>1. f = g
  OBVIOUS
<1>2. ReservedBytes(Loading)' = Total(g, L) /\ ReservedBytes(L) = Total(f, L)
  BY DEF ReservedBytes
<1>3. L \in SUBSET Loading
  OBVIOUS
<1>. HIDE DEF L, f, g
<1>4. /\ ReservedBytes(L) \in Nat /\ ReservedBytes(Loading) \in Nat
      /\ ReservedBytes(Loading \ L) \in Nat
      /\ ReservedBytes(Loading) = ReservedBytes(Loading \ L) + ReservedBytes(L)
  BY <1>3, ReservedAre
<1>. QED
  BY <1>1, <1>2, <1>4 DEF L

\* A load that is registered reserves its estimate.
LEMMA ReservedMore ==
  ASSUME TypeOK, NEW k, k \notin Loading, Loading' = Loading \cup {k},
         \A j \in Loading : est'[loading'[j]] = est[loading[j]],
         est'[loading'[k]] \in Nat
  PROVE  ReservedBytes(Loading)' = ReservedBytes(Loading) + est'[loading'[k]]
<1>. DEFINE f == [j \in Loading |-> est[loading[j]]]
            g == [j \in Loading \cup {k} |-> est'[loading'[j]]]
<1>1. IsFiniteSet(Loading) /\ IsFiniteSet(Loading \cup {k})
  BY ModelPoolAssumption, FS_Subset, FS_AddElement DEF Loading
<1>2. \A j \in Loading : f[j] \in Nat /\ g[j] = f[j]
  BY Sized
<1>3. \A j \in Loading \cup {k} : g[j] \in Nat
  BY <1>2
<1>4. ReservedBytes(Loading)' = Total(g, Loading \cup {k}) /\ ReservedBytes(Loading) = Total(f, Loading)
  BY DEF ReservedBytes
<1>5. (Loading \cup {k}) \ {k} = Loading /\ {k} \subseteq Loading \cup {k} /\ g[k] = est'[loading'[k]]
  OBVIOUS
<1>. HIDE DEF f, g
<1>9. Counts(g, Loading \cup {k})
  BY <1>1, <1>3 DEF Counts
<1>6. Total(g, Loading \cup {k}) = Total(g, (Loading \cup {k}) \ {k}) + Total(g, {k})
  BY <1>5, <1>9, TotalSubset
<1>7. Total(g, Loading) = Total(f, Loading)
  BY <1>1, <1>2, TotalSame
<1>8. Total(g, {k}) = g[k]
  BY <1>3, TotalOne
<1>. QED
  BY <1>4, <1>5, <1>6, <1>7, <1>8

LEMMA ResidentFinite == IsFiniteSet(Resident) /\ Resident \in SUBSET Keys
<1>. QED
  BY ModelPoolAssumption, FS_Subset DEF Resident

\* Client c takes V out: the bytes move from the table to what is owed.
LEMMA BytesMoved ==
  ASSUME TypeOK, SlotInv, NEW c \in Clients, NEW V \in SUBSET Resident, Retire(c, V),
         removed[c] = {}, \A d \in Clients \ {c} : pc'[d] = pc[d]
  PROVE  /\ BytesOf(Resident)' = BytesOf(Resident \ V)
         /\ BytesOf(Resident \ V) \in Nat /\ BytesOf(Resident) = BytesOf(Resident \ V) + BytesOf(V)
         /\ BytesOf(V) \in Nat
         /\ RetiringBytes' \in Nat /\ RetiringBytes' <= RetiringBytes + BytesOf(V)
         /\ EntryBytes(Settled') \in Nat /\ EntryBytes(Settled') <= EntryBytes(Settled) + BytesOf(V)
         /\ pc'[c] = "clear" => EntryBytes(Settled') <= RetiringBytes
<1>. DEFINE E == {Entry(k) : k \in V}
<1>1. V \in SUBSET Keys /\ Resident \in SUBSET Keys
  BY DEF Resident
<1>2. Resident' = Resident \ V /\ \A k \in Resident \ V : bytes'[k] = bytes[k]
  BY <1>1 DEF Retire, Resident, TypeOK
<1>3. /\ BytesOf(Resident) \in Nat /\ BytesOf(V) \in Nat /\ BytesOf(Resident \ V) \in Nat
      /\ BytesOf(Resident) = BytesOf(Resident \ V) + BytesOf(V)
  BY <1>1, BytesAre
<1>4. BytesOf(Resident)' = BytesOf(Resident \ V)
  <2>1. IsFiniteSet(Resident \ V) /\ \A k \in Resident \ V : bytes[k] \in Nat
    BY <1>1, ResidentFinite, FS_Difference, Sized
  <2>2. Total(bytes', Resident \ V) = Total(bytes, Resident \ V)
    BY <1>2, <2>1, TotalSame
  <2>. QED
    BY <1>2, <2>2 DEF BytesOf
<1>5. E \in SUBSET Records /\ IsFiniteSet(E) /\ EntryBytes(E) \in Nat /\ EntryBytes(E) = BytesOf(V)
  BY <1>1, EntriesTaken
<1>. HIDE DEF E
<1>6. removed' = [removed EXCEPT ![c] = E]
  BY DEF Retire, E
<1>7. Retiring' \in SUBSET (Retiring \cup E)
  BY <1>6 DEF Retiring, TypeOK
<1>8. Settled' \in SUBSET (Settled \cup E) /\ (pc'[c] = "clear" => Settled' \in SUBSET Retiring)
  BY <1>6 DEF Settled, Retiring, TypeOK
<1>9. /\ IsFiniteSet(Retiring \cup E) /\ Retiring \cup E \in SUBSET Records
      /\ IsFiniteSet(Settled \cup E) /\ Settled \cup E \in SUBSET Records
  BY <1>5, OwedAre, FS_Union
<1>10. /\ EntryBytes(Retiring \cup E) \in Nat /\ EntryBytes(Settled \cup E) \in Nat
       /\ EntryBytes(Retiring') \in Nat /\ EntryBytes(Retiring') <= EntryBytes(Retiring \cup E)
       /\ EntryBytes(Settled') \in Nat /\ EntryBytes(Settled') <= EntryBytes(Settled \cup E)
  BY <1>7, <1>8, <1>9, EntriesAre
<1>11. /\ EntryBytes(Retiring \cup E) <= EntryBytes(Retiring) + EntryBytes(E)
       /\ EntryBytes(Settled \cup E) <= EntryBytes(Settled) + EntryBytes(E)
  BY <1>5, OwedAre, EntriesUnion
<1>12. pc'[c] = "clear" => EntryBytes(Settled') <= EntryBytes(Retiring)
  BY <1>8, OwedAre, EntriesAre
<1>13. RetiringBytes' = EntryBytes(Retiring') /\ RetiringBytes = EntryBytes(Retiring)
  BY DEF RetiringBytes, EntryBytes
<1>. QED
  BY <1>3, <1>4, <1>5, <1>10, <1>11, <1>12, <1>13, OwedAre

-----------------------------------------------------------------------------
(* Every step.                                                             *)

\* The steps that take nothing out of the table and bring nothing in.
LeavesBytes ==
    /\ live' = live /\ bytes' = bytes
    /\ \A c \in Clients : removed'[c] \subseteq removed[c]
    /\ \A c \in Clients : pc[c] # "clear" \/ pc'[c] = "clear" \/ removed[c] = {}
    /\ \A k \in Keys : loading'[k] # None =>
        loading'[k] = loading[k] /\ est'[loading[k]] = est[loading[k]]

LEMMA BytesLeft ==
  ASSUME TypeOK, SlotInv, ByteBudget, LeavesBytes
  PROVE  ByteBudget'
<1>1. BytesOf(Resident)' = BytesOf(Resident) /\ BytesOf(Resident) \in Nat
  <2>1. Resident' = Resident /\ Resident \in SUBSET Keys
    BY DEF LeavesBytes, Resident
  <2>. QED
    BY <2>1, BytesAre DEF LeavesBytes, BytesOf
<1>2. /\ ReservedBytes(Loading)' \in Nat /\ ReservedBytes(Loading)' <= ReservedBytes(Loading)
      /\ ReservedBytes(Loading) \in Nat
  <2>1. Loading' \subseteq Loading /\ \A k \in Loading' : est'[loading'[k]] = est[loading[k]]
    BY DEF LeavesBytes, Loading
  <2>. QED
    BY <2>1, ReservedKept, ReservedAre
<1>3. Retiring' \in SUBSET Retiring /\ Settled' \in SUBSET Settled
  BY DEF LeavesBytes, Retiring, Settled
<1>4. /\ EntryBytes(Retiring') \in Nat /\ EntryBytes(Retiring') <= EntryBytes(Retiring)
      /\ EntryBytes(Settled') \in Nat /\ EntryBytes(Settled') <= EntryBytes(Settled)
  BY <1>3, OwedAre, EntriesAre
<1>5. RetiringBytes' = EntryBytes(Retiring') /\ RetiringBytes = EntryBytes(Retiring)
  BY DEF RetiringBytes, EntryBytes
<1>6. ByteBudget' <=> /\ BytesOf(Resident)' + RetiringBytes' <= Budget
                      /\ BytesOf(Resident)' + ReservedBytes(Loading)' + EntryBytes(Settled') <= Budget
  BY DEF ByteBudget, Settled, EntryBytes
<1>. QED
  BY <1>1, <1>2, <1>4, <1>5, <1>6, OwedAre, ModelPoolAssumption DEF ByteBudget, Settled

\* unload, evict_idle and a refused acquire.
LEMMA BytesMovedOnly ==
  ASSUME TypeOK, SlotInv, ByteBudget, NEW c \in Clients, NEW V \in SUBSET Resident, Retire(c, V),
         pc[c] \in {"idle", "drain"}, \A d \in Clients \ {c} : pc'[d] = pc[d],
         loading' = loading, est' = est
  PROVE  ByteBudget'
<1>1. removed[c] = {}
  BY DEF SlotInv
<1>2. /\ BytesOf(Resident)' = BytesOf(Resident \ V)
      /\ BytesOf(Resident \ V) \in Nat /\ BytesOf(Resident) = BytesOf(Resident \ V) + BytesOf(V)
      /\ BytesOf(V) \in Nat
      /\ RetiringBytes' \in Nat /\ RetiringBytes' <= RetiringBytes + BytesOf(V)
      /\ EntryBytes(Settled') \in Nat /\ EntryBytes(Settled') <= EntryBytes(Settled) + BytesOf(V)
  BY <1>1, BytesMoved
<1>3. ReservedBytes(Loading)' = ReservedBytes(Loading) /\ ReservedBytes(Loading) \in Nat
  BY ReservedAre DEF ReservedBytes, Loading
<1>4. ByteBudget' <=> /\ BytesOf(Resident)' + RetiringBytes' <= Budget
                      /\ BytesOf(Resident)' + ReservedBytes(Loading)' + EntryBytes(Settled') <= Budget
  BY DEF ByteBudget, Settled, EntryBytes
<1>5. RetiringBytes \in Nat /\ EntryBytes(Settled) \in Nat
  BY OwedAre DEF RetiringBytes
<1>. QED
  BY <1>2, <1>3, <1>4, <1>5, ModelPoolAssumption DEF ByteBudget, Settled

\* acquire registers a load for which there is room.
LEMMA BytesReserved ==
  ASSUME IInv, SlotInv, ByteBudget, NEW c \in Clients, NEW k \in Keys, NEW n \in Sizes,
         NEW V \in SUBSET Resident, pc[c] = "idle", loading[k] = None, Retire(c, V), HasRoom(V, n),
         loading' = [loading EXCEPT ![k] = c], est' = [est EXCEPT ![c] = n], Goto(c, "clear")
  PROVE  ByteBudget'
<1>. USE DEF IInv
<1>1. removed[c] = {} /\ pc'[c] = "clear" /\ \A d \in Clients \ {c} : pc'[d] = pc[d]
  BY DEF SlotInv, Goto, TypeOK
<1>2. /\ BytesOf(Resident)' = BytesOf(Resident \ V)
      /\ BytesOf(Resident \ V) \in Nat /\ BytesOf(Resident) = BytesOf(Resident \ V) + BytesOf(V)
      /\ BytesOf(V) \in Nat
      /\ RetiringBytes' \in Nat /\ RetiringBytes' <= RetiringBytes + BytesOf(V)
      /\ EntryBytes(Settled') \in Nat /\ EntryBytes(Settled') <= RetiringBytes
  BY <1>1, BytesMoved
<1>3. ReservedBytes(Loading)' = ReservedBytes(Loading) + n /\ ReservedBytes(Loading) \in Nat
  <2>1. k \notin Loading /\ Loading' = Loading \cup {k}
    BY ModelPoolAssumption DEF Loading, TypeOK
  <2>2. \A j \in Loading : loading'[j] = loading[j] /\ loading[j] # c
    BY <2>1 DEF Loading, Owned, LoadSteps, TypeOK
  <2>3. \A j \in Loading : est'[loading'[j]] = est[loading[j]]
    BY <2>2 DEF TypeOK
  <2>4. est'[loading'[k]] = n /\ n \in Nat
    BY ModelPoolAssumption DEF TypeOK
  <2>. QED
    BY <2>1, <2>3, <2>4, ReservedMore, ReservedAre
<1>4. ByteBudget' <=> /\ BytesOf(Resident)' + RetiringBytes' <= Budget
                      /\ BytesOf(Resident)' + ReservedBytes(Loading)' + EntryBytes(Settled') <= Budget
  BY DEF ByteBudget, Settled, EntryBytes
<1>5. RetiringBytes \in Nat
  BY OwedAre DEF RetiringBytes
<1>6. BytesOf(Resident \ V) + ReservedBytes(Loading) + RetiringBytes + n <= Budget
  BY DEF HasRoom
<1>7. BytesOf(Resident) + RetiringBytes <= Budget
  BY DEF ByteBudget
<1>8. n \in Nat /\ Budget \in Nat
  BY ModelPoolAssumption
<1>. HIDE DEF IInv
<1>. QED
  BY <1>2, <1>3, <1>4, <1>5, <1>6, <1>7, <1>8

\* The loaded model is measured, and published only if it fits.
LEMMA BytesPublished ==
  ASSUME IInv, SlotInv, ByteBudget, NEW c \in Clients, NEW n \in Sizes, Publish(c, n)
  PROVE  ByteBudget'
<1>. DEFINE k == key[c]
<1>. USE DEF IInv
<1>1. k \in Keys /\ live[k] = 0 /\ epochs[k] + 1 # 0 /\ loading[k] = c
  BY ModelPoolAssumption DEF Publish, Keyed, Owned, LoadSteps, TypeOK
<1>2. n \in Nat /\ Budget \in Nat
  BY ModelPoolAssumption
<1>3. BytesOf(Resident)' = BytesOf(Resident) + n /\ BytesOf(Resident) \in Nat
  <2>1. /\ Resident' = Resident \cup {k} /\ k \notin Resident
        /\ bytes'[k] = n /\ \A j \in Resident : bytes'[j] = bytes[j]
    BY <1>1 DEF Resident, Publish, TypeOK
  <2>2. IsFiniteSet(Resident) /\ IsFiniteSet(Resident \cup {k}) /\ \A j \in Resident : bytes[j] \in Nat
    BY ResidentFinite, FS_AddElement, Sized
  <2>3. \A j \in Resident \cup {k} : bytes'[j] \in Nat
    BY <1>2, <2>1, <2>2
  <2>4. Total(bytes', Resident) = Total(bytes, Resident)
    BY <2>1, <2>2, TotalSame
  <2>5. Total(bytes', Resident \cup {k}) = Total(bytes', (Resident \cup {k}) \ {k}) + Total(bytes', {k})
    <3>1. Counts(bytes', Resident \cup {k})
      BY <2>2, <2>3 DEF Counts
    <3>. QED
      BY <3>1, TotalSubset
  <2>6. (Resident \cup {k}) \ {k} = Resident
    BY <2>1
  <2>7. Total(bytes', {k}) = n
    BY <1>2, <2>1, TotalOne
  <2>. QED
    BY <2>1, <2>4, <2>5, <2>6, <2>7, BytesAre, ResidentFinite DEF BytesOf
<1>4. ReservedBytes(Loading)' = ReservedBytes(Loading \ {k}) /\ ReservedBytes(Loading)' \in Nat
  <2>1. Loading' = Loading \ {k}
    BY <1>1 DEF Loading, Publish, TypeOK
  <2>2. \A j \in Loading' : loading'[j] = loading[j] /\ loading[j] # c
    BY <1>1, <2>1 DEF Loading, Publish, Owned, TypeOK
  <2>3. \A j \in Loading' : est'[loading'[j]] = est[loading[j]]
    BY <2>2 DEF Publish, TypeOK
  <2>. QED
    BY <2>1, <2>3, ReservedKept
<1>5. Retiring' = Retiring /\ Settled' = Settled
  <2>1. removed' = removed /\ \A d \in Clients : pc[d] = "clear" <=> pc'[d] = "clear"
    BY DEF Publish, Goto, TypeOK
  <2>. QED
    BY <2>1 DEF Retiring, Settled
<1>6. RetiringBytes' = RetiringBytes /\ RetiringBytes = EntryBytes(Retiring)
  BY <1>5 DEF RetiringBytes, EntryBytes
<1>7. EntryBytes(Settled) \in Nat /\ RetiringBytes \in Nat /\ EntryBytes(Settled) <= RetiringBytes
  BY <1>6, OwedAre, EntriesAre
<1>8. BytesOf(Resident) + ReservedBytes(Loading \ {k}) + RetiringBytes + n <= Budget
  BY DEF Publish, Fits
<1>9. ByteBudget' <=> /\ BytesOf(Resident)' + RetiringBytes' <= Budget
                      /\ BytesOf(Resident)' + ReservedBytes(Loading)' + EntryBytes(Settled') <= Budget
  BY DEF ByteBudget, Settled, EntryBytes
<1>. HIDE DEF IInv, k
<1>. QED
  BY <1>2, <1>3, <1>4, <1>5, <1>6, <1>7, <1>8, <1>9

LEMMA ByteStep ==
  ASSUME IInv, SlotInv, ByteBudget, [Next]_vars
  PROVE  ByteBudget'
<1>. USE ModelPoolAssumption DEF IInv
<1>1. ASSUME NEW c \in Clients, NEW k \in Keys, AcquireHit(c, k) PROVE LeavesBytes
  BY <1>1 DEF LeavesBytes, TypeOK, AcquireHit, Goto, MayAcquire
<1>2. ASSUME NEW c \in Clients, NEW k \in Keys, AcquireJoin(c, k) PROVE LeavesBytes
  BY <1>2 DEF LeavesBytes, TypeOK, AcquireJoin, Goto, MayAcquire, pool
<1>3. ASSUME NEW c \in Clients, NEW k \in Keys, NEW n \in Sizes, AcquireMiss(c, k, n) PROVE ByteBudget'
  <2>1. pc[c] = "idle" /\ loading[k] = None
    BY <1>3 DEF AcquireMiss, MayAcquire
  <2>2. PICK V \in SUBSET Evictable :
          /\ Retire(c, V)
          /\ \/ /\ HasRoom(V, n) /\ Goto(c, "clear")
                /\ loading' = [loading EXCEPT ![k] = c] /\ est' = [est EXCEPT ![c] = n]
             \/ Goto(c, "refused") /\ loading' = loading /\ est' = est
    BY <1>3 DEF AcquireMiss
  <2>3. V \in SUBSET Resident
    BY DEF Evictable
  <2>4. CASE HasRoom(V, n) /\ Goto(c, "clear") /\ loading' = [loading EXCEPT ![k] = c]
             /\ est' = [est EXCEPT ![c] = n]
    BY <2>1, <2>2, <2>3, <2>4, BytesReserved
  <2>5. CASE Goto(c, "refused") /\ loading' = loading /\ est' = est
    <3>1. \A d \in Clients \ {c} : pc'[d] = pc[d]
      BY <2>5 DEF Goto, TypeOK
    <3>. QED
      BY <2>1, <2>2, <2>3, <2>5, <3>1, BytesMovedOnly
  <2>. QED
    BY <2>2, <2>4, <2>5
<1>4. ASSUME NEW c \in Clients, NEW k \in Keys, Pin(c, k) PROVE LeavesBytes
  BY <1>4 DEF LeavesBytes, TypeOK, Pin, local
<1>5. ASSUME NEW c \in Clients, EvictIdle(c) PROVE ByteBudget'
  <2>1. PICK V \in SUBSET Resident : Retire(c, V)
    BY <1>5 DEF EvictIdle, Evictable
  <2>2. /\ pc[c] = "idle" /\ loading' = loading /\ est' = est
        /\ \A d \in Clients \ {c} : pc'[d] = pc[d]
    BY <1>5 DEF EvictIdle, Goto, TypeOK
  <2>. QED
    BY <2>1, <2>2, BytesMovedOnly
<1>6. ASSUME NEW c \in Clients, BeginClose(c) PROVE LeavesBytes
  BY <1>6 DEF LeavesBytes, TypeOK, BeginClose, Goto
<1>7. ASSUME NEW c \in Clients, Dispose(c) PROVE LeavesBytes
  BY <1>7 DEF LeavesBytes, TypeOK, Dispose, pool
<1>8. ASSUME NEW c \in Clients, Cleared(c) PROVE LeavesBytes
  BY <1>8 DEF LeavesBytes, TypeOK, Cleared, Goto, pool
<1>9. ASSUME NEW c \in Clients, Disposed(c) PROVE LeavesBytes
  BY <1>9 DEF LeavesBytes, TypeOK, Disposed, Goto, Return, pool
<1>10. ASSUME NEW c \in Clients, NEW n \in Sizes, Publish(c, n) PROVE ByteBudget'
  BY <1>10, BytesPublished
<1>11. ASSUME NEW c \in Clients, NEW n \in Sizes, Reject(c, n) PROVE LeavesBytes
  BY <1>11 DEF LeavesBytes, TypeOK, Reject, Goto, pool
<1>12. ASSUME NEW c \in Clients, Discard(c) PROVE LeavesBytes
  BY <1>12 DEF LeavesBytes, TypeOK, Discard, Goto, pool
<1>13. ASSUME NEW c \in Clients, Unregister(c) PROVE LeavesBytes
  <2>1. key[c] \in Keys /\ loading[key[c]] = c
    BY <1>13 DEF Unregister, Keyed, Owned, LoadSteps
  <2>2. \A k \in Keys : loading'[k] # None => loading'[k] = loading[k] /\ loading[k] # c
    BY <1>13, <2>1 DEF Unregister, Owned, TypeOK
  <2>. QED
    BY <1>13, <2>2 DEF LeavesBytes, TypeOK, Unregister, Goto
<1>14. ASSUME NEW c \in Clients, Resolve(c) PROVE LeavesBytes
  BY <1>14 DEF LeavesBytes, TypeOK, Resolve, Joined, Waiting, pool
<1>15. ASSUME NEW c \in Clients, Raise(c) PROVE LeavesBytes
  BY <1>15 DEF LeavesBytes, TypeOK, Raise, Joined, Waiting, pool
<1>16. ASSUME NEW c \in Clients, Resume(c) PROVE LeavesBytes
  BY <1>16 DEF LeavesBytes, TypeOK, Resume, Goto, Return
<1>17. ASSUME NEW c \in Clients, Release(c) PROVE LeavesBytes
  BY <1>17 DEF LeavesBytes, TypeOK, Release, Goto, Return
<1>18. ASSUME NEW c \in Clients, Drained(c) PROVE ByteBudget'
  <2>1. Retire(c, {key[c]} \cap Resident)
    BY <1>18 DEF Drained
  <2>2. /\ pc[c] = "drain" /\ loading' = loading /\ est' = est
        /\ \A d \in Clients \ {c} : pc'[d] = pc[d]
    BY <1>18 DEF Drained, Goto, TypeOK
  <2>. QED
    BY <2>1, <2>2, BytesMovedOnly
<1>19. ASSUME NEW c \in Clients, EndUnload(c) PROVE LeavesBytes
  BY <1>19 DEF LeavesBytes, TypeOK, EndUnload, Goto, UnloadReturns
<1>20. ASSUME NEW c \in Clients, EndClose(c) PROVE LeavesBytes
  BY <1>20 DEF LeavesBytes, TypeOK, EndClose, Goto, Return, pool
<1>21. ASSUME NEW c \in Clients, NEW k \in Keys, CloseSkips(c, k) PROVE LeavesBytes
  BY <1>21 DEF LeavesBytes, TypeOK, CloseSkips, pool
<1>22. ASSUME NEW c \in Clients, NEW k \in Keys, BeginUnload(c, k) PROVE LeavesBytes
  BY <1>22 DEF LeavesBytes, TypeOK, BeginUnload, Goto
<1>23. ASSUME NEW c \in Clients, LoadFails(c) PROVE LeavesBytes
  BY <1>23 DEF LeavesBytes, TypeOK, LoadFails, Goto, pool
<1>24. ASSUME NEW c \in Clients, DrainTimesOut(c) PROVE LeavesBytes
  BY <1>24 DEF LeavesBytes, TypeOK, DrainTimesOut, Goto, UnloadReturns
<1>25. ASSUME UNCHANGED vars PROVE LeavesBytes
  BY <1>25 DEF LeavesBytes, vars, pool, local
<1>26. QED
  BY <1>1, <1>2, <1>3, <1>4, <1>5, <1>6, <1>7, <1>8, <1>9, <1>10, <1>11, <1>12, <1>13, <1>14, <1>15, <1>16, <1>17, <1>18, <1>19, <1>20, <1>21, <1>22, <1>23, <1>24, <1>25, BytesLeft DEF Next, Call, Work

\* What is published, and what is not yet disposed, fits budget_bytes, for every
\* measured size and however loads, evictions and unloads interleave; and so does
\* what is published with the estimates of the loads (acquire, both its checks).
THEOREM BytesAreBounded == Spec => []ByteBudget
<1>1. Init => ByteBudget
  <2>. SUFFICES ASSUME Init PROVE ByteBudget
    OBVIOUS
  <2>1. Resident = {} /\ Loading = {} /\ Retiring = {} /\ Settled = {}
    BY DEF Init, Resident, Loading, Retiring, Settled
  <2>2. \A f : Total(f, {}) = 0
    <3>. SUFFICES ASSUME NEW f PROVE Total(f, {}) = 0
      OBVIOUS
    <3>1. Units(f, {}) = {}
      BY DEF Units
    <3>. QED
      BY <3>1, TotalIs, FS_EmptySet
  <2>3. BytesOf({}) = 0 /\ ReservedBytes({}) = 0 /\ EntryBytes({}) = 0
    BY <2>2 DEF BytesOf, ReservedBytes, EntryBytes
  <2>4. BytesOf(Resident) = 0 /\ ReservedBytes(Loading) = 0 /\ RetiringBytes = 0 /\ EntryBytes(Settled) = 0
    BY <2>1, <2>3 DEF RetiringBytes
  <2>5. ByteBudget <=> /\ BytesOf(Resident) + RetiringBytes <= Budget
                       /\ BytesOf(Resident) + ReservedBytes(Loading) + EntryBytes(Settled) <= Budget
    BY DEF ByteBudget, Settled
  <2>6. Budget \in Nat
    BY ModelPoolAssumption
  <2>. QED
    BY <2>4, <2>5, <2>6
<1>. QED
  BY <1>1, ByteStep, SlotsReservedAhead, Invariance, PTL DEF Spec
=============================================================================
