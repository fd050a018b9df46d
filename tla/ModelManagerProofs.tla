------------------------- MODULE ModelManagerProofs -------------------------
(***************************************************************************)
(* Proof that a server's model manager and its pool agree, for any number  *)
(* of models, threads, slots, bytes and loads.                             *)
(*                                                                         *)
(* Every step of the manager is a step of the pool or leaves it alone, so  *)
(* the pool's own invariants hold.  The manager's invariant says where     *)
(* each thread may be in the pool, and when nothing is resident.           *)
(***************************************************************************)
EXTENDS ModelManager, ModelPoolProofs

MTyped ==
    /\ managed \in BOOLEAN /\ load \in {"out", "acquiring", "refused", "dropping"}
    /\ bundle \in Nat /\ bundleKey \in Keys \cup {None}
    /\ bundleLease \in {"none", "held", "released"} /\ unloading \in BOOLEAN
    /\ doing \in [Clients -> {"none", "release", "unload", "unloaded"}]

\* One thread unloads at a time, never Owner, and not while a load holds the lock.
OneUnloads ==
    /\ \A c \in Clients : doing[c] # "none" => c # Owner /\ managed /\ unloading /\ load = "out"
    /\ \A c, d \in Clients : doing[c] # "none" /\ doing[d] # "none" => c = d
    /\ load # "out" => managed /\ ~unloading

\* Where Owner is in the pool, by how far load is.
OwnerAt ==
    /\ load = "out" => pc[Owner] = IF bundleLease = "held" THEN "leased" ELSE "idle"
    /\ load = "acquiring" => pc[Owner] \in LoadSteps \cup {"resolve", "raise", "leased", "idle"}
    /\ load = "refused" => pc[Owner] = "idle"
    /\ load = "dropping" => pc[Owner] \in {"drain", "unload", "idle"}
    /\ pc[Owner] # "idle" => key[Owner] = bundleKey

\* Where the other threads are: a request has a lease, one thread unloads.
OthersAt ==
    \A c \in Clients \ {Owner} :
        /\ pc[c] \in {"idle", "leased", "drain", "unload"}
        /\ pc[c] = "leased" => doing[c] = "none"
        /\ pc[c] \in {"drain", "unload"} => doing[c] = "unloaded"
        /\ pc[c] # "idle" => key[c] = bundleKey

\* What the manager's fields say of each other and of Owner's lease.
Fields ==
    /\ bundleLease = "held" => load = "out" /\ bundle # 0 /\ bundle = epoch[Owner]
    /\ bundle # 0 => load = "out" /\ bundleLease # "none" /\ (bundleLease = "held" \/ unloading)
    /\ load # "out" \/ bundleLease # "none" => bundleKey \in Keys
    /\ bundle = 0 => extras = {}
    /\ \A c \in Clients :
        /\ doing[c] = "release" => bundleLease # "none"
        /\ doing[c] = "unload" => bundleLease = "released"
        /\ doing[c] = "unloaded" => bundleLease # "held"

\* When nothing is resident.
Vacant ==
    \/ load = "out" /\ ~unloading /\ bundle = 0
    \/ load = "acquiring" /\ pc[Owner] \in LoadSteps \cup {"raise", "idle"}
    \/ load = "dropping" /\ pc[Owner] \in {"unload", "idle"}
    \/ \E c \in Clients : doing[c] = "unloaded" /\ pc[c] \in {"unload", "idle"}

Holdings ==
    /\ \A k \in Keys : live[k] # 0 => k = bundleKey
    /\ Vacant => \A k \in Keys : live[k] = 0

MInv == MTyped /\ OneUnloads /\ (managed => closers = {} /\ OwnerAt /\ OthersAt /\ Fields /\ Holdings)

PInv == IInv /\ DrainInv

-----------------------------------------------------------------------------
(* The manager as a client of the pool.                                    *)

\* The manager does nothing to the pool but call it.
LEMMA PoolStep ==
  ASSUME MInv, [ManagerNext]_mvars
  PROVE  [Next]_vars
<1>. USE ModelManagerAssumption
<1>1. ASSUME NEW c \in Clients, NEW k \in Keys, Acquire(c, k) PROVE Next
  BY <1>1 DEF Acquire, Next, Call
<1>2. ASSUME NEW c \in Clients, Release(c) PROVE Next
  BY <1>2 DEF Next, Work
<1>3. ASSUME NEW c \in Clients, NEW k \in Keys, BeginUnload(c, k) PROVE Next
  BY <1>3 DEF Next
<1>4. ASSUME NEW k \in Keys, Load(k) PROVE Next
  BY <1>1, <1>4 DEF Load
<1>5. ASSUME LoadGoes PROVE Next \/ UNCHANGED vars
  <2>1. CASE Loaded \/ LoadRaises
    BY <2>1 DEF Loaded, LoadRaises
  <2>2. CASE Refuse
    BY <1>2, <2>2 DEF Refuse
  <2>3. CASE Drop
    BY <1>3, <2>3 DEF Drop, MInv, OneUnloads, Fields
  <2>. QED
    BY <1>5, <2>1, <2>2, <2>3 DEF LoadGoes
<1>6. ASSUME NEW c \in Clients, UnloadGoes(c) PROVE Next \/ UNCHANGED vars
  <2>1. CASE ReleaseHeld(c)
    BY <1>2, <2>1 DEF ReleaseHeld
  <2>2. CASE UnloadHeld(c)
    BY <1>3, <2>2 DEF UnloadHeld, MInv, OneUnloads, Fields
  <2>3. CASE Unloaded(c)
    BY <2>3 DEF Unloaded
  <2>. QED
    BY <1>6, <2>1, <2>2, <2>3 DEF UnloadGoes
<1>7. ASSUME NEW c \in Clients, RequestLease(c) PROVE Next
  BY <1>1, <1>7 DEF RequestLease, Unlocked, MInv, Fields
<1>8. ASSUME NEW c \in Clients, Goes(c) \/ LoadFails(c) PROVE Next
  BY <1>8 DEF Goes, Next
<1>9. ASSUME NEW c \in Clients, Unload(c) PROVE UNCHANGED vars
  BY <1>9 DEF Unload
<1>10. ASSUME NEW e, LoadExtra(e) PROVE UNCHANGED vars
  BY <1>10 DEF LoadExtra
<1>11. ASSUME UNCHANGED mvars PROVE UNCHANGED vars
  BY <1>11 DEF mvars
<1>. QED
  BY <1>4, <1>5, <1>6, <1>7, <1>8, <1>9, <1>10, <1>11 DEF ManagerNext

LEMMA ManagerStarts == ManagerInit => PInv /\ MInv
<1>. SUFFICES ASSUME ManagerInit PROVE PInv /\ MInv
  OBVIOUS
<1>1. PInv
  BY InitInv DEF ManagerInit, PInv, Init, DrainInv
<1>2. MTyped /\ OneUnloads
  BY DEF ManagerInit, MTyped, OneUnloads
<1>3. closers = {} /\ OwnerAt /\ OthersAt /\ Fields /\ Holdings
  BY ModelManagerAssumption DEF ManagerInit, Init, OwnerAt, OthersAt, Fields, Holdings
<1>. QED
  BY <1>1, <1>2, <1>3 DEF MInv

-----------------------------------------------------------------------------
(* A thread goes on in the pool.                                           *)

LEMMA GoesStep ==
  ASSUME PInv, MInv, PInv', managed, NEW c \in Clients, Goes(c) \/ (LoadFails(c) /\ UNCHANGED manager)
  PROVE  MInv'
<1>. USE ModelManagerAssumption, ModelPoolAssumption
     DEF PInv, IInv, MInv
<1>1. UNCHANGED manager /\ MTyped' /\ OneUnloads' /\ managed'
  <2>1. UNCHANGED manager
    BY DEF Goes
  <2>. QED
    BY <2>1 DEF manager, held, MTyped, OneUnloads
<1>2. c = Owner => load # "out"
  <2>1. c = Owner /\ load = "out" => pc[c] \in {"idle", "leased"} /\ ~(pc[c] = "leased" /\ Goes(c))
    BY DEF OwnerAt, Goes
  <2>2. pc[c] = "idle" => ~Work(c) /\ ~LoadFails(c)
    BY DEF Work, Dispose, Cleared, Disposed, Publish, Reject, Discard, Unregister, Resolve, Raise,
           Resume, Release, Drained, EndUnload, EndClose, CloseSkips, LoadFails
  <2>3. pc[c] = "leased" => ~LoadFails(c)
    BY DEF LoadFails
  <2>. QED
    BY <2>1, <2>2, <2>3 DEF Goes
<1>3. pc[c] \notin {"refused", "evict", "resume", "closing", "join"}
  BY DEF OwnerAt, OthersAt, LoadSteps, MTyped
<1>4. pc[c] \in LoadSteps \cup {"resolve", "raise"} => c = Owner /\ load = "acquiring"
  BY DEF OwnerAt, OthersAt, LoadSteps, MTyped
<1>5. \A w \in Clients : on[w] = None
  <2>1. pc[Owner] # "join" /\ \A w \in Clients \ {Owner} : pc[w] # "join"
    BY DEF OwnerAt, OthersAt, LoadSteps, MTyped
  <2>. QED
    BY <2>1 DEF Waiting
\* A load moves on without a change of the table.
<1>6. ASSUME pc[c] \in LoadSteps \cup {"raise"}, pc'[c] \in LoadSteps \cup {"raise", "idle"},
             pc' = [pc EXCEPT ![c] = pc'[c]], live' = live, closers' = closers,
             key' = key \/ (pc'[c] = "idle" /\ key' = [key EXCEPT ![c] = None])
      PROVE  MInv'
  <2>1. OwnerAt' /\ OthersAt'
    BY <1>1, <1>4, <1>6 DEF OwnerAt, OthersAt, TypeOK, manager, held, OneUnloads, LoadSteps
  <2>2. Fields'
    BY <1>1, <1>4, <1>6 DEF Fields, manager, held
  <2>3. Holdings'
    BY <1>1, <1>4, <1>6 DEF Holdings, Vacant, OneUnloads, manager, held, TypeOK
  <2>. QED
    BY <1>1, <1>6, <2>1, <2>2, <2>3
<1>7. CASE Dispose(c)
  <2>1. UNCHANGED <<live, pc, key, epoch, closers>>
    BY <1>7 DEF Dispose, pool
  <2>. QED
    BY <1>1, <2>1 DEF OwnerAt, OthersAt, Fields, Holdings, Vacant, manager, held
<1>8. CASE Cleared(c)
  BY <1>6, <1>8 DEF Cleared, Goto, pool, LoadSteps, TypeOK
<1>9. ASSUME NEW n \in Sizes, Reject(c, n) PROVE MInv'
  BY <1>6, <1>9 DEF Reject, Goto, pool, LoadSteps, TypeOK
<1>10. CASE Discard(c) \/ LoadFails(c)
  BY <1>6, <1>10 DEF Discard, LoadFails, Goto, pool, LoadSteps, TypeOK
<1>11. CASE Unregister(c)
  BY <1>6, <1>11 DEF Unregister, Goto, LoadSteps, TypeOK
<1>12. CASE Raise(c)
  <2>1. /\ pc[c] = "raise" /\ pc' = [pc EXCEPT ![c] = "idle"] /\ key' = [key EXCEPT ![c] = None]
        /\ live' = live /\ closers' = closers
    <3>1. Joined(c) = {}
      BY <1>5 DEF Joined
    <3>2. /\ pc[c] = "raise" /\ live' = live /\ closers' = closers
          /\ pc' = [w \in Clients |-> IF w = c THEN "idle" ELSE pc[w]]
          /\ key' = [w \in Clients |-> IF w = c THEN None ELSE key[w]]
      BY <1>12, <3>1 DEF Raise, pool
    <3>. QED
      BY <3>2 DEF TypeOK
  <2>. QED
    BY <1>6, <2>1 DEF TypeOK
<1>13. CASE Resolve(c)
  <2>1. /\ pc[c] = "resolve" /\ pc' = [pc EXCEPT ![c] = "leased"] /\ key' = key /\ epoch' = epoch
        /\ live' = live /\ closers' = closers
    <3>1. Joined(c) = {}
      BY <1>5 DEF Joined
    <3>2. /\ pc[c] = "resolve" /\ live' = live /\ closers' = closers /\ key' = key
          /\ pc' = [w \in Clients |-> IF w = c THEN "leased" ELSE pc[w]]
          /\ epoch' = [w \in Clients |-> epoch[w]]
      BY <1>13, <3>1 DEF Resolve, pool
    <3>. QED
      BY <3>2 DEF TypeOK
  <2>2. OwnerAt' /\ OthersAt'
    BY <1>1, <1>4, <2>1 DEF OwnerAt, OthersAt, TypeOK, manager, held, OneUnloads, LoadSteps
  <2>3. Fields'
    BY <1>1, <1>4, <2>1 DEF Fields, manager, held
  <2>4. Holdings'
    BY <1>1, <1>4, <2>1 DEF Holdings, Vacant, OneUnloads, manager, held, TypeOK, LoadSteps
  <2>. QED
    BY <1>1, <2>1, <2>2, <2>3, <2>4
<1>14. ASSUME NEW n \in Sizes, Publish(c, n) PROVE MInv'
  <2>1. /\ pc[c] = "load" /\ pc' = [pc EXCEPT ![c] = "resolve"] /\ key' = key /\ closers' = closers
        /\ \A k \in Keys \ {key[c]} : live'[k] = live[k]
    BY <1>14 DEF Publish, Goto, TypeOK
  <2>2. c = Owner /\ load = "acquiring" /\ key[c] = bundleKey
    BY <1>4, <2>1 DEF OwnerAt, LoadSteps
  <2>3. OwnerAt' /\ OthersAt'
    BY <1>1, <2>2, <2>1 DEF OwnerAt, OthersAt, TypeOK, manager, held, OneUnloads, LoadSteps
  <2>4. Fields'
    BY <1>1, <2>2, <2>1 DEF Fields, manager, held
  <2>5. Holdings'
    BY <1>1, <2>2, <2>1 DEF Holdings, Vacant, OneUnloads, manager, held, TypeOK, LoadSteps
  <2>. QED
    BY <1>1, <2>1, <2>3, <2>4, <2>5
<1>15. CASE Release(c) /\ c # Owner
  <2>1. /\ pc[c] = "leased" /\ pc' = [pc EXCEPT ![c] = "idle"] /\ key' = [key EXCEPT ![c] = None]
        /\ epoch' = [epoch EXCEPT ![c] = 0] /\ live' = live /\ closers' = closers
    BY <1>15 DEF Release, Return, Goto
  <2>2. OwnerAt' /\ OthersAt'
    BY <1>1, <1>15, <2>1 DEF OwnerAt, OthersAt, TypeOK, manager, held
  <2>3. Fields'
    BY <1>1, <1>15, <2>1 DEF Fields, manager, held, TypeOK
  <2>4. Holdings'
    BY <1>1, <1>15, <2>1 DEF Holdings, Vacant, OthersAt, manager, held, TypeOK
  <2>. QED
    BY <1>1, <2>1, <2>2, <2>3, <2>4
<1>16. CASE Drained(c)
  <2>1. /\ pc[c] = "drain" /\ pc' = [pc EXCEPT ![c] = "unload"] /\ key' = key /\ epoch' = epoch
        /\ closers' = closers /\ key[c] = bundleKey /\ key[c] \in Keys
    BY <1>2, <1>16 DEF Drained, Goto, OwnerAt, OthersAt, Keyed
  <2>2. \A k \in Keys : live'[k] = 0
    BY <1>16, <2>1 DEF Drained, Retire, Resident, Holdings
  <2>3. OwnerAt' /\ OthersAt'
    BY <1>1, <1>2, <2>1 DEF OwnerAt, OthersAt, TypeOK, manager, held, MTyped, LoadSteps
  <2>4. Fields'
    BY <1>1, <2>1 DEF Fields, manager, held
  <2>5. Holdings'
    BY <2>2 DEF Holdings
  <2>. QED
    BY <1>1, <2>1, <2>3, <2>4, <2>5
<1>17. CASE EndUnload(c)
  <2>1. /\ pc[c] = "unload" /\ pc' = [pc EXCEPT ![c] = "idle"] /\ key' = [key EXCEPT ![c] = None]
        /\ epoch' = epoch /\ live' = live /\ closers' = closers
    BY <1>17 DEF EndUnload, UnloadReturns, Goto
  <2>2. OwnerAt' /\ OthersAt'
    BY <1>1, <1>2, <2>1 DEF OwnerAt, OthersAt, TypeOK, manager, held, MTyped, LoadSteps
  <2>3. Fields'
    BY <1>1, <2>1 DEF Fields, manager, held
  <2>4. Vacant
    BY <1>2, <2>1 DEF Vacant, OwnerAt, OthersAt, MTyped, LoadSteps
  <2>5. Holdings'
    BY <1>1, <2>1, <2>4 DEF Holdings, manager, held
  <2>. QED
    BY <1>1, <2>1, <2>2, <2>3, <2>5
<1>18. ~Disposed(c) /\ ~Resume(c) /\ ~EndClose(c) /\ \A k \in Keys : ~CloseSkips(c, k)
  BY <1>3 DEF Disposed, Resume, EndClose, CloseSkips
<1>19. pc[c] = "leased" => c # Owner \/ ~Goes(c)
  BY DEF Goes
<1>20. Release(c) /\ Goes(c) => c # Owner
  BY <1>19 DEF Release
<1>. QED
  BY <1>3, <1>7, <1>8, <1>9, <1>10, <1>11, <1>12, <1>13, <1>14, <1>15, <1>16, <1>17, <1>18, <1>20 DEF Goes, Work

-----------------------------------------------------------------------------
(* load.                                                                   *)

LEMMA LoadStep ==
  ASSUME PInv, MInv, PInv', NEW k \in Keys, Load(k)
  PROVE  MInv'
<1>. USE ModelManagerAssumption, ModelPoolAssumption
     DEF PInv, IInv, MInv
<1>1. /\ managed /\ load = "out" /\ bundle = 0 /\ ~unloading /\ bundleLease # "held"
      /\ pc[Owner] = "idle" /\ \A c \in Clients : doing[c] = "none"
  BY DEF Load, Unlocked, Fields, OwnerAt, OneUnloads
<1>2. \A j \in Keys : live[j] = 0
  BY <1>1 DEF Holdings, Vacant
<1>3. \A c \in Clients : pc[c] = "idle"
  <2>1. \A c \in Clients : pc[c] # "leased"
    BY <1>2 DEF LeaseSafety, Holds, Keyed
  <2>. QED
    BY <1>1, <2>1 DEF OthersAt
<1>4. \A j \in Keys : loading[j] = None
  BY <1>3 DEF Owned, LoadSteps, TypeOK
<1>5. PICK n \in Sizes : AcquireMiss(Owner, k, n)
  BY <1>2, <1>4 DEF Load, Acquire, AcquireHit, AcquireJoin
<1>6. /\ pc' = [pc EXCEPT ![Owner] = "clear"] /\ key' = [key EXCEPT ![Owner] = k]
      /\ closers' = closers
  <2>1. Evictable = {}
    BY <1>2 DEF Evictable, Resident
  <2>. QED
    BY <1>5, <2>1 DEF AcquireMiss, Goto
<1>7. \A j \in Keys : live'[j] = 0
  BY <1>2, <1>5 DEF AcquireMiss, Retire
<1>8. /\ bundleKey' = k /\ load' = "acquiring"
      /\ UNCHANGED <<managed, bundle, bundleLease, extras, unloading, doing>>
  BY DEF Load
<1>9. MTyped' /\ OneUnloads'
  BY <1>1, <1>8 DEF MTyped, OneUnloads
<1>10. OwnerAt' /\ OthersAt'
  BY <1>1, <1>3, <1>6, <1>8 DEF OwnerAt, OthersAt, TypeOK, LoadSteps
<1>11. Fields' /\ Holdings'
  BY <1>1, <1>7, <1>8 DEF Fields, Holdings
<1>. QED
  BY <1>1, <1>6, <1>8, <1>9, <1>10, <1>11

LEMMA LoadGoesStep ==
  ASSUME PInv, MInv, PInv', LoadGoes
  PROVE  MInv'
<1>. USE ModelManagerAssumption, ModelPoolAssumption
     DEF PInv, IInv, MInv
<1>1. load # "out" /\ managed /\ ~unloading /\ \A c \in Clients : doing[c] = "none"
  BY DEF LoadGoes, Loaded, Refuse, Drop, LoadRaises, OneUnloads
<1>2. bundle = 0 /\ bundleLease # "held" /\ bundleKey \in Keys
  BY <1>1 DEF Fields
<1>3. CASE Loaded
  <2>1. /\ load = "acquiring" /\ pc[Owner] = "leased" /\ key[Owner] = bundleKey
        /\ bundle' = epoch[Owner] /\ bundleLease' = "held" /\ load' = "out"
        /\ UNCHANGED <<vars, managed, bundleKey, extras, unloading, doing>>
    BY <1>1, <1>3 DEF Loaded, OwnerAt
  <2>2. epoch[Owner] # 0 /\ epoch[Owner] \in Nat
    BY <2>1 DEF LeaseSafety, Holds, TypeOK
  <2>3. UNCHANGED <<pc, key, live, closers, epoch>>
    BY <2>1 DEF vars, pool, local
  <2>4. MTyped' /\ OneUnloads'
    BY <1>1, <2>1, <2>2 DEF MTyped, OneUnloads
  <2>5. OwnerAt' /\ OthersAt' /\ Fields' /\ Holdings'
    BY <1>1, <1>2, <2>1, <2>2, <2>3 DEF OwnerAt, OthersAt, Fields, Holdings, Vacant
  <2>. QED
    BY <2>1, <2>3, <2>4, <2>5
<1>4. CASE Refuse
  <2>1. /\ load = "acquiring" /\ bundleLease' = "released" /\ load' = "refused"
        /\ UNCHANGED <<managed, bundle, bundleKey, extras, unloading, doing>>
    BY <1>4 DEF Refuse
  <2>2. /\ pc' = [pc EXCEPT ![Owner] = "idle"] /\ key' = [key EXCEPT ![Owner] = None]
        /\ live' = live /\ closers' = closers
    BY <1>4 DEF Refuse, Release, Return, Goto
  <2>3. MTyped' /\ OneUnloads'
    BY <1>1, <2>1 DEF MTyped, OneUnloads
  <2>4. OwnerAt' /\ OthersAt' /\ Fields' /\ Holdings'
    BY <1>1, <1>2, <2>1, <2>2 DEF OwnerAt, OthersAt, Fields, Holdings, Vacant, TypeOK
  <2>. QED
    BY <2>1, <2>2, <2>3, <2>4
<1>5. CASE Drop
  <2>1. /\ load = "refused" /\ load' = "dropping" /\ pc[Owner] = "idle"
        /\ UNCHANGED <<managed, bundle, bundleKey, bundleLease, extras, unloading, doing>>
    BY <1>1, <1>5 DEF Drop, held, OwnerAt
  <2>2. /\ pc' = [pc EXCEPT ![Owner] = "drain"] /\ key' = [key EXCEPT ![Owner] = bundleKey]
        /\ live' = live /\ closers' = closers
    BY <1>5 DEF Drop, BeginUnload, Goto
  <2>3. MTyped' /\ OneUnloads'
    BY <1>1, <2>1 DEF MTyped, OneUnloads
  <2>4. OwnerAt' /\ OthersAt' /\ Fields' /\ Holdings'
    BY <1>1, <1>2, <2>1, <2>2 DEF OwnerAt, OthersAt, Fields, Holdings, Vacant, TypeOK
  <2>. QED
    BY <2>1, <2>2, <2>3, <2>4
<1>6. CASE LoadRaises
  <2>1. /\ load \in {"acquiring", "dropping"} /\ pc[Owner] = "idle" /\ load' = "out"
        /\ UNCHANGED <<vars, managed, bundle, bundleKey, bundleLease, extras, unloading, doing>>
    BY <1>6 DEF LoadRaises, held
  <2>2. UNCHANGED <<pc, key, live, closers>>
    BY <2>1 DEF vars, pool, local
  <2>3. \A k \in Keys : live'[k] = 0
    BY <1>1, <2>1, <2>2 DEF Holdings, Vacant
  <2>4. MTyped' /\ OneUnloads'
    BY <1>1, <2>1 DEF MTyped, OneUnloads
  <2>5. OwnerAt' /\ OthersAt' /\ Fields' /\ Holdings'
    BY <1>1, <1>2, <2>1, <2>2, <2>3 DEF OwnerAt, OthersAt, Fields, Holdings
  <2>. QED
    BY <2>1, <2>2, <2>4, <2>5
<1>. QED
  BY <1>3, <1>4, <1>5, <1>6 DEF LoadGoes

-----------------------------------------------------------------------------
(* unload, and the leases of requests.                                     *)

LEMMA UnloadStep ==
  ASSUME PInv, MInv, PInv', NEW c \in Clients, Unload(c)
  PROVE  MInv'
<1>. USE ModelManagerAssumption, ModelPoolAssumption
     DEF PInv, IInv, MInv
<1>1. /\ managed /\ load = "out" /\ ~unloading /\ c # Owner /\ pc[c] = "idle"
      /\ \A d \in Clients : doing[d] = "none"
  BY DEF Unload, MayUnload, Unlocked, Free, OneUnloads
<1>2. /\ unloading' = TRUE
      /\ doing' = [doing EXCEPT ![c] = IF bundleLease = "none" THEN "unloaded" ELSE "release"]
      /\ UNCHANGED <<managed, load, bundle, bundleKey, bundleLease, extras>>
  BY DEF Unload
<1>3. UNCHANGED <<pc, key, live, closers, epoch>>
  BY DEF Unload, vars, pool, local
<1>4. MTyped' /\ OneUnloads'
  BY <1>1, <1>2 DEF MTyped, OneUnloads
<1>5. OwnerAt' /\ OthersAt'
  BY <1>1, <1>2, <1>3 DEF OwnerAt, OthersAt, MTyped
<1>6. Fields'
  BY <1>1, <1>2, <1>3 DEF Fields, MTyped
<1>7. bundleLease = "none" => \A k \in Keys : live[k] = 0
  BY <1>1 DEF Fields, Holdings, Vacant
<1>8. Holdings'
  BY <1>1, <1>2, <1>3, <1>7 DEF Holdings, Vacant, MTyped
<1>. QED
  BY <1>1, <1>2, <1>3, <1>4, <1>5, <1>6, <1>8

LEMMA UnloadGoesStep ==
  ASSUME PInv, MInv, PInv', NEW c \in Clients, UnloadGoes(c)
  PROVE  MInv'
<1>. USE ModelManagerAssumption, ModelPoolAssumption
     DEF PInv, IInv, MInv
<1>1. /\ doing[c] # "none" /\ c # Owner /\ managed /\ unloading /\ load = "out"
      /\ \A d \in Clients \ {c} : doing[d] = "none"
  BY DEF UnloadGoes, ReleaseHeld, UnloadHeld, Unloaded, OneUnloads
<1>2. CASE ReleaseHeld(c)
  <2>1. /\ doing[c] = "release" /\ bundleLease' = "released"
        /\ doing' = [doing EXCEPT ![c] = "unload"]
        /\ UNCHANGED <<managed, load, bundle, bundleKey, extras, unloading>>
    BY <1>2 DEF ReleaseHeld
  <2>2. /\ live' = live /\ closers' = closers /\ \A d \in Clients \ {Owner} : pc'[d] = pc[d] /\ key'[d] = key[d]
        /\ pc'[Owner] = "idle" /\ bundleLease # "none" /\ bundleKey \in Keys
    <3>1. bundleLease # "none" /\ bundleKey \in Keys
      BY <1>1, <2>1 DEF Fields
    <3>2. CASE bundleLease = "held"
      BY <1>2, <3>1, <3>2 DEF ReleaseHeld, Release, Return, Goto, TypeOK
    <3>3. CASE bundleLease # "held"
      BY <1>1, <1>2, <3>1, <3>3 DEF ReleaseHeld, vars, pool, local, OwnerAt
    <3>. QED
      BY <3>2, <3>3
  <2>3. MTyped' /\ OneUnloads'
    BY <1>1, <2>1 DEF MTyped, OneUnloads
  <2>4. OwnerAt' /\ OthersAt'
    BY <1>1, <2>1, <2>2 DEF OwnerAt, OthersAt, MTyped
  <2>5. Fields' /\ Holdings'
    BY <1>1, <2>1, <2>2 DEF Fields, Holdings, Vacant, MTyped
  <2>. QED
    BY <2>1, <2>2, <2>3, <2>4, <2>5
<1>3. CASE UnloadHeld(c)
  <2>1. /\ doing[c] = "unload" /\ doing' = [doing EXCEPT ![c] = "unloaded"]
        /\ UNCHANGED <<managed, load, bundle, bundleKey, bundleLease, extras, unloading>>
        /\ bundleLease = "released" /\ bundleKey \in Keys
    BY <1>1, <1>3 DEF UnloadHeld, held, Fields
  <2>2. bundleKey \notin draining
    BY <1>1, <2>1 DEF DrainInv, OwnerAt, OthersAt
  <2>3. /\ pc' = [pc EXCEPT ![c] = "drain"] /\ key' = [key EXCEPT ![c] = bundleKey]
        /\ live' = live /\ closers' = closers
    BY <1>3, <2>2 DEF UnloadHeld, BeginUnload, Goto
  <2>4. MTyped' /\ OneUnloads'
    BY <1>1, <2>1 DEF MTyped, OneUnloads
  <2>5. OwnerAt' /\ OthersAt'
    BY <1>1, <2>1, <2>3 DEF OwnerAt, OthersAt, MTyped, TypeOK
  <2>6. Fields' /\ Holdings'
    BY <1>1, <2>1, <2>3 DEF Fields, Holdings, Vacant, MTyped, TypeOK
  <2>. QED
    BY <2>1, <2>3, <2>4, <2>5, <2>6
<1>4. CASE Unloaded(c)
  <2>1. /\ doing[c] = "unloaded" /\ pc[c] = "idle"
        /\ bundle' = 0 /\ bundleLease' = "none" /\ extras' = {} /\ unloading' = FALSE
        /\ doing' = [doing EXCEPT ![c] = "none"] /\ UNCHANGED <<managed, load, bundleKey>>
    BY <1>4 DEF Unloaded
  <2>2. UNCHANGED <<pc, key, live, closers>>
    BY <1>4 DEF Unloaded, vars, pool, local
  <2>3. \A k \in Keys : live[k] = 0
    BY <1>1, <2>1 DEF Holdings, Vacant
  <2>4. bundleLease # "held"
    BY <1>1, <2>1 DEF Fields
  <2>5. MTyped' /\ OneUnloads'
    BY <1>1, <2>1 DEF MTyped, OneUnloads
  <2>6. OwnerAt' /\ OthersAt' /\ Fields' /\ Holdings'
    BY <1>1, <2>1, <2>2, <2>3, <2>4 DEF OwnerAt, OthersAt, Fields, Holdings, MTyped
  <2>. QED
    BY <2>1, <2>2, <2>5, <2>6
<1>. QED
  BY <1>2, <1>3, <1>4 DEF UnloadGoes

\* A request finds the model it asks for: the manager's lease keeps it resident.
LEMMA RequestStep ==
  ASSUME PInv, MInv, PInv', NEW c \in Clients, RequestLease(c)
  PROVE  MInv'
<1>. USE ModelManagerAssumption, ModelPoolAssumption
     DEF PInv, IInv, MInv
<1>1. /\ managed /\ load = "out" /\ bundle # 0 /\ ~unloading /\ doing[c] = "none" /\ pc[c] = "idle"
      /\ c # Owner /\ Acquire(c, bundleKey) /\ UNCHANGED manager
  BY DEF RequestLease, Unlocked, Free
<1>2. bundleLease = "held" /\ pc[Owner] = "leased" /\ key[Owner] = bundleKey /\ bundleKey \in Keys
  BY <1>1 DEF Fields, OwnerAt
<1>3. live[bundleKey] # 0
  BY <1>2 DEF LeaseSafety, Holds
<1>4. AcquireHit(c, bundleKey)
  BY <1>1, <1>3 DEF Acquire, AcquireJoin, AcquireMiss
<1>5. /\ pc' = [pc EXCEPT ![c] = "leased"] /\ key' = [key EXCEPT ![c] = bundleKey]
      /\ live' = live /\ closers' = closers /\ epoch'[Owner] = epoch[Owner]
  BY <1>1, <1>4 DEF AcquireHit, Goto, TypeOK
<1>6. MTyped' /\ OneUnloads'
  BY <1>1 DEF MTyped, OneUnloads, manager, held
<1>7. OwnerAt' /\ OthersAt'
  BY <1>1, <1>2, <1>5 DEF OwnerAt, OthersAt, manager, held, TypeOK
<1>8. Fields' /\ Holdings'
  BY <1>1, <1>2, <1>3, <1>5 DEF Fields, Holdings, Vacant, OneUnloads, manager, held, TypeOK
<1>. QED
  BY <1>1, <1>5, <1>6, <1>7, <1>8 DEF manager

LEMMA ExtraStep ==
  ASSUME PInv, MInv, NEW e, LoadExtra(e)
  PROVE  MInv'
<1>1. /\ bundle # 0 /\ UNCHANGED <<pc, key, live, closers, epoch>>
      /\ UNCHANGED <<managed, load, bundle, bundleKey, bundleLease, unloading, doing>>
  BY DEF LoadExtra, vars, pool, local
<1>2. MTyped' /\ OneUnloads'
  BY <1>1 DEF MInv, MTyped, OneUnloads
<1>3. managed => OwnerAt' /\ OthersAt' /\ Fields' /\ Holdings'
  BY <1>1 DEF MInv, OwnerAt, OthersAt, Fields, Holdings, Vacant
<1>. QED
  BY <1>1, <1>2, <1>3 DEF MInv

-----------------------------------------------------------------------------
(* What the manager guarantees.                                            *)

LEMMA ManagerStep ==
  ASSUME PInv, MInv, [ManagerNext]_mvars
  PROVE  PInv' /\ MInv'
<1>1. PInv'
  BY PoolStep, InvStep, DrainStep DEF PInv
<1>2. CASE UNCHANGED mvars
  <2>1. UNCHANGED <<pc, key, live, closers, epoch, manager>>
    BY <1>2 DEF mvars, vars, pool, local
  <2>2. MTyped' /\ OneUnloads'
    BY <2>1 DEF MInv, MTyped, OneUnloads, manager, held
  <2>3. managed => OwnerAt' /\ OthersAt' /\ Fields' /\ Holdings'
    BY <2>1 DEF MInv, OwnerAt, OthersAt, Fields, Holdings, Vacant, manager, held
  <2>. QED
    BY <1>1, <2>1, <2>2, <2>3 DEF MInv, manager
<1>3. CASE ~managed /\ UNCHANGED manager
  <2>1. MTyped' /\ OneUnloads'
    BY <1>3 DEF MInv, MTyped, OneUnloads, manager, held
  <2>. QED
    BY <1>1, <1>3, <2>1 DEF MInv, manager
<1>4. ASSUME NEW c \in Clients, managed, Goes(c) \/ (LoadFails(c) /\ UNCHANGED manager) PROVE MInv'
  BY <1>1, <1>4, GoesStep
<1>5. ASSUME NEW c \in Clients, Unload(c) \/ UnloadGoes(c) \/ RequestLease(c) PROVE MInv'
  BY <1>1, <1>5, UnloadStep, UnloadGoesStep, RequestStep
<1>6. ASSUME NEW k \in Keys, Load(k) PROVE MInv'
  BY <1>1, <1>6, LoadStep
<1>7. CASE LoadGoes
  BY <1>1, <1>7, LoadGoesStep
<1>8. ASSUME NEW e, LoadExtra(e) PROVE MInv'
  BY <1>8, ExtraStep
<1>. QED
  BY <1>1, <1>2, <1>3, <1>4, <1>5, <1>6, <1>7, <1>8 DEF ManagerNext

\* The inductive invariant of manager and pool holds in every reachable state.
THEOREM ManagerInvariance == ManagerSpec => [](PInv /\ MInv)
  BY ManagerStarts, ManagerStep, PTL DEF ManagerSpec

\* A manager with its threads, or free threads, use the pool only as its
\* specification allows: whatever is proved of the pool holds here as well.
THEOREM ManagerUsesPool == ManagerSpec => Spec
<1>1. ManagerInit => Init
  BY DEF ManagerInit
<1>. QED
  BY <1>1, PoolStep, ManagerInvariance, PTL DEF ManagerSpec, Spec

\* Outside of load and unload the manager and its pool agree (model_manager.py:
\* load, unload, model_lease), also after a refused load, one that failed at any
\* point, and an unload during which models were drained.
THEOREM ServedModelIsResident == ManagerSpec => []ServedIsResident
<1>1. PInv /\ MInv => ServedIsResident
  <2>. SUFFICES ASSUME PInv, MInv, managed, load = "out", ~unloading PROVE ServedIsResident
    BY DEF ServedIsResident, Unlocked
  <2>. USE ModelManagerAssumption, ModelPoolAssumption DEF PInv, IInv, MInv
  <2>1. \A c \in Clients : doing[c] = "none"
    BY DEF OneUnloads
  <2>2. CASE bundle = 0
    <3>1. \A k \in Keys : live[k] = 0
      BY <2>2 DEF Holdings, Vacant
    <3>2. \A k \in Keys : loading[k] = None
      BY <2>1 DEF Owned, OwnerAt, OthersAt, LoadSteps, TypeOK
    <3>. QED
      BY <2>2, <3>1, <3>2 DEF ServedIsResident, Resident, Loading, Fields
  <2>3. CASE bundle # 0
    <3>1. /\ bundleLease = "held" /\ pc[Owner] = "leased" /\ key[Owner] = bundleKey
          /\ bundle = epoch[Owner]
      BY <2>3 DEF Fields, OwnerAt
    <3>2. live[bundleKey] = bundle
      BY <3>1 DEF LeaseSafety, Holds
    <3>3. bundleKey \notin draining
      BY <2>1, <3>1 DEF DrainInv, OthersAt
    <3>. QED
      BY <2>3, <3>1, <3>2, <3>3 DEF ServedIsResident, Holds
  <2>. QED
    BY <2>2, <2>3
<1>. QED
  BY <1>1, ManagerInvariance, PTL
=============================================================================
