------------------------------ MODULE ModelPool ------------------------------
(***************************************************************************)
(* Model residency (engine/model_pool.py): single-flight loading, leases   *)
(* on epochs of a model, least-recently-used eviction under a slot and a   *)
(* byte budget, draining unloads and close.                                *)
(*                                                                         *)
(* A client is a thread inside one call of the pool, or holding the lease  *)
(* the call returned.  Everything the code does under _condition is one    *)
(* step; loading, disposing and resolving a Future happen outside the lock *)
(* and are steps of their own.                                             *)
(*                                                                         *)
(* A definition Op_Fault is a faulty variant of Op, used to see that the   *)
(* properties notice.                                                      *)
(***************************************************************************)
EXTENDS Naturals, FiniteSets, FiniteSetsExt

CONSTANTS
    Keys,       \* model identities
    Clients,    \* threads calling the pool
    None,       \* no load in flight
    MaxModels,  \* max_models
    Budget,     \* budget_bytes
    Sizes,      \* estimated and observed sizes of a model
    MaxEpoch    \* bound: loads of one key in a behaviour

ASSUME ModelPoolAssumption ==
    /\ None \notin Clients \cup Keys
    /\ IsFiniteSet(Keys) /\ IsFiniteSet(Clients)
    /\ MaxModels \in Nat \ {0} /\ Budget \in Nat \ {0}
    /\ Sizes \subseteq Nat /\ Sizes # {} /\ MaxEpoch \in Nat

VARIABLES
    live,      \* _entries: epoch of the resident model, 0 when not resident
    leases,    \* _Resident.leases
    bytes,     \* _Resident.runtime.resident_bytes
    pinned,    \* keys whose entry is pinned
    older,     \* <<a, b>>: resident a has an earlier used_at than resident b
    epochs,    \* _epochs: epoch of the last load published
    loading,   \* _loading: the client loading the key
    draining,  \* _draining
    closed,    \* _closed
    pc, key,   \* where a client is, and the key of its call
    epoch,     \* epoch of the client's lease, or of the result it awaited
    est,       \* estimated_bytes of the client's load
    on,        \* the loader whose Future the client is waiting for
    removed,   \* entries the client took out of the pool and has yet to dispose
    failed,    \* clients whose call has recorded an error to raise at its end
    todo,      \* close: keys still to unload
    closers,   \* clients inside close
    quiet      \* history: some close has returned normally

pool == <<live, leases, bytes, pinned, older, epochs, loading, draining, closed>>
local == <<pc, key, epoch, est, on, removed, failed, todo, closers, quiet>>
vars == <<pool, local>>

Resident == {k \in Keys : live[k] # 0}
Loading  == {k \in Keys : loading[k] # None}
Retiring == UNION {removed[c] : c \in Clients}      \* _retiring

-----------------------------------------------------------------------------
(* Capacity.                                                               *)

Total(f, S) == MapThenSumSet(LAMBDA x : f[x], S)
BytesOf(S) == Total(bytes, S)
ReservedBytes(S) == Total([k \in S |-> est[loading[k]]], S)
EntryBytes(S) == Total([r \in S |-> r.bytes], S)
RetiringBytes == EntryBytes(Retiring)

HasRoom_IgnoresRetiring(V, n) ==
    /\ Cardinality(Resident \ V) + Cardinality(Loading) < MaxModels
    /\ BytesOf(Resident \ V) + ReservedBytes(Loading) + n <= Budget

\* Once the idle entries V are out, is there room for one more load of n bytes?
\* The caller's own victims are not counted: it disposes them before it loads.
HasRoom(V, n) ==
    /\ Cardinality(Resident \ V) + Cardinality(Loading) + Cardinality(Retiring) < MaxModels
    /\ BytesOf(Resident \ V) + ReservedBytes(Loading) + RetiringBytes + n <= Budget

Evictable_Leased == {k \in Resident : k \notin pinned /\ k \notin draining}
Evictable_Pinned == {k \in Resident : leases[k] = 0 /\ k \notin draining}
Evictable == {k \in Resident : leases[k] = 0 /\ k \notin pinned /\ k \notin draining}

\* _remove_idle for a load of n bytes: evictable entries in order of last use,
\* until the load has room.
Victims(V, n) ==
    /\ V \subseteq Evictable
    /\ \A v \in V, w \in Evictable : <<w, v>> \in older => w \in V
    /\ HasRoom(V, n) \/ V = Evictable
    /\ \A v \in V : ~HasRoom({w \in V : <<w, v>> \in older}, n)

Entry(k) == [key |-> k, epoch |-> live[k], bytes |-> bytes[k]]

\* Client c takes the entries of V out of the pool and owes their disposal.
Retire(c, V) ==
    /\ removed' = [removed EXCEPT ![c] = {Entry(k) : k \in V}]
    /\ live' = [k \in Keys |-> IF k \in V THEN 0 ELSE live[k]]
    /\ bytes' = [k \in Keys |-> IF k \in V THEN 0 ELSE bytes[k]]
    /\ pinned' = pinned \ V
    /\ older' = {p \in older : p[1] \notin V /\ p[2] \notin V}

Touch(k, S) == {p \in older : p[1] # k} \cup {<<j, k>> : j \in S \ {k}}

Goto(c, l) == pc' = [pc EXCEPT ![c] = l]
Return(c) == Goto(c, "idle") /\ key' = [key EXCEPT ![c] = None]

-----------------------------------------------------------------------------
(* acquire.                                                                *)

MayAcquire_Draining(c, k) == pc[c] = "idle" /\ ~closed
MayAcquire(c, k) == pc[c] = "idle" /\ ~closed /\ k \notin draining

\* A lease on a resident entry; the caller may pin it.
Lease_Uncounted(k) == UNCHANGED leases /\ pinned' \in {pinned, pinned \cup {k}}
Lease(k) ==
    /\ leases' = [leases EXCEPT ![k] = @ + 1]
    /\ pinned' \in {pinned, pinned \cup {k}}

AcquireHit(c, k) ==
    /\ MayAcquire(c, k) /\ live[k] # 0
    /\ Lease(k)
    /\ Goto(c, "leased") /\ key' = [key EXCEPT ![c] = k]
    /\ epoch' = [epoch EXCEPT ![c] = live[k]]
    /\ UNCHANGED <<live, bytes, older, epochs, loading, draining, closed,
                   est, on, removed, failed, todo, closers, quiet>>

\* The key is being loaded by another call: wait for that call's Future.
AcquireJoin(c, k) ==
    /\ MayAcquire(c, k) /\ live[k] = 0 /\ loading[k] # None
    /\ Goto(c, "join") /\ key' = [key EXCEPT ![c] = k]
    /\ on' = [on EXCEPT ![c] = loading[k]]
    /\ UNCHANGED <<pool, epoch, est, removed, failed, todo, closers, quiet>>

AcquireMiss(c, k, n) ==
    /\ MayAcquire(c, k) /\ live[k] = 0 /\ loading[k] = None
    /\ epochs[k] < MaxEpoch
    /\ \E V \in SUBSET Evictable :
        /\ Victims(V, n)
        /\ Retire(c, V)
        /\ IF HasRoom(V, n)
           THEN /\ loading' = [loading EXCEPT ![k] = c]
                /\ est' = [est EXCEPT ![c] = n]
                /\ key' = [key EXCEPT ![c] = k]
                /\ Goto(c, "clear")
           ELSE /\ V # {}  \* with nothing removed the call just raises
                /\ Goto(c, "refused")
                /\ UNCHANGED <<loading, est, key>>
    /\ UNCHANGED <<leases, epochs, draining, closed, epoch, on, failed, todo, closers, quiet>>

\* _dispose: one entry is drained and disposed on the device; either may raise,
\* and the entry leaves _retiring all the same.
Dispose(c) ==
    /\ pc[c] \in {"clear", "refused", "evict", "unload"}
    /\ \E r \in removed[c] : removed' = [removed EXCEPT ![c] = @ \ {r}]
    /\ failed' \in {failed, failed \cup {c}}
    /\ UNCHANGED <<pool, pc, key, epoch, est, on, todo, closers, quiet>>

Cleared(c) ==
    /\ pc[c] = "clear" /\ removed[c] = {}
    /\ IF c \in failed THEN Goto(c, "unregister") ELSE Goto(c, "load")
    /\ failed' = failed \ {c}
    /\ UNCHANGED <<pool, key, epoch, est, on, removed, todo, closers, quiet>>

\* A refused acquire, or evict_idle, has attempted all its disposals and returns.
Disposed(c) ==
    /\ pc[c] \in {"refused", "evict"} /\ removed[c] = {}
    /\ Return(c)
    /\ failed' = failed \ {c}
    /\ UNCHANGED <<pool, epoch, est, on, removed, todo, closers, quiet>>

\* The loader raises, or its value cannot be measured and must be discarded.
LoadFails(c) ==
    /\ pc[c] = "load"
    /\ Goto(c, "unregister") \/ Goto(c, "discard")
    /\ UNCHANGED <<pool, key, epoch, est, on, removed, failed, todo, closers, quiet>>

Fits_IgnoresRetiring(k, n) ==
    ~closed /\ BytesOf(Resident) + ReservedBytes(Loading \ {k}) + n <= Budget
\* May the loaded value of n bytes be published?
Fits(k, n) ==
    /\ ~closed
    /\ BytesOf(Resident) + ReservedBytes(Loading \ {k}) + RetiringBytes + n <= Budget

Publish(c, n) ==
    LET k == key[c] IN
    /\ pc[c] = "load" /\ Fits(k, n)
    /\ epochs' = [epochs EXCEPT ![k] = @ + 1]
    /\ live' = [live EXCEPT ![k] = epochs[k] + 1]
    /\ leases' = [leases EXCEPT ![k] = 1]
    /\ bytes' = [bytes EXCEPT ![k] = n]
    /\ pinned' \in {pinned, pinned \cup {k}}
    /\ older' = Touch(k, Resident)
    /\ loading' = [loading EXCEPT ![k] = None]
    /\ epoch' = [epoch EXCEPT ![c] = epochs[k] + 1]
    /\ est' = [est EXCEPT ![c] = 0]
    /\ Goto(c, "resolve")
    /\ UNCHANGED <<draining, closed, key, on, removed, failed, todo, closers, quiet>>

\* The value was loaded but cannot be published.
Reject(c, n) ==
    /\ pc[c] = "load" /\ ~Fits(key[c], n)
    /\ Goto(c, "discard")
    /\ UNCHANGED <<pool, key, epoch, est, on, removed, failed, todo, closers, quiet>>

Discard(c) ==
    /\ pc[c] = "discard"
    /\ Goto(c, "unregister")
    /\ UNCHANGED <<pool, key, epoch, est, on, removed, failed, todo, closers, quiet>>

Unregister(c) ==
    /\ pc[c] = "unregister"
    /\ loading' = [loading EXCEPT ![key[c]] = None]
    /\ est' = [est EXCEPT ![c] = 0]
    /\ Goto(c, "raise")
    /\ UNCHANGED <<live, leases, bytes, pinned, older, epochs, draining, closed,
                   key, epoch, on, removed, failed, todo, closers, quiet>>

Joined_None(c) == {}
Joined(c) == {w \in Clients : on[w] = c}
Answered(c) == on' = [w \in Clients |-> IF on[w] = c THEN None ELSE on[w]]

\* future.set_result, after the lock was released; the loader keeps its lease.
Resolve(c) ==
    /\ pc[c] = "resolve"
    /\ pc' = [w \in Clients |-> IF w = c THEN "leased"
                                ELSE IF w \in Joined(c) THEN "resume" ELSE pc[w]]
    /\ epoch' = [w \in Clients |-> IF w \in Joined(c) THEN epoch[c] ELSE epoch[w]]
    /\ Answered(c)
    /\ UNCHANGED <<pool, key, est, removed, failed, todo, closers, quiet>>

\* future.set_exception: the loader and every waiter raise.
Raise(c) ==
    /\ pc[c] = "raise"
    /\ LET S == {c} \cup Joined(c) IN
        /\ pc' = [w \in Clients |-> IF w \in S THEN "idle" ELSE pc[w]]
        /\ key' = [w \in Clients |-> IF w \in S THEN None ELSE key[w]]
    /\ Answered(c)
    /\ UNCHANGED <<pool, epoch, est, removed, failed, todo, closers, quiet>>

\* A waiter takes a lease on the very epoch it awaited, or fails.
Resume(c) ==
    LET k == key[c] IN
    /\ pc[c] = "resume"
    /\ IF ~closed /\ k \notin draining /\ live[k] # 0 /\ live[k] = epoch[c]
       THEN /\ Lease(k)
            /\ Goto(c, "leased")
            /\ UNCHANGED <<epoch, key>>
       ELSE /\ Return(c)
            /\ epoch' = [epoch EXCEPT ![c] = 0]
            /\ UNCHANGED <<leases, pinned>>
    /\ UNCHANGED <<live, bytes, older, epochs, loading, draining, closed,
                   est, on, removed, failed, todo, closers, quiet>>

\* ModelLease.release
Release(c) ==
    LET k == key[c] IN
    /\ pc[c] = "leased"
    /\ leases' = [leases EXCEPT ![k] = @ - 1]
    /\ older' = Touch(k, Resident)
    /\ epoch' = [epoch EXCEPT ![c] = 0]
    /\ Return(c)
    /\ UNCHANGED <<live, bytes, pinned, epochs, loading, draining, closed,
                   est, on, removed, failed, todo, closers, quiet>>

-----------------------------------------------------------------------------
(* unload, evict_idle, pin, close.                                         *)

BeginUnload(c, k) ==
    /\ \/ pc[c] = "idle" /\ UNCHANGED todo
       \/ pc[c] = "closing" /\ k \in todo[c] /\ todo' = [todo EXCEPT ![c] = @ \ {k}]
    /\ k \notin draining
    /\ draining' = draining \cup {k}
    /\ Goto(c, "drain") /\ key' = [key EXCEPT ![c] = k]
    /\ UNCHANGED <<live, leases, bytes, pinned, older, epochs, loading, closed,
                   epoch, est, on, removed, failed, closers, quiet>>

\* No load and no lease is left: the entry, if any, leaves the pool.
Drained(c) ==
    LET k == key[c] IN
    /\ pc[c] = "drain"
    /\ loading[k] = None /\ (live[k] # 0 => leases[k] = 0)
    /\ Retire(c, {k} \cap Resident)
    /\ Goto(c, "unload")
    /\ UNCHANGED <<leases, epochs, loading, draining, closed,
                   key, epoch, est, on, failed, todo, closers, quiet>>

\* The end of unload, on every path: the draining mark is lifted.
UnloadReturns_Marked(c) ==
    /\ UNCHANGED draining
    /\ IF c \in closers THEN Goto(c, "closing") ELSE Goto(c, "idle")
    /\ key' = [key EXCEPT ![c] = None]
UnloadReturns(c) ==
    /\ draining' = draining \ {key[c]}
    /\ IF c \in closers THEN Goto(c, "closing") ELSE Goto(c, "idle")
    /\ key' = [key EXCEPT ![c] = None]

DrainTimesOut(c) ==
    /\ pc[c] = "drain"
    /\ loading[key[c]] # None \/ (live[key[c]] # 0 /\ leases[key[c]] # 0)
    /\ UnloadReturns(c)
    /\ failed' = IF c \in closers THEN failed \cup {c} ELSE failed
    /\ UNCHANGED <<live, leases, bytes, pinned, older, epochs, loading, closed,
                   epoch, est, on, removed, todo, closers, quiet>>

EndUnload(c) ==
    /\ pc[c] = "unload" /\ removed[c] = {}
    /\ UnloadReturns(c)
    /\ failed' = IF c \in closers THEN failed ELSE failed \ {c}
    /\ UNCHANGED <<live, leases, bytes, pinned, older, epochs, loading, closed,
                   epoch, est, on, removed, todo, closers, quiet>>

\* Entries idle for idle_ttl are those used before some moment.
EvictIdle(c) ==
    /\ pc[c] = "idle"
    /\ \E expired \in SUBSET Resident :
        /\ \A a, b \in Resident : <<a, b>> \in older /\ b \in expired => a \in expired
        /\ expired \cap Evictable # {}
        /\ Retire(c, expired \cap Evictable)
    /\ Goto(c, "evict")
    /\ UNCHANGED <<leases, epochs, loading, draining, closed,
                   key, epoch, est, on, failed, todo, closers, quiet>>

Pin(c, k) ==
    /\ pc[c] = "idle" /\ live[k] # 0
    /\ pinned' \in {pinned \cup {k}, pinned \ {k}}
    /\ UNCHANGED <<live, leases, bytes, older, epochs, loading, draining, closed, local>>

ToUnload_Resident == Resident
\* What close goes through: also the keys still loading.
ToUnload == Resident \cup Loading

BeginClose(c) ==
    /\ pc[c] = "idle"
    /\ closed' = TRUE
    /\ todo' = [todo EXCEPT ![c] = ToUnload]
    /\ closers' = closers \cup {c}
    /\ Goto(c, "closing")
    /\ UNCHANGED <<live, leases, bytes, pinned, older, epochs, loading, draining,
                   key, epoch, est, on, removed, failed, quiet>>

\* unload raises because another call is already draining the key.
CloseSkips(c, k) ==
    /\ pc[c] = "closing" /\ k \in todo[c] /\ k \in draining
    /\ todo' = [todo EXCEPT ![c] = @ \ {k}]
    /\ failed' = failed \cup {c}
    /\ UNCHANGED <<pool, pc, key, epoch, est, on, removed, closers, quiet>>

EndClose(c) ==
    /\ pc[c] = "closing" /\ todo[c] = {}
    /\ quiet' = (quiet \/ c \notin failed)
    /\ failed' = failed \ {c} /\ closers' = closers \ {c}
    /\ Return(c)
    /\ UNCHANGED <<pool, epoch, est, on, removed, todo>>

-----------------------------------------------------------------------------
Init ==
    /\ live = [k \in Keys |-> 0] /\ leases = [k \in Keys |-> 0]
    /\ bytes = [k \in Keys |-> 0] /\ pinned = {} /\ older = {}
    /\ epochs = [k \in Keys |-> 0] /\ loading = [k \in Keys |-> None]
    /\ draining = {} /\ closed = FALSE
    /\ pc = [c \in Clients |-> "idle"] /\ key = [c \in Clients |-> None]
    /\ epoch = [c \in Clients |-> 0] /\ est = [c \in Clients |-> 0]
    /\ on = [c \in Clients |-> None]
    /\ removed = [c \in Clients |-> {}] /\ failed = {}
    /\ todo = [c \in Clients |-> {}] /\ closers = {} /\ quiet = FALSE

\* A call begins.
Call(c) ==
    \/ \E k \in Keys : \/ AcquireHit(c, k) \/ AcquireJoin(c, k)
                       \/ \E n \in Sizes : AcquireMiss(c, k, n)
                       \/ Pin(c, k)
    \/ EvictIdle(c) \/ BeginClose(c)

\* A call in progress, or the holder of a lease, goes on.
Work(c) ==
    \/ Dispose(c) \/ Cleared(c) \/ Disposed(c)
    \/ \E n \in Sizes : Publish(c, n) \/ Reject(c, n)
    \/ Discard(c) \/ Unregister(c) \/ Resolve(c) \/ Raise(c) \/ Resume(c) \/ Release(c)
    \/ Drained(c) \/ EndUnload(c) \/ EndClose(c)
    \/ \E k \in Keys : CloseSkips(c, k)

Next ==
    \E c \in Clients : \/ Call(c) \/ Work(c)
                       \/ \E k \in Keys : BeginUnload(c, k)
                       \/ LoadFails(c) \/ DrainTimesOut(c)

Spec == Init /\ [][Next]_vars

\* Loaders, disposals and lease holders finish, and threads are scheduled.
FairSpec == Spec /\ \A c \in Clients : WF_vars(Work(c) \/ (pc[c] = "closing" /\ \E k \in Keys : BeginUnload(c, k)))

-----------------------------------------------------------------------------
(* Properties.                                                             *)

Steps == {"idle", "leased", "clear", "load", "discard", "unregister", "resolve", "raise",
          "join", "resume", "refused", "evict", "drain", "unload", "closing"}
Records == [key : Keys, epoch : Nat, bytes : Sizes \cup {0}]

\* Every variable has its type.
TypeOK ==
    /\ live \in [Keys -> Nat] /\ leases \in [Keys -> Nat] /\ epochs \in [Keys -> Nat]
    /\ bytes \in [Keys -> Sizes \cup {0}] /\ pinned \subseteq Keys
    /\ older \subseteq Keys \X Keys
    /\ loading \in [Keys -> Clients \cup {None}]
    /\ draining \subseteq Keys /\ closed \in BOOLEAN
    /\ pc \in [Clients -> Steps]
    /\ key \in [Clients -> Keys \cup {None}]
    /\ epoch \in [Clients -> Nat] /\ est \in [Clients -> Sizes \cup {0}]
    /\ on \in [Clients -> Clients \cup {None}]
    /\ removed \in [Clients -> SUBSET Records]
    /\ failed \subseteq Clients /\ todo \in [Clients -> SUBSET Keys]
    /\ closers \subseteq Clients /\ quiet \in BOOLEAN

\* A client that owns a lease: it holds it, or its load was published with one.
Holds(c) == pc[c] \in {"leased", "resolve"}
Holders(k) == {c \in Clients : Holds(c) /\ key[c] = k}

\* A leased model is never evicted, unloaded or replaced: the lease's epoch is
\* the resident one for as long as the lease is held (model_pool.py: acquire,
\* _remove_idle, unload and the waiter's recheck of the published runtime).
LeaseSafety == \A c \in Clients : Holds(c) => live[key[c]] # 0 /\ live[key[c]] = epoch[c]

\* The count that eviction and unload go by is the number of leases out, whether
\* taken by a hit, by the loader or by a waiter.
LeaseCount == \A k \in Keys : leases[k] = Cardinality(Holders(k))

\* Models in memory never exceed max_models: resident ones, those taken out
\* but not yet disposed, and values being loaded or discarded.
SlotBudget ==
    Cardinality(Resident) + Cardinality(Retiring)
        + Cardinality({c \in Clients : pc[c] \in {"load", "discard"}}) <= MaxModels

\* Published models and those awaiting disposal fit the byte budget; and so do
\* they with the estimates of the loads in flight, once each load's own victims
\* are set aside.
ByteBudget ==
    /\ BytesOf(Resident) + RetiringBytes <= Budget
    /\ BytesOf(Resident) + ReservedBytes(Loading)
        + EntryBytes(UNION {removed[c] : c \in {d \in Clients : pc[d] # "clear"}}) <= Budget

\* A key is marked draining exactly while one call is unloading it: a mark left
\* behind would refuse the model for ever, one lifted early would lease a model
\* that is being disposed.
DrainOwned ==
    \A k \in Keys :
        Cardinality({c \in Clients : pc[c] \in {"drain", "unload"} /\ key[c] = k})
            = IF k \in draining THEN 1 ELSE 0

\* A waiter always waits on a call that is still loading its key and will
\* resolve the Future it holds.
JoinersServed ==
    \A w \in Clients : pc[w] = "join" =>
        \E c \in Clients :
            /\ on[w] = c
            /\ pc[c] \in {"clear", "load", "discard", "unregister", "resolve", "raise"}
            /\ key[c] = key[w]

\* When close returns without error nothing is resident or loading, and a load
\* that was under way when the pool closed cannot publish later.
ClosedIsEmpty == quiet => Resident = {} /\ Loading = {}

\* A pinned model leaves the pool by an explicit unload only.
PinnedStays ==
    [][\A k \in pinned : live[k] # 0 /\ live'[k] = 0 => k \in draining]_vars

\* unload returns, with no timeout, however many leases were out when it began.
UnloadEnds == \A c \in Clients : pc[c] = "drain" ~> pc[c] # "drain"

\* A caller that joined another's load is always answered.
JoinEnds == \A c \in Clients : pc[c] = "join" ~> pc[c] # "join"
=============================================================================
