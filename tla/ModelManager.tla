---------------------------- MODULE ModelManager ----------------------------
(***************************************************************************)
(* A model pool and who uses it: threads that call it as they like         *)
(* (engine/service.py), or the manager of a server, which keeps one model  *)
(* loaded for the requests (server/model_manager.py).                      *)
(*                                                                         *)
(* The manager's lock is held through all of load; its other critical      *)
(* sections are steps.  So one thread is in load at a time, and Owner      *)
(* stands for it; the lease that load leaves in _bundle_lease stays with   *)
(* Owner until unload, called by any thread, releases it.                  *)
(***************************************************************************)
EXTENDS ModelPool

CONSTANT Owner

ASSUME ModelManagerAssumption == Owner \in Clients

VARIABLES
    managed,      \* does the pool belong to a manager?
    load,         \* how far load is: "out", "acquiring", "refused", "dropping"
    bundle,       \* _bundle: the epoch of the model that is served, or 0
    bundleKey,    \* _bundle_key
    bundleLease,  \* _bundle_lease: "none", "held" or "released"
    extras,       \* which of _draft_bundle and _transcription_bundle are there
    unloading,    \* _unloading
    doing         \* per thread: how far unload is

held == <<bundle, bundleKey, bundleLease, extras, unloading>>
manager == <<managed, load, held, doing>>
mvars == <<vars, manager>>

Free(c) == doing[c] = "none" /\ pc[c] = "idle"
Unlocked == managed /\ load = "out"

Acquire(c, k) ==
    AcquireHit(c, k) \/ AcquireJoin(c, k) \/ \E n \in Sizes : AcquireMiss(c, k, n)

\* Nothing is loaded, nor being unloaded; the pool has room then (ServedIsResident).
Load(k) ==
    /\ Unlocked /\ bundle = 0 /\ ~unloading
    /\ Acquire(Owner, k)
    /\ bundleKey' = k /\ load' = "acquiring"
    /\ UNCHANGED <<managed, bundle, bundleLease, extras, unloading, doing>>

Loaded ==
    /\ load = "acquiring" /\ pc[Owner] = "leased"
    /\ bundle' = epoch[Owner] /\ bundleLease' = "held" /\ load' = "out"
    /\ UNCHANGED <<vars, managed, bundleKey, extras, unloading, doing>>

\* The model has a shorter context than the server was asked for: the lease is
\* released and kept, and the model is unloaded.
Refuse ==
    /\ load = "acquiring" /\ Release(Owner)
    /\ bundleLease' = "released" /\ load' = "refused"
    /\ UNCHANGED <<managed, bundle, bundleKey, extras, unloading, doing>>

Drop ==
    /\ load = "refused" /\ BeginUnload(Owner, bundleKey)
    /\ load' = "dropping"
    /\ UNCHANGED <<managed, held, doing>>

\* The pool's acquire has raised, or the refused model is gone.
LoadRaises ==
    /\ load \in {"acquiring", "dropping"} /\ pc[Owner] = "idle"
    /\ load' = "out"
    /\ UNCHANGED <<vars, managed, held, doing>>

\* load_draft, load_transcription: on the device, under the lock, also while the
\* primary model is being unloaded; a load that raises changes nothing.
LoadExtra(e) ==
    /\ Unlocked /\ bundle # 0 /\ e \notin extras
    /\ extras' = extras \cup {e}
    /\ UNCHANGED <<vars, managed, load, bundle, bundleKey, bundleLease, unloading, doing>>

MayUnload_Always == Unlocked
MayUnload == Unlocked /\ ~unloading
Unload(c) ==
    /\ MayUnload /\ Free(c) /\ c # Owner
    /\ unloading' = TRUE
    /\ doing' = [doing EXCEPT ![c] = IF bundleLease = "none" THEN "unloaded" ELSE "release"]
    /\ UNCHANGED <<vars, managed, load, bundle, bundleKey, bundleLease, extras>>

\* Releasing a lease that has been released does nothing.
ReleaseHeld(c) ==
    /\ doing[c] = "release"
    /\ IF bundleLease = "held" THEN Release(Owner) ELSE UNCHANGED vars
    /\ bundleLease' = "released" /\ doing' = [doing EXCEPT ![c] = "unload"]
    /\ UNCHANGED <<managed, load, bundle, bundleKey, extras, unloading>>

\* The pool's unload raises if the model is draining already.
UnloadHeld(c) ==
    /\ doing[c] = "unload"
    /\ IF bundleKey \in draining THEN UNCHANGED vars ELSE BeginUnload(c, bundleKey)
    /\ doing' = [doing EXCEPT ![c] = "unloaded"]
    /\ UNCHANGED <<managed, load, held>>

\* The finally clause, under the lock, when the pool's unload has returned or raised.
Unloaded(c) ==
    /\ Unlocked /\ doing[c] = "unloaded" /\ pc[c] = "idle"
    /\ bundle' = 0 /\ bundleLease' = "none" /\ extras' = {} /\ unloading' = FALSE
    /\ doing' = [doing EXCEPT ![c] = "none"]
    /\ UNCHANGED <<vars, managed, load, bundleKey>>

\* model_lease: a request takes a lease of its own.
RequestLease(c) ==
    /\ Unlocked /\ bundle # 0 /\ ~unloading /\ Free(c) /\ c # Owner
    /\ Acquire(c, bundleKey)
    /\ UNCHANGED manager

-----------------------------------------------------------------------------
ManagerInit ==
    /\ Init /\ managed \in BOOLEAN
    /\ load = "out" /\ bundle = 0 /\ bundleKey = None /\ bundleLease = "none"
    /\ extras = {} /\ unloading = FALSE /\ doing = [c \in Clients |-> "none"]

\* A thread goes on in the pool; only unload releases the manager's lease.
Goes(c) ==
    /\ Work(c) \/ (pc[c] = "closing" /\ \E k \in Keys : BeginUnload(c, k))
    /\ ~(managed /\ c = Owner /\ pc[c] = "leased")
    /\ UNCHANGED manager

LoadGoes == Loaded \/ Refuse \/ Drop \/ LoadRaises
UnloadGoes(c) == ReleaseHeld(c) \/ UnloadHeld(c) \/ Unloaded(c)

ManagerNext ==
    \/ ~managed /\ Next /\ UNCHANGED manager
    \/ \E c \in Clients : \/ managed /\ (Goes(c) \/ (LoadFails(c) /\ UNCHANGED manager))
                          \/ Unload(c) \/ UnloadGoes(c) \/ RequestLease(c)
    \/ (\E k \in Keys : Load(k)) \/ LoadGoes
    \/ \E e \in {"draft", "transcription"} : LoadExtra(e)

ManagerSpec == ManagerInit /\ [][ManagerNext]_mvars

\* Loaders, disposals and lease holders finish, and threads are scheduled.
FairManagerSpec ==
    /\ ManagerSpec /\ WF_mvars(LoadGoes)
    /\ \A c \in Clients : WF_mvars(Goes(c)) /\ WF_mvars(UnloadGoes(c))

-----------------------------------------------------------------------------
\* model_manager.py: outside of load and unload the manager and its pool agree.
\* The model it serves is the resident one, kept by the manager's lease, so a
\* request's lease never loads anything; and when it serves none, whatever was
\* refused, failed or drained before, no model is left in memory, nor a draft of it.
ServedIsResident ==
    Unlocked /\ ~unloading =>
        IF bundle = 0 THEN Resident \cup Loading = {} /\ extras = {}
        ELSE /\ bundleLease = "held" /\ Holds(Owner) /\ key[Owner] = bundleKey
             /\ live[bundleKey] = bundle /\ bundleKey \notin draining
=============================================================================
