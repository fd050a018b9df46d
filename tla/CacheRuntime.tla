---------------------------- MODULE CacheRuntime ----------------------------
(***************************************************************************)
(* The cache of a model at work: the manager's handles, reservations and   *)
(* prefix index (engine/cache_manager.py, engine/prefix_cache.py) and the  *)
(* batched forward that appends to the caches of its requests on drafts    *)
(* and commits them together (engine/paged.py, engine/transactions.py).    *)
(*                                                                         *)
(* All of it runs on the thread that owns the device, one call at a time;  *)
(* a request may be cancelled by another thread between any two steps, and *)
(* every step that allocates or computes may fail.                         *)
(***************************************************************************)
EXTENDS PagePool

CONSTANTS
    Requests,       \* requests, as numbers: the order of a batch
    Stream,         \* per request: its prompt and what the model will generate
    Prompt,         \* per request: the length of its prompt
    Quantum,        \* the most prompt tokens of one forward
    IndexCapacity   \* prefix_cache_budget_bytes, in pages

ASSUME CacheRuntimeAssumption ==
    /\ Requests \subseteq Nat /\ IsFiniteSet(Requests)
    /\ \A r \in Requests : Prompt[r] \in 1 .. Len(Stream[r])
    /\ Stream \in [Requests -> Seq(UNION {Range(Stream[r]) : r \in Requests})]
    /\ Quantum \in Nat \ {0} /\ IndexCapacity \in Nat

\* A CacheHandle, with its reservation.
Handle ==
    [caches : [Layers -> Cache], computed : Nat, requested : Nat, reserved : Nat, base : Nat,
     published : BOOLEAN, failed : BOOLEAN]

ASSUME NoHandle == None \notin Handle

VARIABLES
    pool,       \* block_pool
    index,      \* block_prefix._entries: the nodes, least recently used first
    handles,    \* per request: its CacheHandle, or None
    forward,    \* the forward under way
    cancelled   \* requests whose cancel flag is set

vars == <<pool, index, handles, forward, cancelled>>

Open == {r \in Requests : handles[r] # None}
Ready == {r \in Open : ~handles[r].failed}
Step(stage) == forward.stage = stage

-----------------------------------------------------------------------------
(* The prefix index.  A node is named by the tokens from the start, which  *)
(* the code hashes block by block.                                         *)

PathsOf(ix) == {ix[i].path : i \in DOMAIN ix}
Paths == PathsOf(index)
Prefix(tokens, k) == SubSeq(tokens, 1, k * PageTokens)
Parent(path) == SubSeq(path, 1, Len(path) - PageTokens)

\* _path: the longest chain of nodes that leaves a token of the prompt.
Matched(tokens) ==
    Max({k \in 0 .. ((Len(tokens) - 1) \div PageTokens) :
            \A j \in 1 .. k : Prefix(tokens, j) \in Paths})

Node(path) == CHOOSE e \in Range(index) : e.path = path
\* What stands at the places I of a list, in its order.
Part(list, I) ==
    LET nth(n) == CHOOSE i \in I : Cardinality({k \in I : k <= i}) = n
    IN  [n \in 1 .. Cardinality(I) |-> list[nth(n)]]

\* lookup moves the nodes of the chain to the recent end.
Touched(tokens, k) ==
    LET chain == [j \in 1 .. k |-> Node(Prefix(tokens, j))]
    IN  Part(index, {i \in DOMAIN index : index[i] \notin Range(chain)}) \o chain

\* The pages that some node holds (_pin_owners).  A page is pinned when it comes
\* to be one of them, and unpinned when it no longer is.
Stored(ix) == UNION {Range(ix[i].pages) : i \in DOMAIN ix}

Victims_Oldest(ix) == DOMAIN ix
\* Only a node without a child goes.
Victims(ix) == {i \in DOMAIN ix : ix[i].path \notin {Parent(ix[j].path) : j \in DOMAIN ix}}
EvictOne(s) ==
    LET rest == Part(s.index, DOMAIN s.index \ {Min(Victims(s.index))})
    IN  [pool |-> Unpinned(s.pool, Stored(s.index) \ Stored(rest)), index |-> rest]
\* _evict
Evicted(s) ==
    LET after[n \in 0 .. Len(s.index)] ==
            IF n = 0 THEN s
            ELSE IF Cardinality(Stored(after[n - 1].index)) > IndexCapacity THEN EvictOne(after[n - 1])
            ELSE after[n - 1]
    IN  after[Len(s.index)]

\* clear
Cleared(s) == [pool |-> Unpinned(s.pool, Stored(s.index)), index |-> <<>>]
\* clear_prefixes, then discard_free
Reclaimable(s) == [pool |-> DiscardFree(Cleared(s).pool), index |-> <<>>]

\* publish: a node for every complete page of the tokens that has none yet.
Published(s, tokens, caches) ==
    LET complete == Len(tokens) \div PageTokens
        nodes == [k \in 1 .. complete |->
                     [path |-> Prefix(tokens, k), pages |-> [l \in Layers |-> caches[l].pages[k]]]]
        added == Part(nodes, {k \in 1 .. complete : nodes[k].path \notin PathsOf(s.index)})
    IN  IF IndexCapacity = 0 THEN s
        ELSE Evicted([pool |-> Pinned(s.pool, Stored(added) \ Stored(s.index)),
                      index |-> s.index \o added])

-----------------------------------------------------------------------------
(* Handles and reservations.                                               *)

\* The pages that are set aside, one by one.
Outstanding ==
    Cardinality(UNION {{r} \X (1 .. handles[r].reserved) : r \in Open}) + forward.transient

Fits(p, amount) == amount <= Capacity - Physical(p) - Outstanding

\* The admission of reserve and transient_reservation: under memory pressure, or
\* when the amount does not fit, the prefixes and the free segments go first; the
\* host may have no room for it in either case.
Admission(s, amount) ==
    UNION {{[state |-> t, ok |-> FALSE],
            IF Fits(t.pool, amount) THEN [state |-> t, ok |-> TRUE]
            ELSE [state |-> Reclaimable(t), ok |-> Fits(Reclaimable(t).pool, amount)]}
              : t \in {s, Reclaimable(s)}}

CeilDiv(a, b) == (a + b - 1) \div b
\* estimate_growth: whole segments in every layer.
Growth(r, reused) ==
    CeilDiv(Len(Stream[r]) - reused, PageTokens * SegmentPages) * SegmentPages * Cardinality(Layers)

PagesOf(caches) == Cardinality(UNION {{l} \X DOMAIN caches[l].pages : l \in Layers})
Positive(n) == IF n > 0 THEN n ELSE 0

\* create_handle, adopt_prefix unless the request does not ask for it, and
\* reserve, in one turn of the request's iterator; its finally clause releases
\* the handle when the reservation is refused.
Start(r) ==
    /\ Step("idle") /\ handles[r] = None
    /\ \E k \in {0, Matched(SubSeq(Stream[r], 1, Prompt[r]))} :
       LET prompt == SubSeq(Stream[r], 1, Prompt[r])
           pages == [l \in Layers |-> [j \in 1 .. k |-> Node(Prefix(prompt, j)).pages[l]]]
           held == Acquired(pool, pages)
           caches == [l \in Layers |-> IF k = 0 THEN EmptyCache ELSE Adopted(held, pages[l])]
           amount == Growth(r, k * PageTokens)
       IN  \E a \in Admission([pool |-> held, index |-> Touched(prompt, k)], amount) :
             /\ index' = a.state.index
             /\ pool' = IF a.ok THEN a.state.pool ELSE Closed(a.state.pool, caches)
             /\ handles' = IF ~a.ok THEN handles ELSE [handles EXCEPT ![r] =
                  [caches |-> caches, computed |-> k * PageTokens, requested |-> amount,
                   reserved |-> amount, base |-> PagesOf(caches),
                   published |-> FALSE, failed |-> FALSE]]
             /\ cancelled' = cancelled \ {r}
    /\ UNCHANGED forward

Cancel(r) ==
    /\ r \in Open \ cancelled
    /\ cancelled' = cancelled \cup {r}
    /\ UNCHANGED <<pool, index, handles, forward>>

\* publish_prefix, when the iterator resumes behind its prompt.
Publish(r) ==
    /\ Step("idle") /\ r \in Ready \ cancelled
    /\ handles[r].computed = Prompt[r] /\ ~handles[r].published
    /\ \E s \in {Published([pool |-> pool, index |-> index],
                           SubSeq(Stream[r], 1, Prompt[r]), handles[r].caches)} :
          pool' = s.pool /\ index' = s.index
    /\ handles' = [handles EXCEPT ![r].published = TRUE]
    /\ UNCHANGED <<forward, cancelled>>

\* release: the reservation, then the pages, whenever the request's job ends.
End(r) ==
    /\ Step("idle") /\ r \in Open
    /\ pool' = Closed(pool, handles[r].caches)
    /\ handles' = [handles EXCEPT ![r] = None]
    /\ cancelled' = cancelled \ {r}
    /\ UNCHANGED <<index, forward>>

\* MemoryPressure.shed between forwards.
Shed ==
    /\ Step("idle")
    /\ \E s \in {Reclaimable([pool |-> pool, index |-> index])} :
          pool' = s.pool /\ index' = s.index
    /\ UNCHANGED <<handles, forward, cancelled>>

\* close: the handles, the prefixes, then the pool; the next model gets a new manager.
Close ==
    /\ Step("idle")
    /\ pool' = EmptyPool /\ index' = <<>>
    /\ handles' = [r \in Requests |-> None] /\ cancelled' = {}
    /\ UNCHANGED forward
-----------------------------------------------------------------------------
(* A forward of a batch.                                                   *)

Decoding(r) == handles[r].computed >= Prompt[r]
Tokens(r) == SubSeq(Stream[r], handles[r].computed + 1, handles[r].computed + forward.width[r])

MutableTails(group) ==
    Cardinality({x \in group \X Layers : ~LastSealed(pool, handles[x[1]].caches[x[2]])})
Transient_Pages(group) == MutableTails(group)
\* Of the temporary bytes of a forward, the segments that copies of the mutable
\* tails may need; the buffers of the kernels are left out.
Transient(group) == SegmentPages * MutableTails(group)

NoDrafts == [r \in Requests |-> <<>>]
Idle == [stage |-> "idle", group |-> {}, width |-> <<>>, transient |-> 0, drafts |-> NoDrafts,
         active |-> {}, accounts |-> <<>>]
Failed(group) == [r \in Requests |-> IF r \in group THEN [handles[r] EXCEPT !.failed = TRUE]
                                     ELSE handles[r]]

\* execute takes requests of one phase that have something to compute; a request
\* at the end of its prompt has published first.
Begin(group) ==
    /\ Step("idle") /\ group # {} /\ group \subseteq Ready \ cancelled
    /\ \A r \in group :
          /\ handles[r].computed < Len(Stream[r])
          /\ handles[r].computed = Prompt[r] => handles[r].published
          /\ \A o \in group : Decoding(o) <=> Decoding(r)
    /\ \E width \in [group -> 1 .. Quantum] :
          /\ \A r \in group : IF Decoding(r) THEN width[r] = 1
                              ELSE width[r] <= Prompt[r] - handles[r].computed
          /\ \E a \in Admission([pool |-> pool, index |-> index], Transient(group)) :
                /\ pool' = a.state.pool /\ index' = a.state.index
                /\ IF a.ok
                   THEN /\ forward' = [stage |-> "clone", group |-> group, width |-> width,
                                       transient |-> Transient(group), drafts |-> NoDrafts,
                                       active |-> {}, accounts |-> <<>>]
                        /\ UNCHANGED handles
                   ELSE /\ handles' = Failed(group)
                        /\ UNCHANGED forward
    /\ UNCHANGED cancelled

\* The drafts go (release_all), and the transient reservation with them; the
\* jobs of the batch end with the error.
Drop(p, drafts) ==
    Closed(p, [x \in {x \in Requests \X Layers : x[2] \in DOMAIN drafts[x[1]]} |-> drafts[x[1]][x[2]]])
Abort(p) ==
    /\ pool' = Drop(p, forward.drafts)
    /\ handles' = Failed(forward.group)
    /\ forward' = Idle

Cloning(r, l) ==
    /\ Len(forward.drafts[r]) = l - 1
    /\ \A o \in forward.group : o < r => Len(forward.drafts[o]) = Cardinality(Layers)

\* Every layer of every request is cloned, request by request; there is room for
\* the copies (ClonesFit).
Clone(r, l) ==
    /\ Step("clone") /\ r \in forward.group /\ Cloning(r, l)
    /\ \E a \in Cloned(pool, handles[r].caches[l], l) :
          /\ pool' = a.pool
          /\ forward' = [forward EXCEPT
                !.drafts[r] = Append(@, a.cache),
                !.stage = IF l = Cardinality(Layers) /\ r = Max(forward.group)
                          THEN "append" ELSE @]
    /\ UNCHANGED <<index, handles, cancelled>>

Behind(r, l) == handles[r].computed + forward.width[r] - forward.drafts[r][l].offset
Appending(r, l) ==
    /\ Behind(r, l) > 0
    /\ \A o \in forward.group : (o < r => Behind(o, l) = 0)
    /\ \A o \in forward.group, k \in Layers : k < l => Behind(o, k) = 0

\* The model's layers append to the drafts, layer by layer.
AppendPage(r, l) ==
    /\ Step("append") /\ r \in forward.group /\ Appending(r, l)
    /\ LET tokens == SubSeq(Tokens(r), Len(Tokens(r)) - Behind(r, l) + 1, Len(Tokens(r)))
           outcomes == Appended(pool, forward.drafts[r][l], l, tokens)
       IN  \/ \E a \in outcomes :
                 /\ pool' = a.pool
                 /\ forward' = [forward EXCEPT !.drafts[r][l] = a.cache]
                 /\ UNCHANGED handles
           \/ outcomes = {} /\ Abort(DiscardFree(pool))
    /\ UNCHANGED <<index, cancelled>>

\* The device fails before the commit, or the validation of the drafts does.
Crash ==
    /\ Step("clone") \/ Step("append")
    /\ Abort(pool)
    /\ UNCHANGED <<index, cancelled>>

\* Cancellation is looked at again behind the evaluation.
Committing == forward.group \ cancelled

Swapped(hs, drafts, active) ==
    [handles |-> [r \in Requests |-> IF r \in active THEN [hs[r] EXCEPT !.caches = drafts[r]]
                                     ELSE hs[r]],
     drafts |-> [r \in Requests |-> IF r \in active THEN hs[r].caches ELSE drafts[r]]]

\* commit_evaluated: originals and drafts swap what they own.
Commit ==
    /\ Step("append")
    /\ \A r \in forward.group, l \in Layers : Behind(r, l) = 0
    /\ LET s == Swapped(handles, forward.drafts, Committing)
       IN  /\ handles' = s.handles
           /\ forward' = [forward EXCEPT !.stage = "reconcile", !.drafts = s.drafts,
                              !.active = Committing,
                              !.accounts = [r \in Committing |->
                                  [computed |-> handles[r].computed,
                                   reserved |-> handles[r].reserved]]]
    /\ UNCHANGED <<pool, index, cancelled>>

\* The journal and the accounts, backwards; the batch fails.
RolledBack_Counters(r) ==
    [handles[r] EXCEPT !.caches = forward.drafts[r], !.failed = TRUE]
RolledBack(r) ==
    [handles[r] EXCEPT !.caches = forward.drafts[r], !.failed = TRUE,
                       !.computed = forward.accounts[r].computed,
                       !.reserved = forward.accounts[r].reserved]
Rollback ==
    LET taken == DOMAIN forward.accounts
    IN  /\ handles' = [r \in Requests |-> IF r \in taken THEN RolledBack(r)
                                          ELSE Failed(forward.group)[r]]
        /\ pool' = Drop(pool, [r \in Requests |-> IF r \in taken THEN handles[r].caches
                                                  ELSE forward.drafts[r]])
        /\ forward' = Idle

\* reconcile: what the request owns beyond its base comes off its reservation.
Remainder(h) == Positive(h.requested - Positive(PagesOf(h.caches) - h.base))
Reconcile(r) ==
    /\ Step("reconcile") /\ r \in forward.active
    /\ \A o \in forward.active : r <= o
    /\ \/ /\ handles' = [handles EXCEPT ![r].computed = handles[r].caches[1].offset,
                                        ![r].reserved = Remainder(handles[r])]
          /\ forward' = [forward EXCEPT !.active = @ \ {r}]
          /\ UNCHANGED pool
       \/ Rollback
    /\ UNCHANGED <<index, cancelled>>

\* The drafts, which own what the caches owned before, go; so does the transient reservation.
Finish ==
    /\ Step("reconcile") /\ forward.active = {}
    /\ pool' = Drop(pool, forward.drafts)
    /\ forward' = Idle
    /\ UNCHANGED <<index, handles, cancelled>>

-----------------------------------------------------------------------------
Init ==
    /\ pool = EmptyPool /\ index = <<>>
    /\ handles = [r \in Requests |-> None]
    /\ forward = Idle /\ cancelled = {}

Next ==
    \/ \E r \in Requests : Start(r) \/ Cancel(r) \/ Publish(r) \/ End(r) \/ Reconcile(r)
    \/ \E group \in SUBSET Requests : Begin(group)
    \/ \E r \in Requests, l \in Layers : Clone(r, l) \/ AppendPage(r, l)
    \/ Commit \/ Finish \/ Crash \/ Shed \/ Close

Spec == Init /\ [][Next]_vars

-----------------------------------------------------------------------------
(* Properties.                                                             *)

\* Everything that holds pages: the layers of the requests and of the drafts.
Owned(hs, drafts, kind, r) ==
    IF kind = "draft" THEN drafts[r] ELSE IF hs[r] = None THEN <<>> ELSE hs[r].caches
CachesOf(hs, drafts) ==
    [x \in {x \in {"request", "draft"} \X Requests \X Layers :
                x[3] \in DOMAIN Owned(hs, drafts, x[1], x[2])}
        |-> Owned(hs, drafts, x[1], x[2])[x[3]]]
Caches == CachesOf(handles, forward.drafts)

\* block_cache.py: a page has as many references as caches, drafts of a failed or
\* cancelled forward included, hold it, and a pin while the index names it.  So a
\* page that someone can reach is live, and one that nobody can is not.
RefsCounted ==
    LET lists == PagesIn(Caches)
    IN  /\ \A at \in Live(pool) :
              /\ pool.page[at].refs = Count(lists, at)
              /\ pool.page[at].pins = (IF at \in Stored(index) THEN 1 ELSE 0)
              /\ pool.page[at].refs + pool.page[at].pins > 0
        /\ Stored(index) \cup UNION {Range(lists[x]) : x \in DOMAIN lists} \subseteq Live(pool)

\* paged.py, arena.py: through its page table a layer reads the tokens it has
\* computed, however its pages are shared, copied, moved between drafts and
\* requests, or reused; and a page that can still be written has one holder.
TablesRead ==
    LET caches == Caches
    IN  /\ \A x \in DOMAIN caches :
              Reads(pool, caches[x]) = SubSeq(Stream[x[2]], 1, caches[x].offset)
        /\ \A at \in Live(pool) :
              ~pool.page[at].sealed => Count(PagesIn(caches), at) = 1 /\ at \notin Stored(index)

\* paged.py: what a forward has set aside is enough for the copies it starts with,
\* whatever other requests have reserved, hold or share: no request fails for want
\* of room before the model has run.
ClonesFit ==
    Step("clone") =>
        \A r \in forward.group, l \in Layers :
            Cloning(r, l) => Cloned(pool, handles[r].caches[l], l) # {}

\* prefix_cache.py: a node's parent is in the index, the pages of all its layers
\* are complete and hold the last tokens of its path, which is part of a prompt,
\* never of what was generated; evictions keep it so.
IndexSound ==
    \A i \in DOMAIN index :
        LET path == index[i].path
        IN  /\ Len(path) > PageTokens => Parent(path) \in Paths
            /\ \E r \in Requests : Len(path) <= Prompt[r] /\ path = SubSeq(Stream[r], 1, Len(path))
            /\ \A l \in Layers :
                  LET b == pool.page[index[i].pages[l]]
                  IN  b.sealed /\ b.layer = l
                        /\ b.data = SubSeq(path, Len(path) - PageTokens + 1, Len(path))

\* transactions.py: between forwards all layers of a request are at the position
\* its handle has, and its reservation is what it has not used of what it asked
\* for, also when the commit failed half way or another request of the batch did.
CommitWhole ==
    Step("idle") =>
        \A r \in Open :
            /\ \A l \in Layers : handles[r].caches[l].offset = handles[r].computed
            /\ handles[r].reserved = Remainder(handles[r])
=============================================================================
