------------------------------ MODULE PagePool ------------------------------
(***************************************************************************)
(* The paged KV storage: a pool of pages counted by their owners           *)
(* (engine/block_cache.py) that live in segments of device memory          *)
(* (engine/arena.py), and the cache of one layer of one request, a list of *)
(* pages with the table the attention kernel reads them through            *)
(* (engine/block_kv.py, engine/paged.py).                                  *)
(*                                                                         *)
(* A pool is a value; an operation maps it to the next one, or to the set  *)
(* of its outcomes, which is empty when the code raises for lack of room.  *)
(* A page is named by its place, a segment and a slot.  The code adds a    *)
(* generation to the name, so that a name never comes back; that nobody    *)
(* holds the name of a page that is gone is one of the properties.         *)
(***************************************************************************)
EXTENDS Integers, Sequences, SequencesExt, FiniteSets, FiniteSetsExt, Functions

CONSTANTS
    Layers,        \* the layers of the model
    Segments,      \* names of segments, at least as many as the pool has room for
    SegmentPages,  \* SEGMENT_PAGES
    PageTokens,    \* block_tokens
    Capacity,      \* capacity_bytes, in pages
    None

ASSUME PagePoolAssumption ==
    /\ IsFiniteSet(Layers) /\ Layers = 1 .. Cardinality(Layers) /\ 1 \in Layers /\ None \notin Layers
    /\ Segments \subseteq Nat /\ IsFiniteSet(Segments)
    /\ {SegmentPages, PageTokens, Capacity} \subseteq Nat \ {0}
    /\ Capacity <= SegmentPages * Cardinality(Segments)

Places == Segments \X (1 .. SegmentPages)

\* page: the live blocks, by place.  seg: the layer (the layout) of a segment.
EmptyPool == [page |-> <<>>, seg |-> [s \in Segments |-> None]]

Live(p) == DOMAIN p.page
Vacant(p, s) == {k \in 1 .. SegmentPages : <<s, k>> \notin Live(p)}
Unused(p) == {s \in Segments : p.seg[s] = None}

\* allocated_nbytes: whole segments, whatever is in them.
Physical(p) == SegmentPages * Cardinality(Segments \ Unused(p))

WithPages(p, page) == [page |-> page, seg |-> p.seg]

\* discard_free gives up the segments without a page.
DiscardFree(p) ==
    [page |-> p.page,
     seg |-> [s \in Segments |-> IF Cardinality(Vacant(p, s)) = SegmentPages THEN None ELSE p.seg[s]]]

Block(l, data) == [layer |-> l, data |-> data, refs |-> 1, pins |-> 0, sealed |-> FALSE]
Placed(p, l, s, data) ==
    LET at == <<s, Min(Vacant(p, s))>>
    IN  [pool |-> [page |-> [a \in Live(p) \cup {at} |-> IF a = at THEN Block(l, data) ELSE p.page[a]],
                   seg |-> [p.seg EXCEPT ![s] = l]],
         at |-> at]

\* allocate: a vacant slot in a segment of the layer (the code takes the oldest
\* of them), or the first slot of a new segment if the capacity allows one.
Allocated(p, l, data) ==
    LET partial == {s \in Segments : p.seg[s] = l /\ Vacant(p, s) # {}}
        q == DiscardFree(p)
    IN  IF partial # {} THEN {Placed(p, l, s, data) : s \in partial}
        ELSE IF Physical(q) + SegmentPages > Capacity THEN {}
        ELSE {Placed(q, l, Min(Unused(q)), data)}

\* The places of some lists of pages at which a page stands.
Uses(lists, at) ==
    {x \in UNION {{n} \X DOMAIN lists[n] : n \in DOMAIN lists} : lists[x[1]][x[2]] = at}
Count(lists, at) == Cardinality(Uses(lists, at))

\* acquire, for every page of the lists
Acquired(p, lists) ==
    WithPages(p, [at \in Live(p) |-> [p.page[at] EXCEPT !.refs = @ + Count(lists, at)]])

Orphaned_Pinned(b) == b.refs = 0
Orphaned(b) == b.refs = 0 /\ b.pins = 0
\* _reclaim: the slot is vacant again, its segment is kept.
Reclaimed(p) ==
    WithPages(p, [at \in {a \in Live(p) : ~Orphaned(p.page[a])} |-> p.page[at]])
\* release, for every page of the lists
Released(p, lists) ==
    Reclaimed(WithPages(p, [at \in Live(p) |-> [p.page[at] EXCEPT !.refs = @ - Count(lists, at)]]))
Pinned(p, pages) ==
    WithPages(p, [at \in Live(p) |-> [p.page[at] EXCEPT !.pins = IF at \in pages THEN @ + 1 ELSE @]])
Unpinned(p, pages) ==
    Reclaimed(WithPages(p,
        [at \in Live(p) |-> [p.page[at] EXCEPT !.pins = IF at \in pages THEN @ - 1 ELSE @]]))

-----------------------------------------------------------------------------
(* The cache of a layer.                                                   *)

Cache == [pages : Seq(Places), table : Seq([at : Places, count : Nat]), offset : Nat]
EmptyCache == [pages |-> <<>>, table |-> <<>>, offset |-> 0]

Row(p, at) == [at |-> at, count |-> Len(p.page[at].data)]
LastSealed(p, c) == c.pages = <<>> \/ p.page[Last(c.pages)].sealed

\* reset, release: of the caches of several layers
PagesIn(caches) == [n \in DOMAIN caches |-> caches[n].pages]
Closed(p, caches) == Released(p, PagesIn(caches))

\* adopt: references that lookup has acquired.
Adopted(p, pages) ==
    [pages |-> pages, table |-> [i \in DOMAIN pages |-> Row(p, pages[i])],
     offset |-> PageTokens * Len(pages)]

\* clone: sealed pages are shared, a tail that can still grow is copied.
Cloned_Shared(p, c, l) == {[pool |-> Acquired(p, <<c.pages>>), cache |-> c]}
Cloned(p, c, l) ==
    IF LastSealed(p, c) THEN {[pool |-> Acquired(p, <<c.pages>>), cache |-> c]}
    ELSE {[pool |-> a.pool,
           cache |-> [c EXCEPT !.pages = Append(Front(c.pages), a.at),
                               !.table = Append(Front(c.table), Row(a.pool, a.at))]]
             : a \in Allocated(Acquired(p, <<Front(c.pages)>>), l, p.page[Last(c.pages)].data)}

\* One turn of append's loop: what fits of the tokens goes to the tail, or to a
\* new page behind a sealed one; a page that is full is sealed.
Filled(a, c, tokens) ==
    LET b == a.pool.page[a.at]
        width == Min({PageTokens - Len(b.data), Len(tokens)})
        grown == b.data \o SubSeq(tokens, 1, width)
        q == WithPages(a.pool, [a.pool.page EXCEPT ![a.at] =
                 [b EXCEPT !.data = grown, !.sealed = (Len(grown) = PageTokens)]])
        kept(list) == IF b.data = <<>> THEN list ELSE Front(list)
    IN  [pool |-> q, cache |-> [pages |-> Append(kept(c.pages), a.at),
                                table |-> Append(kept(c.table), Row(q, a.at)),
                                offset |-> c.offset + width]]
Appended(p, c, l, tokens) ==
    {Filled(a, c, tokens) : a \in IF LastSealed(p, c) THEN Allocated(p, l, <<>>)
                                  ELSE {[pool |-> p, at |-> Last(c.pages)]}}

\* What the attention kernel reads through the table.
Reads(p, c) ==
    FlattenSeq([i \in DOMAIN c.table |->
                   SubSeq(p.page[c.table[i].at].data, 1, c.table[i].count)])
=============================================================================
