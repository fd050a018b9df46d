--------------------------- MODULE ColdPrefixStore ---------------------------
(***************************************************************************)
(* The prefix tier on disk (engine/cold_prefix.py): a directory with one   *)
(* subdirectory per snapshot (a generation) and index.json, which names    *)
(* the ones that count.  Writers hold an exclusive file lock, readers a    *)
(* shared one.  A client, a thread or a process, may be cut off between    *)
(* any two file operations; the system then drops its lock.                *)
(*                                                                         *)
(* A definition Op_Fault is a faulty variant of Op, used to see that the   *)
(* properties notice.                                                      *)
(***************************************************************************)
EXTENDS Naturals, Sequences, SequencesExt, FiniteSets, FiniteSetsExt

CONSTANTS
    Keys,        \* fingerprints with their tokens
    Gens,        \* names of generations
    Clients,     \* threads and processes that use the directory
    None,        \* no index.json; no generation
    MaxEntries,  \* max_entries
    Budget,      \* budget_bytes
    Sizes        \* sizes of a generation on disk

ASSUME ColdPrefixAssumption ==
    /\ None \notin Gens \cup Keys \cup Seq([key : Keys, value : Gens, size : Sizes])
    /\ IsFiniteSet(Gens)
    /\ MaxEntries \in Nat \ {0} /\ Budget \in Nat \ {0} /\ Sizes \subseteq Nat

VARIABLES
    index,   \* the entries of index.json, oldest first; None: there is no such file
    disk,    \* per generation: "none", "part" (of its files), "full"
    junk,    \* 1: a crash has left a temporary file of the index, which nothing removes
    pc,      \* where a client is
    mine,    \* per client: the entry it is putting, or reading
    got,     \* per client: the generation it has read last
    torn,    \* generations whose put failed after it had replaced the index
    dirty    \* history: a call ended otherwise than by collecting what is not indexed

vars == <<index, disk, junk, pc, mine, got, torn, dirty>>

Records == [key : Keys, value : Gens, size : Sizes]
NoRecord == [key |-> None, value |-> None, size |-> 0]
Entries == IF index = None THEN <<>> ELSE index
Live == {Entries[i].value : i \in DOMAIN Entries}
OnDisk == {g \in Gens : disk[g] # "none"}

Writing == {"put", "save", "saved", "replace", "sync", "undo", "empty", "collect"}
Goto(c, l) == pc' = [pc EXCEPT ![c] = l]

\* _snapshot_lock
Exclusive == \A c \in Clients : pc[c] = "idle"
Shared_Always == TRUE
Shared == \A c \in Clients : pc[c] \notin Writing

\* _index raises when there is no index but anything else in the directory.
Usable == index # None \/ (OnDisk = {} /\ junk = 0)

-----------------------------------------------------------------------------
(* put.                                                                    *)

SizeOf(s) == MapThenSumSet(LAMBDA i : s[i].size, DOMAIN s)
Within(s) == Len(s) <= MaxEntries /\ SizeOf(s) <= Budget

\* The oldest go until the others fit.
Evicted(all) ==
    SubSeq(all, Min({m \in DOMAIN all : Within(SubSeq(all, m, Len(all)))}), Len(all))

Retained_Duplicates(r) == Evicted(Append(Entries, r))
\* The entries that stay, then the new one; at most one has its key.
Retained(r) == Evicted(Append(RemoveFirstMatch(Entries, LAMBDA e : e.key = r.key), r))

\* A uuid: no such directory, and nobody speaks of it.
Fresh(g) ==
    /\ disk[g] = "none" /\ g \notin Live
    /\ \A c \in Clients : mine[c].value # g

BeginPut(c, r) ==
    /\ Exclusive /\ Usable /\ Fresh(r.value)
    /\ Goto(c, "put") /\ mine' = [mine EXCEPT ![c] = r]
    /\ torn' = torn \ {r.value}
    /\ UNCHANGED <<index, disk, junk, got, dirty>>

\* save_snapshot creates the directory, then its files one by one.
Save(c) ==
    LET g == mine[c].value IN
    /\ \/ pc[c] = "put" /\ disk' = [disk EXCEPT ![g] = "part"] /\ Goto(c, "save")
       \/ pc[c] = "save" /\ disk' = [disk EXCEPT ![g] = "full"] /\ Goto(c, "saved")
    /\ UNCHANGED <<index, junk, mine, got, torn, dirty>>

\* An error, a snapshot that is too large, or a cancelled request; the temporary
\* index is removed.
Declines(c) ==
    /\ pc[c] \in {"put", "save", "saved", "replace"}
    /\ Goto(c, "undo")
    /\ UNCHANGED <<index, disk, junk, mine, got, torn, dirty>>

WriteIndex(c) ==
    /\ pc[c] = "saved" /\ mine[c].size <= Budget
    /\ Goto(c, "replace")
    /\ UNCHANGED <<index, disk, junk, mine, got, torn, dirty>>

\* os.replace: from now on the generation counts.
Replace(c) ==
    /\ pc[c] = "replace"
    /\ index' = Retained(mine[c])
    /\ Goto(c, "sync")
    /\ UNCHANGED <<disk, junk, mine, got, torn, dirty>>

\* The directory is synced; or that raises, and the put, which takes itself for
\* unpublished, removes the generation that the index names.
Sync(c) ==
    /\ pc[c] = "sync"
    /\ \/ Goto(c, "collect") /\ UNCHANGED torn
       \/ Goto(c, "undo") /\ torn' = torn \cup {mine[c].value}
    /\ UNCHANGED <<index, disk, junk, mine, got, dirty>>

Ends(c) == Goto(c, "idle") /\ mine' = [mine EXCEPT ![c] = NoRecord]

\* rmtree with errors ignored.
Undo(c) ==
    LET g == mine[c].value IN
    /\ pc[c] = "undo"
    /\ \/ disk' = [disk EXCEPT ![g] = "none"] /\ dirty' = (dirty \/ g \in torn)
       \/ /\ disk[g] # "none" /\ dirty' = TRUE
          /\ \E s \in {"part", disk[g]} : disk' = [disk EXCEPT ![g] = s]
    /\ Ends(c)
    /\ UNCHANGED <<index, junk, got, torn>>

Obsolete_Partial == {g \in OnDisk \ Live : disk[g] = "full"}
Obsolete == OnDisk \ Live

\* rmtree of what the index does not name: file by file, then the directory.
Collect(c) ==
    /\ pc[c] = "collect"
    /\ \E g \in Obsolete :
        disk' = [disk EXCEPT ![g] = IF disk[g] = "full" THEN "part" ELSE "none"]
    /\ UNCHANGED <<index, junk, pc, mine, got, torn, dirty>>

Collected(c) ==
    /\ pc[c] = "collect"
    /\ \/ Obsolete = {} /\ dirty' = FALSE
       \/ Obsolete # {} /\ dirty' = TRUE    \* rmtree raises
    /\ Ends(c)
    /\ UNCHANGED <<index, disk, junk, got, torn>>

-----------------------------------------------------------------------------
(* clear, lookup, crashes.                                                 *)

\* clear does not look at the index: it writes an empty one.
BeginClear(c) ==
    /\ Exclusive
    /\ Goto(c, "empty")
    /\ UNCHANGED <<index, disk, junk, mine, got, torn, dirty>>

\* The empty index takes the place of the old one; what is before that may raise,
\* and so may the sync after it.
Empty(c) ==
    /\ pc[c] = "empty"
    /\ \/ index' = <<>> /\ Goto(c, "collect") /\ UNCHANGED dirty
       \/ index' = <<>> /\ Goto(c, "idle") /\ dirty' = TRUE
       \/ Goto(c, "idle") /\ UNCHANGED <<index, dirty>>
    /\ UNCHANGED <<disk, junk, mine, got, torn>>

BeginLookup(c) ==
    /\ pc[c] = "idle" /\ Shared /\ Usable
    /\ \E i \in DOMAIN Entries : mine' = [mine EXCEPT ![c] = Entries[i]]
    /\ Goto(c, "read")
    /\ UNCHANGED <<index, disk, junk, got, torn, dirty>>

\* The files are read and checked; what is incomplete raises, and so may an error.
Read(c) ==
    LET g == mine[c].value IN
    /\ pc[c] = "read"
    /\ \/ disk[g] = "full" /\ got' = [got EXCEPT ![c] = g]
       \/ UNCHANGED got
    /\ Ends(c)
    /\ UNCHANGED <<index, disk, junk, torn, dirty>>

Crash(c) ==
    /\ pc[c] # "idle"
    /\ junk' \in IF pc[c] \in {"replace", "empty"} THEN {junk, 1} ELSE {junk}
    /\ dirty' = (dirty \/ pc[c] \in Writing)
    /\ Ends(c)
    /\ UNCHANGED <<index, disk, got, torn>>

-----------------------------------------------------------------------------
Init ==
    /\ index = None /\ disk = [g \in Gens |-> "none"] /\ junk = 0
    /\ pc = [c \in Clients |-> "idle"] /\ mine = [c \in Clients |-> NoRecord]
    /\ got = [c \in Clients |-> None] /\ torn = {} /\ dirty = FALSE

Next ==
    \E c \in Clients :
        \/ \E r \in Records : BeginPut(c, r)
        \/ Save(c) \/ Declines(c) \/ WriteIndex(c) \/ Replace(c) \/ Sync(c) \/ Undo(c)
        \/ Collect(c) \/ Collected(c)
        \/ BeginClear(c) \/ Empty(c) \/ BeginLookup(c) \/ Read(c) \/ Crash(c)

Spec == Init /\ [][Next]_vars

-----------------------------------------------------------------------------
(* Properties.                                                             *)

\* Whatever was cut off where, a generation that the index names, or that a reader
\* has been sent to, is complete, unless the put of it failed after it had
\* replaced the index (put, clear, lookup).
IndexBacked ==
    \A g \in Live \cup {mine[c].value : c \in {d \in Clients : pc[d] = "read"}} :
        g \in torn \/ disk[g] = "full"

\* After a put or a clear that ran to its end the generations on disk are those that
\* the index names, whatever earlier crashes and failures had left: the collecting
\* loops of put and clear miss none and spare those that are named.  Temporary index
\* files are not meant: the loops look at directories only, and junk stays.
GenerationsCollected == Exclusive /\ ~dirty => OnDisk \subseteq Live

Promise == INSTANCE PrefixStore WITH Values <- Gens, entries <- Entries

\* The store with its crashes implements the list it promises: a put or a clear
\* happens at once or not at all, entries stay within the limits, the oldest leave
\* first, and a reader gets a snapshot that is in the list.
Implements == Promise!Spec
=============================================================================
