----------------------------- MODULE PrefixStore -----------------------------
(***************************************************************************)
(* What the prefix tier on disk promises: a bounded list of snapshots, the *)
(* most recent last, that calls change and read one at a time.  A call     *)
(* that fails or is cut off by a crash has either happened or not.         *)
(***************************************************************************)
EXTENDS Naturals, Sequences, SequencesExt, FiniteSetsExt

CONSTANTS
    Keys,        \* fingerprints with their tokens
    Values,      \* snapshots
    Clients,     \* callers
    None,        \* nothing read yet
    MaxEntries,  \* limits of the store
    Budget,
    Sizes        \* sizes of snapshots

VARIABLES
    entries,     \* what is stored, oldest first
    got          \* per client, the snapshot it has read last

Entries == [key : Keys, value : Values, size : Sizes]

SizeOf(s) == MapThenSumSet(LAMBDA i : s[i].size, DOMAIN s)
Within(s) == Len(s) <= MaxEntries /\ SizeOf(s) <= Budget

Others(k) == RemoveFirstMatch(entries, LAMBDA e : e.key = k)

\* The new snapshot replaces the one with its key; the oldest make room for it.
Put(e) ==
    /\ \A i \in DOMAIN entries : entries[i].value # e.value
    /\ LET all == Append(Others(e.key), e) IN
        \E m \in DOMAIN all :
            /\ entries' = SubSeq(all, m, Len(all)) /\ Within(entries')
            /\ m > 1 => ~Within(SubSeq(all, m - 1, Len(all)))
    /\ UNCHANGED got

Clear == entries' = <<>> /\ UNCHANGED got

Read(c) ==
    /\ \E i \in DOMAIN entries : got' = [got EXCEPT ![c] = entries[i].value]
    /\ UNCHANGED entries

Init == entries = <<>> /\ got = [c \in Clients |-> None]

Next == Clear \/ (\E e \in Entries : Put(e)) \/ (\E c \in Clients : Read(c))

Spec == Init /\ [][Next]_<<entries, got>>
=============================================================================
