--------------------------- MODULE BatchScheduler ---------------------------
(***************************************************************************)
(* What of the ready forward requests runs in a pass of the actor's loop   *)
(* (engine/batching.py, BatchScheduler.select), with jobs that come, fill  *)
(* their prompt chunk by chunk, generate and go.                           *)
(*                                                                         *)
(* The consumers keep up: a job in a slot is ready in every pass, at the   *)
(* place it has in _active.                                                *)
(***************************************************************************)
EXTENDS Integers, Sequences, SequencesExt, FiniteSets, FiniteSetsExt

CONSTANTS
    Jobs,               \* names of jobs; the name of one that has ended may come again
    MaxSequences,       \* max_sequences
    MaxScheduled,       \* max_scheduled_tokens
    MaxPrefill,         \* max_prefill_tokens
    Chunk,              \* prefill_chunk_size
    MaxPrompt           \* bound: tokens of a prompt that are not cached

VARIABLES
    active,         \* _active: per job the prompt tokens to compute, none when it decodes
    decodeCursor,   \* _decode_cursor
    prefillCursor,  \* _prefill_cursor
    turn,           \* _single_budget_turn
    selected        \* the jobs of the last pass

vars == <<active, decodeCursor, prefillCursor, turn, selected>>

\* The cursors count without end and are only looked at modulo a number of jobs,
\* so they may be kept modulo this.
Cycle == FoldSet(LAMBDA n, m : n * m, 1, 1 .. MaxSequences)

Quantum == Min({Chunk, MaxPrefill, Max({MaxScheduled \div 2, 1})})
Decodes == SelectSeq(active, LAMBDA a : a.left = 0)
Prefills == SelectSeq(active, LAMBDA a : a.left > 0)
\* The chunk of its prompt that a job asks for next.
Width(a) == Min({a.left, Quantum})

Rotated(s, cursor) ==
    IF s = <<>> THEN s
    ELSE LET at == cursor % Len(s) IN SubSeq(s, at + 1, Len(s)) \o SubSeq(s, 1, at)

\* Decodes and prefills take turns when there is one token for both.
Alternates == MaxScheduled = 1 /\ Decodes # <<>> /\ Prefills # <<>>

\* What the decodes leave to the prefills: the shortest of them, or every other token.
Reserved ==
    IF Alternates THEN (turn + 1) % 2
    ELSE IF Prefills = <<>> THEN 0
    ELSE Min({Width(Prefills[i]) : i \in DOMAIN Prefills} \cup {Quantum})

SelectedDecodes ==
    SubSeq(Rotated(Decodes, decodeCursor), 1,
           Min({Len(Decodes), MaxScheduled - Reserved}))

\* In the order of the rotation, every prefill that still fits.
SelectedPrefills ==
    LET queue == Rotated(Prefills, prefillCursor)
        fit[i \in 0 .. Len(queue)] ==
            IF i = 0 THEN [jobs |-> <<>>,
                           left |-> Min({MaxScheduled - Len(SelectedDecodes), MaxPrefill})]
            ELSE LET before == fit[i - 1] IN
                 IF Width(queue[i]) > before.left THEN before
                 ELSE [jobs |-> Append(before.jobs, queue[i]),
                       left |-> before.left - Width(queue[i])]
    IN  fit[Len(queue)].jobs

JobsOf(s) == {s[i].job : i \in DOMAIN s}

\* A job's state after a forward.
Forwarded(a) == [a EXCEPT !.left = @ - Width(a)]

\* A pass of the loop; of the jobs that are through their prompt, some have generated
\* their last token.
Pass ==
    /\ active # <<>>
    /\ \E decodes \in {SelectedDecodes}, prefills \in {SelectedPrefills} :
       LET chosen == JobsOf(decodes) \cup JobsOf(prefills)
           next == [i \in DOMAIN active |->
                      IF active[i].job \in chosen THEN Forwarded(active[i]) ELSE active[i]]
           through == {next[i].job : i \in {n \in DOMAIN next : next[n].left = 0}}
       IN  /\ selected' = chosen
           /\ \E ended \in SUBSET (chosen \cap through) :
                active' = SelectSeq(next, LAMBDA a : a.job \notin ended)
           /\ decodeCursor' = (decodeCursor + Len(decodes)) % Cycle
           /\ prefillCursor' = (prefillCursor + Max({Len(prefills), 1})) % Cycle
    /\ turn' = IF Alternates THEN (turn + 1) % 2 ELSE turn

\* Admission: a job takes a free slot.
Arrive(j, length) ==
    /\ j \notin JobsOf(active) /\ Len(active) < MaxSequences
    /\ active' = Append(active, [job |-> j, left |-> length])
    /\ selected' = selected \ {j}
    /\ UNCHANGED <<decodeCursor, prefillCursor, turn>>

Init ==
    /\ active = <<>> /\ selected = {}
    /\ decodeCursor = 0 /\ prefillCursor = 0 /\ turn = 0

Next == Pass \/ \E j \in Jobs, length \in 1 .. MaxPrompt : Arrive(j, length)

Spec == Init /\ [][Next]_vars
FairSpec == Spec /\ WF_vars(Pass)

-----------------------------------------------------------------------------
(* Properties.                                                             *)

PassedOver(j) == j \in JobsOf(Prefills) /\ j \notin selected

\* batching.py:82, "rotating prefill/decode fairness": a job that wants to go on
\* with its prompt is served, whatever comes and goes beside it.
PrefillServed == \A j \in Jobs : PassedOver(j) ~> ~PassedOver(j)
=============================================================================
