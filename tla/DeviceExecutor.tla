--------------------------- MODULE DeviceExecutor ---------------------------
(***************************************************************************)
(* The device owner (engine/device_executor.py): one thread runs every     *)
(* operation on the device.  Operations wait in a queue per model key; the *)
(* thread takes one from the first key of an ordered dictionary and puts   *)
(* the key back at the end.  An operation that calls the executor again is *)
(* run at once, by the thread that already owns the device.                *)
(*                                                                         *)
(* A definition Op_Fault is a faulty variant of Op, used to see that the   *)
(* properties notice.                                                      *)
(***************************************************************************)
EXTENDS Naturals, Sequences, SequencesExt, FiniteSets

CONSTANTS
    Keys,       \* model keys
    Ops,        \* operations
    KeyOf,      \* the key each operation is submitted under
    QueueSize   \* queue_size

ASSUME DeviceExecutorAssumption ==
    /\ IsFiniteSet(Keys) /\ IsFiniteSet(Ops)
    /\ KeyOf \in [Ops -> Keys] /\ QueueSize \in Nat \ {0}

VARIABLES
    queues,     \* _queues: per key, the operations waiting
    order,      \* the keys of _queues, in the order of the dictionary
    pending,    \* _pending
    closed,     \* _closed
    taken,      \* the operation taken from its queue and not yet run, as a set
    running,    \* the operation on the device and those it called, innermost last
    stopped,    \* the thread has ended
    status,     \* per operation: "new", "refused", "queued", "running", its answer
    cancel,     \* operations whose cancel event is set
    earlier,    \* history: per operation, those of its key queued when it was submitted
    passed      \* history: per key that waits, the keys served meanwhile, with how often

vars == <<queues, order, pending, closed, taken, running, stopped, status, cancel, earlier, passed>>
history == <<earlier, passed>>

Answers == {"done", "failed", "cancelled"}
Becomes(o, s) == status' = [status EXCEPT ![o] = s]

-----------------------------------------------------------------------------
(* Submitters.                                                             *)

AddKey(k) == IF k \in ToSet(order) THEN order ELSE Append(order, k)

Submit(o) ==
    LET k == KeyOf[o] IN
    /\ status[o] = "new"
    /\ IF closed \/ pending >= QueueSize
       THEN Becomes(o, "refused") /\ UNCHANGED <<queues, order, pending, history>>
       ELSE /\ queues' = [queues EXCEPT ![k] = Append(@, o)]
            /\ order' = AddKey(k)
            /\ pending' = pending + 1
            /\ Becomes(o, "queued")
            /\ earlier' = [earlier EXCEPT ![o] = ToSet(queues[k])]
            /\ passed' = IF queues[k] = <<>> THEN [passed EXCEPT ![k] = [m \in Keys |-> 0]]
                                             ELSE passed
    /\ UNCHANGED <<closed, taken, running, stopped, cancel>>

\* The submitter sets the cancel event of the operation; once it runs, that has no
\* effect.
Cancel(o) ==
    /\ status[o] \in {"new", "queued"} /\ o \notin cancel
    /\ cancel' = cancel \cup {o}
    /\ UNCHANGED <<queues, order, pending, closed, taken, running, stopped, status, history>>

\* Future.cancel: only before the operation runs.
Withdraw(o) ==
    /\ status[o] = "queued"
    /\ Becomes(o, "cancelled")
    /\ UNCHANGED <<queues, order, pending, closed, taken, running, stopped, cancel, history>>

Close ==
    /\ ~closed
    /\ closed' = TRUE
    /\ UNCHANGED <<queues, order, pending, taken, running, stopped, status, cancel, history>>

-----------------------------------------------------------------------------
(* The device thread.                                                      *)

Served_Kept(k, rest) == Append(Tail(order), k)
Served_First(k, rest) == IF rest = <<>> THEN Tail(order) ELSE order
\* The key goes to the end of the dictionary, or out of it.
Served(k, rest) == IF rest = <<>> THEN Tail(order) ELSE Append(Tail(order), k)

Popped_Last(q) == <<Last(q), Front(q)>>
\* popleft: the operation, and what is left of the queue.
Popped(q) == <<Head(q), Tail(q)>>

\* Under the lock: one operation of the first key.
Take ==
    LET k == Head(order)
        o == Popped(queues[k])[1]
        rest == Popped(queues[k])[2] IN
    /\ ~stopped /\ taken = {} /\ running = <<>> /\ pending > 0
    /\ queues' = [queues EXCEPT ![k] = rest]
    /\ order' = Served(k, rest)
    /\ pending' = pending - 1
    /\ taken' = {o}
    /\ passed' = [m \in Keys |-> IF m = k THEN [n \in Keys |-> 0]
                                 ELSE IF queues[m] # <<>> THEN [passed[m] EXCEPT ![k] = @ + 1]
                                 ELSE passed[m]]
    /\ UNCHANGED <<closed, running, stopped, status, cancel, earlier>>

\* Outside it: a withdrawn operation is skipped, a cancelled one is answered.
Start(o) ==
    /\ o \in taken
    /\ taken' = {}
    /\ \/ status[o] = "cancelled" /\ UNCHANGED <<running, status>>
       \/ status[o] = "queued" /\ o \in cancel /\ Becomes(o, "cancelled") /\ UNCHANGED running
       \/ status[o] = "queued" /\ o \notin cancel /\ Becomes(o, "running") /\ running' = <<o>>
    /\ UNCHANGED <<queues, order, pending, closed, stopped, cancel, history>>

\* A call made by the operation on the device: run inline, unless it is cancelled.
Nested(o) ==
    /\ IF o \in cancel THEN Becomes(o, "cancelled") /\ UNCHANGED running
                       ELSE Becomes(o, "running") /\ running' = Append(running, o)
    /\ UNCHANGED <<queues, order, pending>>

Nest(o) ==
    /\ running # <<>> /\ status[o] = "new"
    /\ Nested(o)
    /\ UNCHANGED <<closed, taken, stopped, cancel, history>>

\* The innermost operation returns, or it or its evaluation raises.
Finish ==
    LET o == Last(running) IN
    /\ running # <<>> /\ status[o] = "running"
    /\ \E a \in {"done", "failed"} : Becomes(o, a)
    /\ running' = Front(running)
    /\ UNCHANGED <<queues, order, pending, closed, taken, stopped, cancel, history>>

MayStop == closed /\ pending = 0

Stop ==
    /\ ~stopped /\ taken = {} /\ running = <<>> /\ MayStop
    /\ stopped' = TRUE
    /\ UNCHANGED <<queues, order, pending, closed, taken, running, status, cancel, history>>

-----------------------------------------------------------------------------
Init ==
    /\ queues = [k \in Keys |-> <<>>] /\ order = <<>> /\ pending = 0
    /\ closed = FALSE /\ taken = {} /\ running = <<>> /\ stopped = FALSE
    /\ status = [o \in Ops |-> "new"] /\ cancel = {}
    /\ earlier = [o \in Ops |-> {}]
    /\ passed = [k \in Keys |-> [m \in Keys |-> 0]]

Device == Take \/ (\E o \in Ops : Start(o) \/ Nest(o)) \/ Finish \/ Stop

Next == Device \/ Close \/ \E o \in Ops : Submit(o) \/ Cancel(o) \/ Withdraw(o)

Spec == Init /\ [][Next]_vars

-----------------------------------------------------------------------------
(* Properties.                                                             *)

Waits(o) == o \in ToSet(queues[KeyOf[o]])

\* Every variable has its type; the dictionary holds the keys that have
\* operations waiting, once each, and _pending counts the operations.
TypeOK ==
    /\ queues \in [Keys -> Seq(Ops)]
    /\ order \in Seq(Keys) /\ IsInjective(order)
    /\ ToSet(order) = {k \in Keys : queues[k] # <<>>}
    /\ pending = Cardinality({o \in Ops : Waits(o)}) /\ pending <= QueueSize
    /\ closed \in BOOLEAN /\ stopped \in BOOLEAN
    /\ taken \subseteq Ops /\ running \in Seq(Ops)
    /\ status \in [Ops -> Answers \cup {"new", "refused", "queued", "running"}]
    /\ cancel \subseteq Ops
    /\ earlier \in [Ops -> SUBSET Ops] /\ passed \in [Keys -> [Keys -> Nat]]

\* Operations of one model run in the order they were submitted in, whatever is
\* withdrawn or cancelled in between: a request's passes are never reordered.
KeyOrder == \A o \in Ops : status[o] # "new" /\ ~Waits(o) => \A p \in earlier[o] : ~Waits(p)

\* While a model waits for the device, every other model is served once at most
\* ("fair" in the module's first line), however many operations it has queued.
BypassOnce == \A k, m \in Keys : queues[k] # <<>> => passed[k][m] <= 1
=============================================================================
