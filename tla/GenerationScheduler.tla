------------------------ MODULE GenerationScheduler ------------------------
(***************************************************************************)
(* The server's cooperative scheduler (server/scheduler.py): a bounded     *)
(* FIFO of generation jobs and lifecycle calls, one worker thread that     *)
(* rotates over a few slots, and close, which may run at any moment.       *)
(*                                                                         *)
(* Nothing here is under a lock: clients, closers and the worker share     *)
(* _closed, _active, _active_jobs, _deferred_call and a thread-safe queue, *)
(* so each access to one of them is a step.  A turn of a job on the device *)
(* (_step) touches only the job and is one step.                           *)
(*                                                                         *)
(* A definition Op_Fault is a faulty variant of Op, used to see that the   *)
(* properties notice.                                                      *)
(***************************************************************************)
EXTENDS Naturals, Sequences, SequencesExt, FiniteSets

CONSTANTS
    Jobs, Calls,   \* generation requests and lifecycle calls
    Closers,       \* threads that call close
    Sentinel,      \* the None that close puts in the queue
    MaxPending,    \* capacity of the queue
    Parallel,      \* slots
    Timed,         \* jobs and calls that have a deadline
    MaxItems,      \* bound: items of one job
    MaxRetries     \* bound: turns in which admission or the cache makes a job wait

ASSUME GenerationSchedulerAssumption ==
    /\ IsFiniteSet(Jobs) /\ IsFiniteSet(Calls) /\ Jobs \cap Calls = {}
    /\ Sentinel \notin Jobs \cup Calls
    /\ MaxPending \in Nat \ {0} /\ Parallel \in Nat \ {0}
    /\ Timed \subseteq Jobs \cup Calls /\ MaxItems \in Nat /\ MaxRetries \in Nat

VARIABLES
    queue,      \* _jobs
    slots,      \* _active_jobs, in order of their next turn
    hand,       \* the job popped from it, as a set of at most one
    deferred,   \* _deferred_call, as a set of at most one
    calling,    \* the call the worker has taken, as a set of at most one
    closed,     \* _closed
    pc,         \* where the worker is
    closer,     \* per closer: where it is in close
    status,     \* per job and call: "new", "checked", "waiting", and its answer
    slot,       \* per job: slot_id
    started,    \* jobs that have an iterator
    open,       \* per job: iterators created and not closed
    admitted,   \* jobs whose admission has been decided
    items,      \* per job: items put
    retries,    \* per job: turns spent waiting
    cancel,     \* jobs whose cancel event is set
    late,       \* jobs and calls whose deadline has passed
    behind      \* history: per job, the calls not yet answered when it was accepted

work == <<slots, hand, deferred, calling, pc>>
jobs == <<slot, started, open, admitted, items, retries>>
flags == <<cancel, late>>
vars == <<queue, work, closed, closer, status, jobs, flags, behind>>

Requests == Jobs \cup Calls
Answers == {"done", "failed", "stopped"}
Waiting(r) == status[r] = "waiting"
Answer(r, a) == status' = [status EXCEPT ![r] = a]

-----------------------------------------------------------------------------
(* Clients.                                                                *)

\* schedule and execute look at _closed first ...
Check(r) ==
    /\ status[r] = "new"
    /\ Answer(r, IF closed THEN "refused" ELSE "checked")
    /\ UNCHANGED <<queue, work, closed, closer, jobs, flags, behind>>

\* ... and put the request in the queue, unless it is full, in a step of their own.
Put(r) ==
    /\ status[r] = "checked"
    /\ IF Len(queue) < MaxPending
       THEN /\ queue' = Append(queue, r)
            /\ Answer(r, "waiting")
            /\ behind' = IF r \in Jobs THEN [behind EXCEPT ![r] = {c \in Calls : Waiting(c)}]
                                       ELSE behind
       ELSE Answer(r, "refused") /\ UNCHANGED <<queue, behind>>
    /\ UNCHANGED <<work, closed, closer, jobs, flags>>

Expire(r) ==
    /\ r \in Timed \ late /\ Waiting(r)
    /\ late' = late \cup {r}
    /\ UNCHANGED <<queue, work, closed, closer, status, jobs, cancel, behind>>

\* The consumer closes the stream.
Abandon(j) ==
    /\ Waiting(j) /\ j \notin cancel
    /\ cancel' = cancel \cup {j}
    /\ UNCHANGED <<queue, work, closed, closer, status, jobs, late, behind>>

-----------------------------------------------------------------------------
(* The worker.                                                             *)

Goto(l) == pc' = l
Apart == UNCHANGED <<closer, flags, behind>>

FreeSlot_First == 0
\* The lowest slot that no job in a slot uses.
FreeSlot ==
    CHOOSE i \in 0 .. Parallel - 1 :
        /\ \A n \in DOMAIN slots : slot[slots[n]] # i
        /\ \A k \in 0 .. i - 1 : \E n \in DOMAIN slots : slot[slots[n]] = k

Seat(j) ==
    /\ slots' = Append(slots, j)
    /\ slot' = [slot EXCEPT ![j] = FreeSlot]
    /\ UNCHANGED <<started, open, admitted, items, retries>>

MayFill_Past == Len(slots) < Parallel /\ queue # <<>>
\* A deferred call keeps the queue shut.
MayFill == deferred = {} /\ Len(slots) < Parallel /\ queue # <<>>

Begin ==
    /\ pc = "loop" /\ slots # <<>>
    /\ Goto("fill")
    /\ Apart /\ UNCHANGED <<queue, slots, hand, deferred, calling, closed,
                            status, jobs>>

\* _fill_active: jobs take free slots; a call waits for the slots to empty.
Fill ==
    LET r == Head(queue) IN
    /\ pc = "fill" /\ MayFill
    /\ queue' = Tail(queue)
    /\ \/ r \in Jobs /\ Seat(r) /\ UNCHANGED <<pc, deferred, closed>>
       \/ r \in Calls /\ deferred' = {r} /\ Goto("pop") /\ UNCHANGED <<slots, closed, jobs>>
       \/ r = Sentinel /\ closed' = TRUE /\ Goto("pop") /\ UNCHANGED <<slots, deferred, jobs>>
    /\ Apart /\ UNCHANGED <<hand, calling, status>>

\* The first job of the deque is popped ...
Pop ==
    /\ pc = "pop" \/ (pc = "fill" /\ ~MayFill)
    /\ hand' = {Head(slots)} /\ slots' = Tail(slots)
    /\ Goto("popped")
    /\ Apart /\ UNCHANGED <<queue, deferred, calling, closed, status, jobs>>

\* ... and only then stored in _active.
Show ==
    /\ pc = "popped"
    /\ Goto("step")
    /\ Apart /\ UNCHANGED <<queue, slots, hand, deferred, calling, closed, status, jobs>>

Unhand == hand' = {} /\ Goto("loop")

Kept_Dropped(j) == slots' = slots
Kept(j) == slots' = Append(slots, j)

\* _step returns True: the job goes behind the others.
Stays(j) ==
    /\ Kept(j) /\ Unhand
    /\ Apart /\ UNCHANGED <<queue, deferred, calling, closed, status, slot>>

\* _step returns False: the job's iterator is closed, then the job is answered.
Ends(j, a) ==
    /\ open' = [open EXCEPT ![j] = IF j \in started THEN @ - 1 ELSE @]
    /\ started' = started \ {j}
    /\ Answer(j, a)
    /\ Unhand
    /\ Apart /\ UNCHANGED <<queue, slots, deferred, calling, closed,
                            slot, admitted, items, retries>>

Turn(j) == pc = "step" /\ hand = {j}
Wanted(j) == j \notin cancel /\ j \notin late

Cancelled(j) == Turn(j) /\ j \in cancel /\ \E a \in {"done", "failed"} : Ends(j, a)

TimesOut(j) == Turn(j) /\ j \in late \ cancel /\ Ends(j, "failed")

\* Admission control lets the job wait.
Postpone(j) ==
    /\ Turn(j) /\ Wanted(j) /\ j \notin admitted /\ retries[j] < MaxRetries
    /\ retries' = [retries EXCEPT ![j] = @ + 1]
    /\ Stays(j)
    /\ UNCHANGED <<started, open, admitted, items>>

\* The iterator, created by the first turn, yields an item.
Yield(j) ==
    /\ Turn(j) /\ Wanted(j) /\ items[j] < MaxItems
    /\ admitted' = admitted \cup {j}
    /\ started' = started \cup {j}
    /\ open' = [open EXCEPT ![j] = IF j \in started THEN @ ELSE @ + 1]
    /\ items' = [items EXCEPT ![j] = @ + 1]
    /\ Stays(j)
    /\ UNCHANGED retries

Reset_Open(j) == IF j \in started THEN open[j] ELSE open[j] + 1
Reset(j) == IF j \in started THEN open[j] - 1 ELSE open[j]
\* Before its first item a job that finds the cache full starts over.
StartOver(j) ==
    /\ Turn(j) /\ Wanted(j) /\ items[j] = 0 /\ retries[j] < MaxRetries
    /\ admitted' = admitted \cup {j}
    /\ started' = started \ {j}
    /\ open' = [open EXCEPT ![j] = Reset(j)]
    /\ retries' = [retries EXCEPT ![j] = @ + 1]
    /\ Stays(j)
    /\ UNCHANGED items

\* The iterator is exhausted, or it, the factory or admission raises.
Complete(j) == Turn(j) /\ Wanted(j) /\ \E a \in {"done", "failed"} : Ends(j, a)

\* What escapes _step (an error while disposing, a full device queue) ends the thread.
Break(j) ==
    /\ Turn(j)
    /\ Goto("dead")
    /\ Apart /\ UNCHANGED <<queue, slots, hand, deferred, calling, closed, status, jobs>>

Idle_Deferred == pc = "loop" /\ (slots = <<>> \/ deferred # {})
Idle == pc = "loop" /\ slots = <<>>

\* Nothing is in a slot: leave if closed ...
Leave ==
    /\ Idle /\ closed
    /\ Goto("exited")
    /\ Apart /\ UNCHANGED <<queue, slots, hand, deferred, calling, closed, status, jobs>>

\* ... or look for work; close may come in between.
Stay ==
    /\ Idle /\ ~closed
    /\ Goto("idle")
    /\ Apart /\ UNCHANGED <<queue, slots, hand, deferred, calling, closed,
                            status, jobs>>

\* A call has been deferred: it is taken, and _deferred_call reset, in steps of their
\* own ...
FindDeferred ==
    /\ pc = "idle" /\ deferred # {}
    /\ Goto("take")
    /\ Apart /\ UNCHANGED <<queue, slots, hand, deferred, calling, closed, status, jobs>>

\* ... before which close may have forgotten it: the worker dies of the None it gets.
TakeDeferred ==
    /\ pc = "take"
    /\ calling' = deferred
    /\ Goto(IF deferred = {} THEN "dead" ELSE "drop")
    /\ Apart /\ UNCHANGED <<queue, slots, hand, deferred, closed, status, jobs>>

DropDeferred ==
    /\ pc = "drop"
    /\ deferred' = {}
    /\ Goto("call")
    /\ Apart /\ UNCHANGED <<queue, slots, hand, calling, closed, status, jobs>>

\* _jobs.get, which blocks while the queue is empty.
Get ==
    LET r == Head(queue) IN
    /\ pc = "idle" /\ deferred = {} /\ queue # <<>>
    /\ queue' = Tail(queue)
    /\ \/ r \in Jobs /\ Seat(r) /\ Goto("loop") /\ UNCHANGED calling
       \/ r \in Calls /\ calling' = {r} /\ Goto("call") /\ UNCHANGED <<slots, jobs>>
       \/ r = Sentinel /\ Goto("exited") /\ UNCHANGED <<slots, jobs, calling>>
    /\ Apart /\ UNCHANGED <<hand, deferred, closed, status>>

\* A call past its deadline does not run.
BeginCall ==
    /\ pc = "call"
    /\ IF calling \cap late = {} THEN Goto("running") ELSE Goto("answer")
    /\ Apart /\ UNCHANGED <<queue, slots, hand, deferred, calling, closed,
                            status, jobs>>

\* Its Future may already hold close's error: the second answer ends the thread.
EndCall ==
    /\ pc \in {"running", "answer"}
    /\ \E c \in calling :
        \/ /\ Waiting(c)
           /\ \E a \in {"done", "failed"} : (a = "done" => pc = "running") /\ Answer(c, a)
           /\ Goto("loop")
        \/ ~Waiting(c) /\ Goto("dead") /\ UNCHANGED status
    /\ calling' = {}
    /\ Apart /\ UNCHANGED <<queue, slots, hand, deferred, closed, jobs>>

-----------------------------------------------------------------------------
(* close.                                                                  *)

\* Is the job in hand stored in _active?
Shown == hand # {} /\ pc # "popped"

At(k, l) == closer[k] = l
Moves(k, l) ==
    /\ closer' = [closer EXCEPT ![k] = l]
    /\ UNCHANGED <<slots, hand, calling, pc, jobs, late, behind>>

BeginClose(k) ==
    /\ At(k, "out") /\ ~closed
    /\ Moves(k, "begin")
    /\ UNCHANGED <<queue, deferred, closed, status, cancel>>

SetClosed(k) ==
    /\ At(k, "begin")
    /\ closed' = TRUE
    /\ Moves(k, "active")
    /\ UNCHANGED <<queue, deferred, status, cancel>>

LookActive(k) ==
    /\ At(k, "active")
    /\ Moves(k, IF Shown THEN "cancel" ELSE "slots")
    /\ UNCHANGED <<queue, deferred, closed, status, cancel>>

\* _active may be None again: close raises and goes no further.
CancelActive(k) ==
    /\ At(k, "cancel")
    /\ IF Shown THEN Moves(k, "slots") /\ cancel' = cancel \cup hand
                ELSE Moves(k, "raised") /\ UNCHANGED cancel
    /\ UNCHANGED <<queue, deferred, closed, status>>

CancelSlots(k) ==
    /\ At(k, "slots")
    /\ cancel' = cancel \cup ToSet(slots)
    /\ Moves(k, "deferred")
    /\ UNCHANGED <<queue, deferred, closed, status>>

LookDeferred(k) ==
    /\ At(k, "deferred")
    /\ Moves(k, IF deferred = {} THEN "drain" ELSE "stop")
    /\ UNCHANGED <<queue, deferred, closed, status, cancel>>

\* The worker may have taken the call, another close may have answered it.
StopDeferred(k) ==
    /\ At(k, "stop")
    /\ \/ \E c \in deferred : Waiting(c) /\ Answer(c, "stopped") /\ Moves(k, "forget")
       \/ (\A c \in deferred : ~Waiting(c)) /\ Moves(k, "raised") /\ UNCHANGED status
    /\ UNCHANGED <<queue, deferred, closed, cancel>>

ForgetDeferred(k) ==
    /\ At(k, "forget")
    /\ deferred' = {}
    /\ Moves(k, "drain")
    /\ UNCHANGED <<queue, closed, status, cancel>>

Drain(k) ==
    LET r == Head(queue) IN
    /\ At(k, "drain") /\ queue # <<>>
    /\ queue' = Tail(queue)
    /\ IF r = Sentinel THEN UNCHANGED status ELSE Answer(r, "stopped")
    /\ cancel' = cancel \cup ({r} \cap Jobs)
    /\ Moves(k, "drain")
    /\ UNCHANGED <<deferred, closed>>

Mark_None == UNCHANGED queue
\* The sentinel is left out when the queue has filled up again.
Mark == queue' = IF Len(queue) < MaxPending THEN Append(queue, Sentinel) ELSE queue

Drained(k) ==
    /\ At(k, "drain") /\ queue = <<>>
    /\ Moves(k, "mark")
    /\ UNCHANGED <<queue, deferred, closed, status, cancel>>

\* What follows is join, for five seconds at most.
PutSentinel(k) ==
    /\ At(k, "mark")
    /\ Mark
    /\ Moves(k, "joined")
    /\ UNCHANGED <<deferred, closed, status, cancel>>

-----------------------------------------------------------------------------
Init ==
    /\ queue = <<>> /\ slots = <<>> /\ hand = {} /\ deferred = {} /\ calling = {}
    /\ closed = FALSE /\ pc = "loop"
    /\ closer = [k \in Closers |-> "out"] /\ status = [r \in Requests |-> "new"]
    /\ slot = [j \in Jobs |-> 0] /\ started = {} /\ open = [j \in Jobs |-> 0] /\ admitted = {}
    /\ items = [j \in Jobs |-> 0] /\ retries = [j \in Jobs |-> 0]
    /\ cancel = {} /\ late = {} /\ behind = [j \in Jobs |-> {}]

Step(j) ==
    \/ Cancelled(j) \/ TimesOut(j) \/ Postpone(j) \/ Yield(j) \/ StartOver(j)
    \/ Complete(j) \/ Break(j)

Worker ==
    \/ Begin \/ Fill \/ Pop \/ Show \/ (\E j \in Jobs : Step(j))
    \/ Leave \/ Stay \/ FindDeferred \/ TakeDeferred \/ DropDeferred \/ Get \/ BeginCall \/ EndCall

Goes(k) ==
    \/ SetClosed(k) \/ LookActive(k) \/ CancelActive(k) \/ CancelSlots(k)
    \/ LookDeferred(k) \/ StopDeferred(k) \/ ForgetDeferred(k)
    \/ Drain(k) \/ Drained(k) \/ PutSentinel(k)

Next ==
    \/ \E r \in Requests : Check(r) \/ Put(r) \/ Expire(r)
    \/ \E j \in Jobs : Abandon(j)
    \/ Worker
    \/ \E k \in Closers : BeginClose(k) \/ Goes(k)

Spec == Init /\ [][Next]_vars

\* The threads inside the scheduler are scheduled; clients need not be.
FairSpec == Spec /\ WF_vars(Worker) /\ \A k \in Closers : WF_vars(Goes(k))

-----------------------------------------------------------------------------
(* Properties.                                                             *)

AtMostOne(S) == \A x, y \in S : x = y

\* Every variable has its type; the jobs that share the device at a time have slots
\* of their own, which select the state a generation uses.
TypeOK ==
    /\ queue \in Seq(Requests \cup {Sentinel}) /\ Len(queue) <= MaxPending
    /\ slots \in Seq(Jobs) /\ Len(slots) <= Parallel /\ IsInjective(slots)
    /\ hand \subseteq Jobs /\ AtMostOne(hand)
    /\ deferred \subseteq Calls /\ AtMostOne(deferred)
    /\ calling \subseteq Calls /\ AtMostOne(calling)
    /\ closed \in BOOLEAN
    /\ pc \in {"loop", "fill", "pop", "popped", "step", "idle", "take", "drop", "call", "running",
               "answer", "exited", "dead"}
    /\ closer \in [Closers -> {"out", "begin", "active", "cancel", "slots", "deferred", "stop",
                               "forget", "drain", "mark", "joined", "raised"}]
    /\ status \in [Requests -> Answers \cup {"new", "checked", "refused", "waiting"}]
    /\ slot \in [Jobs -> 0 .. Parallel - 1] /\ \A i, j \in hand \cup ToSet(slots) : i # j => slot[i] # slot[j]
    /\ started \subseteq Jobs
    /\ open \in [Jobs -> Nat] /\ admitted \subseteq Jobs
    /\ items \in [Jobs -> 0 .. MaxItems] /\ retries \in [Jobs -> 0 .. MaxRetries]
    /\ cancel \subseteq Jobs /\ late \subseteq Requests
    /\ behind \in [Jobs -> SUBSET Calls]

\* Whatever close does in between, a request that waits for its answer is in the
\* hands of the scheduler, once: in the queue, in a slot, taken by the worker, or
\* deferred and not yet taken (scheduler.py: _run, _fill_active, close).
NoneLost ==
    \A r \in Requests :
        Waiting(r) => Cardinality({p \in {"queue", "slot", "hand", "deferred", "call"} :
                                     \/ p = "queue" /\ r \in ToSet(queue)
                                     \/ p = "slot" /\ r \in ToSet(slots)
                                     \/ p = "hand" /\ r \in hand
                                     \/ p = "deferred" /\ r \in deferred \ calling
                                     \/ p = "call" /\ r \in calling}) = 1

\* No generation is under way while a lifecycle call (a load, an unload) runs.
CallExclusive == pc = "running" => \A j \in Jobs : open[j] = 0

\* A job accepted after a call starts only when the call has been answered.
CallOrder == \A j \in started : \A c \in behind[j] : ~Waiting(c)

\* An answered job has left no iterator open, however often it started over, and
\* none is open when the finalizer, which unloads the model, runs at the end of the
\* worker's loop.
IteratorsClosed ==
    \A j \in Jobs : status[j] \in Answers \/ pc = "exited" => open[j] = 0

\* As long as the scheduler is open, an accepted request is answered, unless
\* an error has ended the worker.
Answered == \A r \in Requests : Waiting(r) ~> ~Waiting(r) \/ closed \/ pc = "dead"

\* The worker of a closed scheduler ends, wherever close met it, so that the
\* finalizer runs.
WorkerExits == closed ~> pc \in {"exited", "dead"}

\* A request past its deadline is answered.
DeadlineAnswers ==
    \A j \in Jobs : Waiting(j) /\ j \in late ~> ~Waiting(j) \/ pc = "dead"
=============================================================================
