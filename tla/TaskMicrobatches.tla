-------------------------- MODULE TaskMicrobatches --------------------------
(***************************************************************************)
(* The task thread of the actor (engine/tasks.py) as a client of the       *)
(* device: it groups waiting tasks of one model, runs the group by one     *)
(* call or, step by step, through an iterator that lives on the device,    *)
(* and answers the tasks one by one.                                       *)
(*                                                                         *)
(* A behaviour is one of two compositions: operations of any threads share *)
(* the device (as in DeviceExecutor), or the task thread does with a few   *)
(* operations of others.  A task holds the lease of its model and its      *)
(* prepared inputs until it is answered.                                   *)
(***************************************************************************)
EXTENDS DeviceExecutor

CONSTANTS
    Tasks,
    ModelOf,        \* per task: the key of its model; tasks of one key can be grouped
    Rows, MaxRows,  \* per task: its inputs; max_sequences
    Limit,          \* queue_size + max_sequences: tasks waiting or in the group
    CallOf,         \* per key: the name of the task thread's calls
    Staged,         \* keys whose adapter has run_steps
    MaxStages,      \* bound: steps of one group
    Few             \* the operations that share the device with the task thread

ASSUME TaskMicrobatchesAssumption ==
    /\ IsFiniteSet(Tasks) /\ ModelOf \in [Tasks -> Keys] /\ Rows \in [Tasks -> 1 .. MaxRows]
    /\ Limit \in Nat \ {0} /\ MaxStages \in Nat \ {0} /\ Staged \subseteq Keys
    /\ Few \subseteq Ops /\ CallOf \in [Keys -> Ops \ Few] /\ \A k \in Keys : KeyOf[CallOf[k]] = k

VARIABLES
    tasked,    \* is there a task thread?
    waiting,   \* pending
    group,     \* active
    todo,      \* tasks of the group the thread has yet to look at in this loop
    step,      \* where the thread is: "idle", "check", "wait", "close", "closing", "settle"
    live,      \* the tasks of the group whose inputs its calls use
    stages,    \* steps the group's iterator has made
    open,      \* the iterator was made and is not closed
    left,      \* it never will be by the thread: the device has refused to close it
    failing,   \* a call for the group has raised
    phase,     \* per task: "new", "refused", "queued", "running", its answer: "finished",
               \* "failed", "dropped" (cancelled or timed out)
    unwanted,  \* unanswered tasks cancelled, or past their deadline
    retired    \* closed

iterator == <<open, left>>
thread == <<waiting, group, todo, live, step, stages, iterator, failing>>
tasks == <<tasked, thread, phase, unwanted, retired>>
tvars == <<vars, tasks>>

Unanswered(j) == phase[j] \in {"queued", "running"}
Phase(j, p) == phase' = [phase EXCEPT ![j] = p]

\* The group has one key.
GroupKey == ModelOf[Head(group)]
Call == CallOf[GroupKey]
Steps == GroupKey \in Staged

-----------------------------------------------------------------------------
(* Clients.                                                                *)

\* A refused task gives back its inputs and its lease at once.
SubmitTask(j) ==
    /\ tasked /\ phase[j] = "new"
    /\ IF ~retired /\ Len(waiting) + Len(group) < Limit
       THEN Phase(j, "queued") /\ waiting' = Append(waiting, j)
       ELSE Phase(j, "refused") /\ UNCHANGED waiting
    /\ UNCHANGED <<vars, tasked, group, todo, live, step, stages, iterator, failing, unwanted,
                   retired>>

\* The cancel event of the task is set, or its deadline passes.
Unwant(j) ==
    /\ Unanswered(j) /\ j \notin unwanted /\ ~retired
    /\ unwanted' = unwanted \cup {j}
    /\ UNCHANGED <<vars, tasked, thread, phase, retired>>

\* close: every task counts as cancelled from now on.
Retire ==
    /\ tasked /\ ~retired
    /\ retired' = TRUE /\ unwanted' = {j \in Tasks : Unanswered(j)}
    /\ UNCHANGED <<vars, tasked, thread, phase>>

-----------------------------------------------------------------------------
(* The task thread.                                                        *)

\* The tasks waiting at the positions of I, in the order they wait in.
WaitingAt(I) ==
    LET nth(n) == CHOOSE i \in I : Cardinality({k \in I : k <= i}) = n
    IN  [n \in 1 .. Cardinality(I) |-> waiting[nth(n)]]

RowsOf(I) == MapThenSumSet(LAMBDA i : Rows[waiting[i]], I)

\* The oldest task, and those of its model that fit beside what is chosen of the tasks
\* ahead of them.
Grouped(I) ==
    \A i \in DOMAIN waiting :
        i \in I <=> \/ i = 1
                    \/ /\ ModelOf[waiting[i]] = ModelOf[Head(waiting)]
                       /\ RowsOf({k \in I : k < i}) + Rows[waiting[i]] <= MaxRows

Pick ==
    /\ step = "idle" /\ waiting # <<>>
    /\ \E I \in SUBSET DOMAIN waiting :
        /\ Grouped(I)
        /\ group' = WaitingAt(I) /\ todo' = group'
        /\ waiting' = WaitingAt(DOMAIN waiting \ I)
    /\ step' = "check"
    /\ UNCHANGED <<vars, tasked, live, stages, iterator, failing, phase, unwanted, retired>>

\* _finish: giving back the inputs and the lease may raise, which fails a task that
\* would have been finished.
End(j, answers) ==
    /\ \E p \in answers : Phase(j, p)
    /\ unwanted' = unwanted \ {j}

Look(j) == todo # <<>> /\ j = Head(todo) /\ todo' = Tail(todo)

\* Before the group runs, the tasks nobody wants leave it; the others are running.
Check(j) ==
    /\ step = "check" /\ Look(j)
    /\ IF j \in unwanted THEN End(j, {"dropped"}) /\ UNCHANGED live
       ELSE Phase(j, "running") /\ live' = Append(live, j) /\ UNCHANGED unwanted
    /\ UNCHANGED <<vars, tasked, waiting, group, step, stages, iterator, failing, retired>>

\* Where the thread goes on; the loop that answers has the live tasks before it.
Then(next) == step' = next /\ todo' = IF next = "settle" THEN live ELSE todo

After_Settle == Then("settle")
\* The calls of a group end: its iterator is closed on the device, whatever happened.
After == Then(IF Steps THEN "close" ELSE "settle")

\* A call that the device cannot accept raises, and leaves no trace.
Accepts == ~closed /\ pending < QueueSize
Ask(next) == Accepts /\ Submit(Call) /\ Then(next) /\ UNCHANGED failing
Refusal == ~Accepts /\ failing' = TRUE /\ UNCHANGED vars

\* run_batch, or the next step of run_steps.  Where an iterator is made, the thread
\* forgets the one it had left before, which Python then finalizes off the device.
Run ==
    /\ step = "check" /\ todo = <<>> /\ live # <<>>
    /\ open' = (open \/ Steps) /\ left' = (left /\ ~Steps)
    /\ Ask("wait") \/ (Refusal /\ After)
    /\ UNCHANGED <<tasked, waiting, group, live, stages, phase, unwanted, retired>>

\* The call has returned; its name is free for the next one.
Renew(o) ==
    /\ status[o] \in Answers
    /\ status' = [status EXCEPT ![o] = "new"]
    /\ earlier' = [p \in Ops |-> IF p = o THEN {} ELSE earlier[p] \ {o}]
    /\ UNCHANGED <<queues, order, pending, closed, taken, running, stopped, cancel, passed>>

\* An iterator that has not stopped is asked for another step.
Returned ==
    /\ step = "wait" /\ Renew(Call)
    /\ \/ /\ status[Call] = "done" /\ Steps /\ stages + 1 < MaxStages
          /\ stages' = stages + 1 /\ Then("check") /\ UNCHANGED failing
       \/ /\ failing' = (status[Call] # "done")
          /\ After /\ UNCHANGED stages
    /\ UNCHANGED <<tasked, waiting, group, live, iterator, phase, unwanted, retired>>

\* When the device refuses, the tasks are answered all the same: their inputs and
\* their leases are given back while the iterator lives on, suspended.
CloseIterator ==
    /\ step = "close"
    /\ \/ Ask("closing") /\ UNCHANGED left
       \/ Refusal /\ Then("settle") /\ left' = TRUE
    /\ UNCHANGED <<tasked, waiting, group, live, stages, open, phase, unwanted, retired>>

IteratorClosed ==
    /\ step = "closing" /\ Renew(Call)
    /\ open' = FALSE
    /\ failing' = (failing \/ status[Call] # "done") /\ Then("settle")
    /\ UNCHANGED <<tasked, waiting, group, live, stages, left, phase, unwanted, retired>>

\* A task of the group is answered: the group's failure, its own, or its output.
Settle(j) ==
    /\ step = "settle" /\ Look(j)
    /\ End(j, IF failing THEN {"failed"}
              ELSE IF j \in unwanted THEN {"dropped"} ELSE {"finished", "failed"})
    /\ UNCHANGED <<vars, tasked, waiting, group, live, step, stages, iterator, failing, retired>>

Emptied == step = "settle" \/ (step = "check" /\ live = <<>>)
GroupDone ==
    /\ Emptied /\ todo = <<>>
    /\ group' = <<>> /\ live' = <<>> /\ step' = "idle" /\ stages' = 0 /\ failing' = FALSE
    /\ UNCHANGED <<vars, tasked, waiting, todo, iterator, phase, unwanted, retired>>

MayEnd_Closed == retired
\* The thread goes on until nothing waits.
MayEnd == retired /\ waiting = <<>>
ThreadEnds ==
    /\ step = "idle" /\ MayEnd /\ step' = "ended"
    /\ UNCHANGED <<vars, tasked, waiting, group, todo, live, stages, iterator, failing, phase,
                   unwanted, retired>>

-----------------------------------------------------------------------------
TaskInit ==
    /\ Init /\ tasked \in BOOLEAN
    /\ waiting = <<>> /\ group = <<>> /\ todo = <<>> /\ live = <<>> /\ step = "idle"
    /\ stages = 0 /\ open = FALSE /\ left = FALSE /\ failing = FALSE
    /\ phase = [j \in Tasks |-> "new"] /\ unwanted = {} /\ retired = FALSE

DeviceGoes ==
    \/ Take \/ (\E o \in Ops : Start(o)) \/ Finish \/ Stop
    \/ ~tasked /\ \E o \in Ops : Nest(o)

ThreadGoes ==
    \/ Pick \/ (\E j \in Tasks : Check(j) \/ Settle(j))
    \/ Run \/ Returned \/ CloseIterator \/ IteratorClosed \/ GroupDone \/ ThreadEnds

Others ==
    \/ Close \/ (\E o \in Few : Submit(o))
    \/ ~tasked /\ \E o \in Ops : Submit(o) \/ Cancel(o) \/ Withdraw(o)

TaskNext ==
    \/ (DeviceGoes \/ Others) /\ UNCHANGED tasks
    \/ ThreadGoes \/ Retire
    \/ \E j \in Tasks : SubmitTask(j) \/ Unwant(j)

TaskSpec == TaskInit /\ [][TaskNext]_tvars

\* Both threads are scheduled, and operations return.
FairTaskSpec ==
    TaskSpec /\ WF_tvars(DeviceGoes /\ UNCHANGED tasks) /\ WF_tvars(ThreadGoes)

-----------------------------------------------------------------------------
(* Properties.                                                             *)

\* A call of the task thread waits for the device or runs there; or its iterator is
\* open, and the device has not refused to close it.
Uses(k) ==
    \/ status[CallOf[k]] \in {"queued", "running"}
    \/ open /\ ~left /\ GroupKey = k

\* _finish: "Completion includes cleanup".  Whatever is cancelled, refused or closed
\* meanwhile, no task whose inputs the device uses has been answered: their inputs and
\* the lease of the model are held.  Only when the device refuses to close an iterator
\* are they given back under it, and then none of its tasks gets a result.
LeasedWhileUsed ==
    tasked =>
        /\ \A k \in Keys : Uses(k) =>
            live # <<>> /\ \A j \in ToSet(live) : phase[j] = "running" /\ ModelOf[j] = k
        /\ step = "settle" /\ Steps /\ open => failing

\* Every operation and every task that was accepted is answered, also when the device
\* refuses a group's calls, an operation makes calls of its own, or either thread is
\* told to end.  (Each is submitted once, so in the end none is left.)
AllEnd ==
    <>[](/\ \A o \in Ops : status[o] \notin {"queued", "running"}
         /\ \A j \in Tasks : ~Unanswered(j))
=============================================================================
