--------------------------- MODULE InferenceActor ---------------------------
(***************************************************************************)
(* The single-owner inference actor (engine/actor.py): client threads      *)
(* submit generation jobs and lifecycle calls, one actor thread advances   *)
(* the jobs' iterators, batches their forward passes and runs a call as a  *)
(* barrier between jobs, and readers take each job's output from a bounded *)
(* queue.                                                                  *)
(*                                                                         *)
(* The actor thread is a loop over the values of pc, one visited job at a  *)
(* time; clients and readers interleave with it everywhere.  The sweep     *)
(* over all jobs is one step, because what it does to one job commutes     *)
(* with what clients do to the others.  Deadlines, stalls and retry delays *)
(* are choices, and so are the policies that order admissions and batches. *)
(* Jobs are advanced and ended by calls to the device executor, which may  *)
(* refuse one (it is full, or closed): an exception ends the loop.         *)
(*                                                                         *)
(* A definition Op_Fault is a faulty variant of Op, used to see that the   *)
(* properties notice.                                                      *)
(***************************************************************************)
EXTENDS Naturals, Sequences, SequencesExt, FiniteSets

CONSTANTS
    Jobs, Calls,     \* generation requests and lifecycle calls
    QueueSize,       \* config.queue_size
    MaxSequences,    \* config.max_sequences
    Buffer,          \* config.output_buffer_events
    Timed, Streams,  \* jobs that have a deadline, jobs that put output events
    Crashes,         \* may the device refuse a call, a pressure poll or a preview raise?
    MaxForwards,     \* bound: forward passes of one job
    MaxItems,        \* bound: output events of one job
    MaxDefers        \* bound: deferred admissions of one job

ASSUME InferenceActorAssumption ==
    /\ IsFiniteSet(Jobs) /\ IsFiniteSet(Calls) /\ Jobs \cap Calls = {}
    /\ QueueSize \in Nat \ {0} /\ MaxSequences \in Nat \ {0} /\ Buffer \in Nat \ {0}
    /\ Timed \subseteq Jobs /\ Streams \subseteq Jobs /\ Crashes \in BOOLEAN
    /\ MaxForwards \in Nat /\ MaxItems \in Nat /\ MaxDefers \in Nat

VARIABLES
    pc,         \* where the actor thread is in its loop
    todo,       \* jobs the current phase of the loop has yet to visit
    cur,        \* the job in hand, as a set of at most one
    turn,       \* iterator items taken from it in this pass
    group,      \* jobs of the batch whose forward pass is being accounted for
    calling,    \* the call being run, as a set of at most one
    pending,    \* _pending: jobs and calls
    active,     \* _active
    paused,     \* _paused
    closed,     \* _closed
    epoch,      \* _epoch
    phase,      \* per job: "new", "live", its terminal phase, "refused"
    started,    \* jobs with an iterator
    requested,  \* jobs with a forward request outstanding
    model,      \* per job: model_epoch of its SequenceState, as a set of at most one
    computed,   \* per job: computed_len of its state, in forward passes
    cached,     \* per job: position its cache has committed, in forward passes
    items,      \* per job: output events put so far
    delayed,    \* jobs whose retry_at lies ahead
    defers,     \* per job: deferrals so far
    cancel,     \* jobs whose cancel event is set
    late,       \* jobs whose deadline has passed
    unread,     \* per job: events in its output queue
    reader,     \* per job: where its consumer is
    call,       \* per call: "new", "queued", "running", how it was answered
    behind      \* history: per job, the calls not yet answered when it was submitted
\* Of a job that has ended only phase, unread and reader are kept.

lists == <<pending, active, paused>>
flow == <<pc, todo, cur, turn, group, calling>>
held == <<started, requested>>
state == <<model, computed, cached>>
output == <<unread, reader>>
retry == <<delayed, defers>>
vars == <<flow, lists, closed, epoch, phase, held, state, items, output, retry,
          cancel, late, call, behind>>

Queued == ToSet(pending) \cap Jobs
Ahead_All == Queued
\* The jobs before the first call.
Ahead == {pending[i] : i \in {n \in 1..Len(pending) : \A m \in 1..n : pending[m] \in Jobs}}
Live(j) == phase[j] = "live"
Ended == {"finished", "cancelled", "timed_out", "failed"}
Terminal(j) == phase[j] \in Ended

Full_OffByOne(j) == unread[j] > Buffer
Full(j) == unread[j] >= Buffer

-----------------------------------------------------------------------------
(* Clients.                                                                *)

HasRoom == Len(pending) + Cardinality(paused) < QueueSize

\* _enqueue: a closed actor or a full queue refuses.
Submit(j) ==
    /\ phase[j] = "new"
    /\ IF ~closed /\ HasRoom
       THEN /\ phase' = [phase EXCEPT ![j] = "live"]
            /\ pending' = Append(pending, j)
            /\ reader' = [reader EXCEPT ![j] = "reading"]
            /\ behind' = [behind EXCEPT ![j] = {c \in Calls : call[c] \in {"queued", "running"}}]
       ELSE /\ phase' = [phase EXCEPT ![j] = "refused"]
            /\ UNCHANGED <<pending, reader, behind>>
    /\ UNCHANGED <<flow, active, paused, closed, epoch, held, state, items, unread, retry,
                   cancel, late, call>>

\* execute: calls are not bounded by queue_size.
Execute(c) ==
    /\ call[c] = "new"
    /\ IF closed
       THEN call' = [call EXCEPT ![c] = "refused"] /\ UNCHANGED pending
       ELSE call' = [call EXCEPT ![c] = "queued"] /\ pending' = Append(pending, c)
    /\ UNCHANGED <<flow, active, paused, closed, epoch, phase, held, state, items, output, retry,
                   cancel, late, behind>>

Close ==
    /\ ~closed
    /\ closed' = TRUE
    /\ cancel' = cancel \cup active \cup paused
    /\ UNCHANGED <<flow, lists, epoch, phase, held, state, items, output, retry, late, call, behind>>

\* The job's deadline passes.
Expire(j) ==
    /\ j \in Timed \ late /\ Live(j)
    /\ late' = late \cup {j}
    /\ UNCHANGED <<flow, lists, closed, epoch, phase, held, state, items, output, retry,
                   cancel, call, behind>>

\* The 10 ms until a deferred job may be tried again are over.
RetryElapses(j) ==
    /\ j \in delayed
    /\ delayed' = delayed \ {j}
    /\ UNCHANGED <<flow, lists, closed, epoch, phase, held, state, items, output, defers,
                   cancel, late, call, behind>>

Reads(j, r) ==
    /\ reader' = [reader EXCEPT ![j] = r]
    /\ UNCHANGED <<flow, lists, closed, epoch, phase, held, state, items, retry, late, call, behind>>

Get(j) ==
    /\ reader[j] = "reading" /\ unread[j] > 0
    /\ unread' = [unread EXCEPT ![j] = @ - 1]
    /\ Reads(j, "reading")
    /\ UNCHANGED cancel

\* output.get times out: the queue was empty at that moment.
GetTimesOut(j) ==
    /\ reader[j] = "reading" /\ unread[j] = 0
    /\ Reads(j, "checking")
    /\ UNCHANGED <<unread, cancel>>

\* Only then is the terminal future consulted.
CheckTerminal(j) ==
    /\ reader[j] = "checking"
    /\ Reads(j, IF Live(j) THEN "reading" ELSE "ended")
    /\ UNCHANGED <<unread, cancel>>

\* The consumer abandons the stream of a job that has not ended.
Abandon(j) ==
    /\ reader[j] \in {"reading", "checking"} /\ Live(j)
    /\ Reads(j, "left")
    /\ cancel' = cancel \cup {j}
    /\ UNCHANGED unread

-----------------------------------------------------------------------------
(* The actor thread.                                                       *)

\* _finish for the jobs in the domain of out, each with its terminal phase;
\* closing an iterator or a cancellation callback may raise, which fails the job.
Finish(out) ==
    LET S == {j \in DOMAIN out : Live(j)}  \* a second end is ignored
        reset(f, v) == [j \in Jobs |-> IF j \in S THEN v ELSE f[j]] IN
    /\ \E broken \in SUBSET S :
        phase' = [j \in Jobs |-> IF j \in broken THEN "failed"
                                 ELSE IF j \in S THEN out[j] ELSE phase[j]]
    /\ active' = active \ S /\ paused' = paused \ S
    /\ started' = started \ S /\ requested' = requested \ S
    /\ model' = reset(model, {}) /\ computed' = reset(computed, 0) /\ cached' = reset(cached, 0)
    /\ items' = reset(items, 0) /\ behind' = reset(behind, {})
    /\ delayed' = delayed \ S /\ defers' = reset(defers, 0)
    /\ cancel' = cancel \ S /\ late' = late \ S

All(S, p) == [j \in S |-> p]

\* The device refuses a call of _finish: jobs before it have ended, the exception
\* leaves the others as they are.  In which order a set of jobs ends is left open.
Refused(out) ==
    /\ Crashes
    /\ \E F \in SUBSET DOMAIN out : F # DOMAIN out /\ Finish(Restrict(out, F))

Goto(l) == pc' = l
Visited(j) == todo' = todo \ {j}
Unhand == cur' = {} /\ turn' = 0
\* An exception outside the loop's handlers ends the loop; _closed stays as it is.
Raise == Goto("crashed") /\ todo' = {} /\ Unhand
Quiet == UNCHANGED <<closed, epoch, output>>
NoneEnds == UNCHANGED <<phase, held, state, items, retry, cancel, late, behind>>

\* A pass of the loop begins, with the paused jobs.
Begin ==
    /\ pc = "forward" /\ todo = {} /\ ~closed
    /\ todo' = paused
    /\ Goto("unpause")
    /\ Quiet /\ NoneEnds /\ UNCHANGED <<cur, turn, group, calling, lists, call>>

\* The consumer caught up: the job leaves _paused ...
Unpause(j) ==
    /\ pc = "unpause" /\ cur = {} /\ j \in todo /\ ~Full(j)
    /\ Visited(j)
    /\ paused' = paused \ {j} /\ cur' = {j}
    /\ Quiet /\ NoneEnds /\ UNCHANGED <<pc, turn, group, calling, pending, active, call>>

\* ... and, in a step of its own, enters the queue at the front.
RequeueAt_Back(j) == Append(pending, j)
RequeueAt(j) == <<j>> \o pending
Requeue(j) ==
    /\ pc = "unpause" /\ cur = {j}
    /\ Unhand
    /\ pending' = RequeueAt(j)
    /\ Quiet /\ NoneEnds /\ UNCHANGED <<pc, todo, group, calling, active, paused, call>>

\* A job whose consumer is behind leaves its slot; a paused one stays paused.
Stall(j) ==
    /\ pc \in {"unpause", "advance"} /\ cur = {} /\ j \in todo /\ Full(j)
    /\ Visited(j)
    /\ active' = active \ {j} /\ paused' = paused \cup {j}
    /\ Quiet /\ NoneEnds /\ UNCHANGED <<pc, cur, turn, group, calling, pending, call>>

\* The consumer of a paused job has been behind for output_stall_timeout_s.
StallTimesOut(j) ==
    /\ pc = "unpause" /\ cur = {} /\ j \in todo /\ Full(j)
    /\ Visited(j)
    /\ Finish(All({j}, "timed_out"))
    /\ Quiet /\ UNCHANGED <<pc, cur, turn, group, calling, pending, call>>

\* Which of the jobs ahead of the first call are admitted together: the policy
\* picks who, but a slot stays empty only when every other job awaits its retry.
Admissible(S) ==
    /\ S \subseteq Ahead \ delayed
    /\ S # {} => Cardinality(active) + Cardinality(S) <= MaxSequences
    /\ \/ Cardinality(active) + Cardinality(S) >= MaxSequences
       \/ S = Ahead \ delayed

Remaining_Kept(S) == pending
\* The queue without the jobs of S: the n-th that is kept is the one with n kept
\* up to it.
Remaining(S) ==
    LET keep == {i \in DOMAIN pending : pending[i] \notin S}
        nth(n) == CHOOSE i \in keep : Cardinality({k \in keep : k <= i}) = n
    IN  [n \in 1 .. Cardinality(keep) |-> pending[nth(n)]]

\* A call at the head of the queue runs once nothing is active.
MayCall(rest) == active' = {} /\ rest # <<>> /\ Head(rest) \in Calls

Admit ==
    /\ pc = "unpause" /\ todo = {} /\ cur = {}
    /\ \E S \in SUBSET Ahead :
        /\ Admissible(S)
        /\ active' = active \cup S
        /\ LET rest == Remaining(S) IN
            IF MayCall(rest)
            THEN pending' = Tail(rest) /\ calling' = {Head(rest)} /\ Goto("barrier")
            ELSE pending' = rest /\ calling' = {} /\ Goto("sweep")
    /\ Quiet /\ NoneEnds /\ UNCHANGED <<todo, cur, turn, group, paused, call>>

\* The paused jobs are cancelled before the call runs on the device.
Barrier ==
    /\ pc = "barrier"
    /\ Finish(All(paused, "cancelled"))
    /\ call' = [c \in Calls |-> IF c \in calling THEN "running" ELSE call[c]]
    /\ Goto("call")
    /\ Quiet /\ UNCHANGED <<todo, cur, turn, group, calling, pending>>

\* The end of a paused job is refused: the call has left the queue and is not run.
BarrierRefused ==
    /\ pc = "barrier"
    /\ Refused(All(paused, "cancelled"))
    /\ Raise
    /\ Quiet /\ UNCHANGED <<group, calling, pending, call>>

\* The call returns, in a new epoch, or raises.
RunCall ==
    /\ pc = "call"
    /\ \E answer \in {"done", "failed"} :
        /\ epoch' = IF answer = "done" THEN epoch + 1 ELSE epoch
        /\ call' = [c \in Calls |-> IF c \in calling THEN answer ELSE call[c]]
    /\ calling' = {}
    /\ Goto("sweep")
    /\ NoneEnds /\ UNCHANGED <<todo, cur, turn, group, lists, closed, output>>

\* Cancelled jobs, and jobs past their deadline, end wherever they are.
Swept == (cancel \cup late) \cap (active \cup paused \cup Queued)
Sweeping(S) == [j \in S |-> IF j \in cancel THEN "cancelled" ELSE "timed_out"]
Sweep ==
    /\ pc = "sweep"
    /\ Finish(Sweeping(Swept))
    /\ pending' = Remaining(Swept)
    /\ todo' = active \ Swept
    /\ Goto("advance")
    /\ Quiet /\ UNCHANGED <<cur, turn, group, calling, call>>

\* The end of r is refused when r, if it was queued, has left the queue: it is in
\* no list then.
SweepRefused ==
    /\ pc = "sweep" /\ Crashes
    /\ \E r \in Swept : \E F \in SUBSET (Swept \ {r}) :
        /\ Finish(Sweeping(F))
        /\ pending' = Remaining(F \cup {r})
    /\ Raise
    /\ Quiet /\ UNCHANGED <<group, calling, call>>

\* The actor turns to a job in its slot: _advance takes several items in a row.
Resume(j) ==
    /\ pc = "advance" /\ cur = {} /\ j \in todo /\ ~Full(j)
    /\ Visited(j)
    /\ cur' = {j}
    /\ Quiet /\ NoneEnds /\ UNCHANGED <<pc, turn, group, calling, lists, call>>

\* _advance goes on with the job in hand.
Goes(j) == pc = "advance" /\ cur = {j} /\ j \notin requested /\ ~Full(j) /\ turn <= Buffer

\* Admission control queues the job, or the cache has no room for it yet: it goes
\* behind the jobs that precede the first call, and waits before its retry.
Postpone(j) ==
    /\ Goes(j) /\ model[j] = {} /\ defers[j] < MaxDefers
    /\ active' = active \ {j}
    /\ pending' = InsertAt(pending, Cardinality(Ahead) + 1, j)
    /\ delayed' = delayed \cup {j}
    /\ defers' = [defers EXCEPT ![j] = @ + 1]
    /\ started' = started \ {j}
    /\ Unhand
    /\ Quiet /\ UNCHANGED <<pc, todo, group, calling, paused, phase, requested, state, items,
                            cancel, late, call, behind>>

\* The iterator asks for a forward pass; the first one creates the job's state.
Request(j) ==
    /\ Goes(j) /\ computed[j] < MaxForwards
    /\ started' = started \cup {j} /\ requested' = requested \cup {j}
    /\ model' = [model EXCEPT ![j] = IF @ = {} THEN {epoch} ELSE @]
    /\ Unhand
    /\ Quiet /\ UNCHANGED <<pc, todo, group, calling, lists, phase, computed, cached, items, retry,
                            cancel, late, call, behind>>

\* The iterator yields an output event.
Emit(j) ==
    /\ Goes(j) /\ j \in Streams /\ items[j] < MaxItems
    /\ started' = started \cup {j}
    /\ items' = [items EXCEPT ![j] = @ + 1]
    /\ unread' = [unread EXCEPT ![j] = @ + 1]
    /\ turn' = turn + 1
    /\ UNCHANGED <<pc, todo, cur, group, calling, lists, closed, epoch, phase, requested, state,
                   reader, retry, cancel, late, call, behind>>

\* The iterator is exhausted; or it raises, or admission or the factory does.
Complete(j) ==
    /\ Goes(j)
    /\ \E p \in {"finished", "failed"} : Finish(All({j}, p))
    /\ Unhand
    /\ Quiet /\ UNCHANGED <<pc, todo, group, calling, pending, call>>

\* The job has a request, or a full queue, or took its share of this pass.
Leave(j) ==
    /\ pc = "advance" /\ cur = {j}
    /\ j \in requested \/ Full(j) \/ turn > Buffer
    /\ Unhand
    /\ Quiet /\ NoneEnds /\ UNCHANGED <<pc, todo, group, calling, lists, call>>

Ready == {j \in active : j \in requested /\ ~Full(j)}

\* The scheduler picks, among the requests on one bundle, those to run now; or it
\* raises, which fails all of them.
Select ==
    /\ pc = "advance" /\ todo = {} /\ cur = {}
    /\ \E S \in SUBSET Ready :
        /\ S = {} <=> Ready = {}
        /\ \/ todo' = S /\ NoneEnds /\ UNCHANGED <<active, paused>>
           \/ S # {} /\ Finish(All(S, "failed")) /\ UNCHANGED todo
    /\ Goto("forward")
    /\ Quiet /\ UNCHANGED <<cur, turn, group, calling, pending, call>>

\* The scheduler raises, and then the end of one of its requests is refused.
SelectRefused ==
    /\ pc = "advance" /\ todo = {} /\ cur = {}
    /\ \E S \in SUBSET Ready : Refused(All(S, "failed"))
    /\ Raise
    /\ Quiet /\ UNCHANGED <<group, calling, pending, call>>

Adopted(G) == G \ (cancel \cup late)
\* A batch runs on the device.  It is adopted for the requests still wanted when
\* it has been evaluated, or it fails and is adopted for none.
Forward(G) ==
    /\ pc = "forward" /\ G \subseteq todo /\ G # {}
    /\ todo' = todo \ G
    /\ \/ /\ cached' = [j \in Jobs |-> IF j \in Adopted(G) THEN cached[j] + 1 ELSE cached[j]]
          /\ cancel' = cancel \cup (G \cap late)
          /\ group' = G
          /\ Goto("commit")
          /\ UNCHANGED <<active, paused, phase, held, model, computed, items, retry, late, behind>>
       \/ Finish(All(G, "failed")) /\ UNCHANGED <<pc, group>>
    /\ Quiet /\ UNCHANGED <<cur, turn, calling, pending, call>>

\* The batch fails, and then the end of one of its jobs is refused.
ForwardRefused ==
    /\ pc = "forward"
    /\ \E G \in SUBSET todo : Refused(All(G, "failed"))
    /\ Raise
    /\ Quiet /\ UNCHANGED <<group, calling, pending, call>>

\* Of the batch, the jobs not accounted for yet.
Uncounted == group \cap requested
Dropped_Epoch == {j \in Uncounted : epoch \notin model[j]}
Dropped == {j \in Uncounted : j \in late \/ j \in cancel \/ epoch \notin model[j]}
\* The actor accounts for the batch, job by job: a late or cancelled one ends, the
\* others commit the tokens and get their reply.
CommitOne(j) ==
    /\ pc = "commit" /\ j \in Uncounted
    /\ \/ /\ j \in Dropped
          /\ Finish(All({j}, IF j \in late THEN "timed_out" ELSE "cancelled"))
       \/ /\ j \notin Dropped
          /\ computed' = [computed EXCEPT ![j] = @ + 1]
          /\ requested' = requested \ {j}
          /\ UNCHANGED <<active, paused, phase, started, model, cached, items, retry, cancel,
                         late, behind>>
    /\ IF Uncounted = {j}
       THEN group' = {} /\ Goto("forward")
       ELSE UNCHANGED <<group, pc>>
    /\ Quiet /\ UNCHANGED <<todo, cur, turn, calling, pending, call>>

\* The end of a dropped job is refused: that fails the whole batch, with the jobs
\* that have committed; and one of those ends may be refused too.
CommitFails ==
    /\ pc = "commit" /\ Crashes /\ Dropped # {}
    /\ Finish(All(group, "failed"))
    /\ group' = {} /\ Goto("forward")
    /\ Quiet /\ UNCHANGED <<todo, cur, turn, calling, pending, call>>
CommitRefused ==
    /\ pc = "commit" /\ Dropped # {}
    /\ Refused(All(group, "failed"))
    /\ Raise
    /\ Quiet /\ UNCHANGED <<group, calling, pending, call>>

\* The pressure poll or a preview raises, or the device refuses to shed pages, to
\* end a job whose consumer stays behind, or to advance the job in hand.
Crash ==
    /\ Crashes
    /\ \/ pc = "unpause" /\ cur = {} /\ (todo = {} \/ \E j \in todo : Full(j))
       \/ \E j \in Jobs : Goes(j)
    /\ Raise
    /\ Quiet /\ NoneEnds /\ UNCHANGED <<group, calling, lists, call>>

Running_Active == active
Running == active \cup paused
LoopEnds_Idle == pc = "crashed" \/ (pc = "forward" /\ todo = {} /\ closed /\ pending = <<>>)
LoopEnds == pc = "crashed" \/ (pc = "forward" /\ todo = {} /\ closed)
\* The loop is over: jobs in a slot or paused are cancelled ...
StopRunning ==
    /\ LoopEnds
    /\ Finish(All(Running, "cancelled"))
    /\ Goto("stopping")
    /\ Quiet /\ UNCHANGED <<todo, cur, turn, group, calling, pending, call>>

\* One of those ends is refused: the thread ends there, and the queue is not looked
\* at any more.
StopRunningRefused ==
    /\ LoopEnds
    /\ Refused(All(Running, "cancelled"))
    /\ Goto("stopped")
    /\ Quiet /\ UNCHANGED <<todo, cur, turn, group, calling, pending, call>>

Answered_Jobs == {}
Answered == ToSet(pending) \cap Calls
\* ... and whatever is still queued is answered with an error.
StopPending ==
    /\ pc = "stopping"
    /\ Finish(All(Queued, "cancelled"))
    /\ call' = [c \in Calls |-> IF c \in Answered THEN "stopped" ELSE call[c]]
    /\ pending' = <<>>
    /\ Goto("stopped")
    /\ Quiet /\ UNCHANGED <<todo, cur, turn, group, calling>>

\* The end of the i-th is refused: what was queued behind it is gone, unanswered.
StopPendingRefused ==
    /\ pc = "stopping" /\ Crashes
    /\ \E i \in DOMAIN pending :
        LET before == {pending[k] : k \in 1 .. i - 1} IN
        /\ pending[i] \in Jobs
        /\ Finish(All(before \cap Jobs, "cancelled"))
        /\ call' = [c \in Calls |-> IF c \in before THEN "stopped" ELSE call[c]]
    /\ pending' = <<>>
    /\ Goto("stopped")
    /\ Quiet /\ UNCHANGED <<todo, cur, turn, group, calling>>

-----------------------------------------------------------------------------
Init ==
    /\ pc = "forward" /\ todo = {} /\ cur = {} /\ turn = 0 /\ group = {} /\ calling = {}
    /\ pending = <<>> /\ active = {} /\ paused = {} /\ closed = FALSE /\ epoch = 0
    /\ phase = [j \in Jobs |-> "new"] /\ started = {} /\ requested = {}
    /\ model = [j \in Jobs |-> {}]
    /\ computed = [j \in Jobs |-> 0] /\ cached = [j \in Jobs |-> 0]
    /\ items = [j \in Jobs |-> 0] /\ unread = [j \in Jobs |-> 0]
    /\ delayed = {} /\ defers = [j \in Jobs |-> 0]
    /\ cancel = {} /\ late = {}
    /\ reader = [j \in Jobs |-> "none"] /\ call = [c \in Calls |-> "new"]
    /\ behind = [j \in Jobs |-> {}]

Visit(j) ==
    \/ Unpause(j) \/ Requeue(j) \/ Stall(j) \/ StallTimesOut(j)
    \/ Resume(j) \/ Postpone(j) \/ Request(j) \/ Emit(j) \/ Complete(j) \/ Leave(j)

Fails ==
    \/ BarrierRefused \/ SweepRefused \/ SelectRefused \/ ForwardRefused
    \/ CommitFails \/ CommitRefused \/ Crash \/ StopRunningRefused \/ StopPendingRefused

Actor ==
    \/ Begin \/ Admit \/ Barrier \/ RunCall \/ Sweep
    \/ \E j \in Jobs : Visit(j)
    \/ Select \/ (\E G \in SUBSET Jobs : Forward(G)) \/ (\E j \in Jobs : CommitOne(j))
    \/ StopRunning \/ StopPending \/ Fails

Read(j) == Get(j) \/ GetTimesOut(j) \/ CheckTerminal(j)

Next ==
    \/ Actor \/ Close
    \/ \E j \in Jobs : Submit(j) \/ Expire(j) \/ RetryElapses(j) \/ Read(j) \/ Abandon(j)
    \/ \E c \in Calls : Execute(c)

Spec == Init /\ [][Next]_vars

\* The actor thread is scheduled, delays elapse, and a consumer that stays behind
\* is found stalled.  Nothing is assumed of the consumers, nor of the policy that
\* picks the requests to run.
FairSpec ==
    /\ Spec /\ WF_vars(Actor)
    /\ \A j \in Jobs : /\ WF_vars(RetryElapses(j))
                       /\ SF_vars(StallTimesOut(j))

-----------------------------------------------------------------------------
(* Properties.                                                             *)

Steps == {"unpause", "barrier", "call", "sweep", "advance", "forward", "commit",
          "crashed", "stopping", "stopped"}
AtMostOne(S) == \A x, y \in S : x = y

\* Every variable has its type: nothing is queued twice, and an output queue
\* holds at most output_buffer_events (put_nowait never finds it full).
TypeOK ==
    /\ pc \in Steps /\ todo \subseteq Jobs /\ group \subseteq Jobs /\ turn \in 0 .. Buffer + 1
    /\ cur \subseteq Jobs /\ calling \subseteq Calls /\ AtMostOne(cur) /\ AtMostOne(calling)
    /\ pending \in Seq(Jobs \cup Calls) /\ IsInjective(pending)
    /\ active \subseteq Jobs /\ paused \subseteq Jobs
    /\ closed \in BOOLEAN /\ epoch \in Nat
    /\ phase \in [Jobs -> Ended \cup {"new", "refused", "live"}]
    /\ started \subseteq Jobs /\ requested \subseteq Jobs /\ delayed \subseteq Jobs
    /\ model \in [Jobs -> SUBSET Nat]
    /\ computed \in [Jobs -> 0 .. MaxForwards] /\ cached \in [Jobs -> 0 .. MaxForwards]
    /\ items \in [Jobs -> 0 .. MaxItems] /\ unread \in [Jobs -> 0 .. Buffer]
    /\ defers \in [Jobs -> 0 .. MaxDefers]
    /\ cancel \subseteq Jobs /\ late \subseteq Jobs
    /\ reader \in [Jobs -> {"none", "reading", "checking", "ended", "left"}]
    /\ call \in [Calls -> {"new", "refused", "queued", "running", "done", "failed", "stopped"}]
    /\ behind \in [Jobs -> SUBSET Calls]

Unpausing == IF pc = "unpause" THEN cur ELSE {}

PlacesOf(j) ==
    {p \in {"queue", "slot", "paused", "moving"} :
        \/ p = "queue" /\ j \in Queued
        \/ p = "slot" /\ j \in active
        \/ p = "paused" /\ j \in paused
        \/ p = "moving" /\ j \in Unpausing}
\* Jobs that have not ended and that the actor has lost sight of.
Lost == {j \in Jobs : Live(j) /\ PlacesOf(j) = {}}

\* As long as the loop runs, a job that has not ended is in exactly one of the
\* actor's hands (the queue, a slot, the paused list, or on its way from paused to
\* the queue); a job that has ended, or was refused, is never in one, so that none
\* is advanced or answered after its end.  A call the device refuses ends the loop
\* and costs at most the job being swept its place; only what it refuses once the
\* thread is stopping can cost more (actor.py: _admit, _defer, _finish, _run).
OnePlace ==
    /\ \A j \in Jobs : Cardinality(PlacesOf(j)) <= IF Live(j) THEN 1 ELSE 0
    /\ pc \notin {"crashed", "stopping", "stopped"} => Lost = {}
    /\ pc # "stopped" => AtMostOne(Lost)

\* Slots and jobs in the actor's hands stay bounded, although deferred and paused
\* jobs enter the queue without asking for room: there can be one job more than
\* queue and slots together, while one is on its way from paused to the queue.
Bounded ==
    /\ Cardinality(active) <= MaxSequences
    /\ Cardinality({j \in Jobs : PlacesOf(j) # {}}) <= QueueSize + MaxSequences + 1

\* While a lifecycle call runs (a load, an unload) no job submitted before it is
\* left, wherever it was: in a slot, paused, deferred or on its way back to the
\* queue.
BarrierExclusive ==
    \A c \in Calls, j \in Jobs : call[c] = "running" /\ Live(j) => c \in behind[j]

\* A job submitted after a call starts only when the call has been answered.
BarrierOrder ==
    \A j \in started : \A c \in behind[j] : call[c] \notin {"queued", "running"}

\* The actor's count of computed tokens and the position the cache has adopted
\* agree for every job that goes on, whatever was cancelled or timed out between
\* the evaluation of a batch and its commit.
CacheAgrees == \A j \in Jobs : Live(j) /\ j \notin Uncounted => cached[j] = computed[j]

\* The terminal phase of a job is final: no second answer, no output after it.
TerminalFinal ==
    [][\A j \in Jobs : Terminal(j) => phase'[j] = phase[j] /\ unread'[j] <= unread[j]]_vars

\* Every accepted job ends, whatever its consumer does.
JobEnds == \A j \in Jobs : Live(j) ~> Terminal(j)

\* Every accepted call is answered.
CallAnswered == \A c \in Calls : call[c] = "queued" ~> call[c] \in {"done", "failed", "stopped"}

\* close, which joins the thread, returns.
CloseReturns == closed ~> pc = "stopped"

\* A consumer that reads a finished job to its end has got all of its output.
ReaderCompletes ==
    \A j \in Jobs : reader[j] = "ended" /\ phase[j] = "finished" => unread[j] = 0
=============================================================================
