# A TLA+ model of mlx-one's runtime

mlx-one is a native MLX inference stack: models are loaded into a residency
pool, requests are generated by iterators that a scheduler or an actor advances,
and every MLX operation runs on one device thread. This directory models the
part of it in which threads meet: who owns a model, a slot, a queue or the
device at any moment, and what is left when a step fails or the system closes.

    tlc -workers 2 -config MCModelPool.cfg MCModelPool.tla
    for m in *Proofs.tla; do tlapm $m; done

`PROJECT.json` lists, in machine-readable form, the components, the runs with
their properties, the source lines of every definition, a faulty variant of the
code for each property, the hazards, and the theorems.

## The system

| part | source (under `src/src/mlx_one`) | state it keeps | operations |
|---|---|---|---|
| model pool | `engine/model_pool.py` | resident entries with epoch, leases, pin and last use; loads in flight; entries awaiting disposal; draining marks; closed | acquire, release, unload, evict_idle, pin, close |
| inference actor | `engine/actor.py` | pending jobs and calls, active slots, paused jobs, epoch, closed; per job an iterator, a forward request, a `SequenceState`, an output queue, a cancel event and a terminal future | submit/schedule, execute, close, the loop of its thread, `read_sync`/`_read` |
| evaluated-batch commit | `engine/transactions.py` | the layers' caches of a batch | commit_evaluated |
| server scheduler | `server/scheduler.py` | a bounded FIFO, the deque of jobs in slots, the job in hand, a deferred call, closed | schedule, execute, close, the loop of its thread |
| device executor | `engine/device_executor.py` | a queue per model key in an ordered dictionary, a count, closed | submit, call, close, the device thread |
| batch scheduler, admission | `engine/batching.py`, `engine/scheduler.py`, `engine/admission.py`, `server/admission.py` | rotating cursors | select, admit |
| cold prefix store | `engine/cold_prefix.py`, the snapshots of `engine/components.py` | a directory with an index file and one directory per snapshot, shared by processes | put, lookup, preview, clear |
| page pool, page tables | `engine/block_cache.py`, `arena.py`, `block_kv.py`, `paged.py` | pages with references and pins in segments of memory, a page table per layer | allocate, share, copy on write, append, release |
| cache manager, prefix index | `engine/cache_manager.py`, `prefix_cache.py` | a handle with its reservation per request, an index of sealed pages | create, adopt, reserve, reconcile, publish, evict, release, close |
| task microbatches | `engine/tasks.py` | pending tasks and a group of one model, each with its lease and inputs | submit, cancel, the task thread, close |
| device sessions, memory pressure | `engine/sessions.py`, `pressure.py` | one leased model per session, a pressure state | call, close, poll, shed |
| model manager | `server/model_manager.py` | the model a server has loaded, its key and lease, draft and transcription models, `_unloading` | load, load_draft, load_transcription, unload, model_lease |
| services | `engine/service.py`, `public.py`, `server/app.py` | what is loaded | load, generate, unload |
| models, media, text | `models/`, `text/`, `audio/`, `vision/`, `ocr/`, `segmentation/`, `retrieval/`, `classification/`, `core/` | tensors of one call | numeric pipelines |
| tools | `run_store.py`, `training.py`, `workflow.py`, benchmarks, `cli.py` | files | one process, one user |

How they interact. The server keeps its model through `ModelManager`, a client
of the pool, and sends requests either to the `GenerationScheduler` or, in the
actor modes, to the `InferenceActor`; `engine/public.py` and `engine/service.py`
use the actor and the pool directly. Lifecycle work (load, unload, warm-up) goes
through `execute` of the same scheduler, as a *call* that is a barrier between
generations. Scheduler, actor, pool, sessions and tasks all reach MLX through
`DeviceExecutor.shared()`. A consumer reads a job's items from its output queue
and may set its cancel event at any moment; deadlines are looked at by the
scheduler's or the actor's thread only.

What is hard here, and what each part has to guarantee:

* *Model pool.* Threads interleave at every release of the lock. A lease must
  stay on the resident epoch; slots and bytes must stay within the budget while
  entries are out of the table but not yet disposed; a load must answer every
  caller that joined it, on every error path; unload and close must end.
* *Actor.* A job moves between queue, slot and paused list while clients cancel and
  close. A call must run with no earlier job alive and no later job started. Cache
  and actor must agree about every evaluated batch. Everything accepted must end.
  Jobs are advanced and ended on the device, whose executor may refuse any of these
  calls.
* *Server scheduler.* There is no lock at all: close runs between any two steps
  of the worker. The same barrier property, exactly one owner of every waiting
  request, distinct slots, no iterator left open.
* *Device executor.* Order within a model, fairness between models, no deadlock
  of nested calls, an answer for everything accepted.
* *Task microbatches.* A group is put together under a lock and runs outside it,
  in several calls to the device, while its members are cancelled or expire. What
  a call uses must be held until it has returned.
* *Model manager.* A refused load, an unload that raises and loads that follow must
  leave manager and pool in agreement.
* *Caches.* Pages are shared by requests, by the drafts of a forward and by the
  index; every step of a forward may fail. Counts must be right, a page that can
  still be written must have one holder, and a batch is adopted whole or not at all.
* *Cold prefix store.* The index never names half a snapshot, whatever fails or
  crashes where; generations left over are removed by the next writer (temporary
  index files are not); limits hold.

## The modules

| module | models | checked by |
|---|---|---|
| `ModelPool` | `engine/model_pool.py` | `MCModelPool` |
| `ModelManager`, with `ModelPool` | `server/model_manager.py` as a client of its pool, or free threads on one | `MCModelManager` |
| `ModelPoolProofs` | theorems about `ModelPool` | `tlapm` |
| `ModelManagerProofs` | theorems about `ModelManager` with its pool | `tlapm` |
| `InferenceActor` | `engine/actor.py`, the adoption of `engine/transactions.py` | `MCInferenceActor` with three configurations |
| `InferenceActorProofs` | theorems about `InferenceActor` | `tlapm` |
| `BatchScheduler` | `BatchScheduler.select` of `engine/batching.py` | `MCBatchScheduler` |
| `GenerationScheduler` | `server/scheduler.py` | `MCGenerationScheduler` with three configurations |
| `GenerationSchedulerProofs` | theorems about `GenerationScheduler` | `tlapm` |
| `DeviceExecutor` | `engine/device_executor.py` | `MCDeviceExecutor`, as part of the next |
| `TaskMicrobatches`, with `DeviceExecutor` | `engine/tasks.py` as a client of the device, or free threads on it | `MCDeviceExecutor` |
| `DeviceExecutorProofs` | theorems about `DeviceExecutor` | `tlapm` |
| `TaskMicrobatchesProofs` | theorems about `TaskMicrobatches` with its device | `tlapm` |
| `PagePool` | `engine/block_cache.py`, `arena.py`, `block_kv.py` and the layer cache of `paged.py`, as operators on values | as part of the next |
| `CacheRuntime`, with `PagePool` | `engine/cache_manager.py`, `prefix_cache.py`, `PagedRunner.execute` of `paged.py`, `commit_evaluated` of `transactions.py` | `MCCacheRuntime` |
| `CacheRuntimeProofs` | theorems about `CacheRuntime` with its pool | `tlapm` |
| `PrefixStore` | what the cold prefix store promises: a bounded list | as a property of the next |
| `ColdPrefixStore` | `engine/cold_prefix.py`, `_snapshot_lock` and `save_snapshot` of `engine/components.py` | `MCColdPrefixStore` |
| `ColdPrefixStoreProofs` | theorems about `ColdPrefixStore`, with the refinement | `tlapm` |

Every module has one action per operation or per step of a thread. What the code
does under a lock is one step; what it does between two locks, outside a lock,
or on an attribute that no lock protects is a step of its own. Sizes, items and
errors are members of small sets. A definition `Op_Fault` above `Op` is `Op`
with a plausible bug: no specification uses it; it stands beside the original so
that one can see that some property notices the difference.

### ModelPool

A client is a thread: `pc[c]` is where it is in its call, or `leased` once the
call returned a lease. `live[k]` is the epoch of the resident entry (0 without
one), `leases`, `bytes`, `pinned` its fields; `older` is the order of `used_at`,
which is all that eviction looks at. `removed[c]` are the entries a client took
out and owes a disposal, so that `_retiring` is their union. A loader's Future
is the loader itself: `on[w] = c` while `w` waits for it. `Victims` is
`_remove_idle`: entries go in order of last use, and only while the load has no
room. `quiet` records, for one property, that some close returned normally.
The estimate and the measured size of a load are independent members of `Sizes`.

### ModelManager

`load` holds the manager's lock from its first to its last line, so at most one
thread is in it; `Owner` stands for that thread and, as a client of the pool, for
the lease that `load` leaves in `_bundle_lease`. `unload` takes the lock twice and
calls the pool in between, hence three steps (`ReleaseHeld`, `UnloadHeld`,
`Unloaded`). `Refuse` is the case of a context that is too long: `_bundle_lease`
then keeps a lease that has been released. `managed` says which of two
compositions a behaviour is: a manager with its threads, or the pool with free
callers (`engine/service.py`), so that one run has both. Left out: clearing the
device's buffers after an unload, and what a model is loaded from.

### InferenceActor

`pc` is where the actor thread is in `_run`, `todo` the jobs the present phase of
the loop has yet to visit, `cur` the one in hand. `_paused.remove` and
`_pending.appendleft` are two steps (`Unpause`, `Requeue`) because the queue bound
counts both lists. `Forward` is a batch on the device, ending with the adoption in
`commit_evaluated`; `CommitOne` is the actor's loop over the batch afterwards, in
which a request may meanwhile have been cancelled or be late. `Finish` is `_finish`,
whose clean-up may raise. It runs on the device, and so do the advance of a job, the
shedding of pages and a call; the executor refuses an operation when it is full or
closed, and outside a call and a batch nothing in the loop catches that. Hence,
beside each action that ends jobs, one in which one of these ends is refused
(`BarrierRefused`, `SweepRefused`, `SelectRefused`, `ForwardRefused`,
`CommitRefused`, `StopRunningRefused`, `StopPendingRefused`): the jobs before it
have ended, the others stay as they are, and the thread leaves the loop (`Raise`)
or, in its `finally` clause, ends. In the loop over a batch a refusal fails the
whole batch first (`CommitFails`). `Crash` has the refusals that change nothing
else, with the pressure poll and the previews. What this loses is `Lost`: the loop
at 428 takes a queued job out of `_pending` before it ends it; the call whose
barrier is refused is not answered; and of what was queued when the clean-up is
refused nothing is. The order of admissions and the choice of a batch are left open
within the bounds the code keeps to (`Admissible`, `Select`), so that what holds
does so for every policy. A consumer that finds the queue empty looks at the
terminal future in a later step. `behind` is a history variable: the calls not yet
answered when a job came.

Left out: speculative progress and token lists, `submit_task`, telemetry, the
finalizer (it runs after the loop), and a caller of `execute` that gives up at
its timeout (the call stays queued, which is the case the model has).

### BatchScheduler

One pass of the loop is one step: `select` with its budgets and cursors, then the
forward of what it chose. Between passes jobs arrive in free slots, and in a pass
those that are through their prompt may end. Consumers keep up, so that a job in
a slot is ready in every pass. The cursors count without end; as they are only
used modulo a number of jobs they are kept modulo a common multiple (`Cycle`).
Groups of one bundle and the padding of a batch are left out: they do not change
who is served. `InferenceActor!Select` leaves the choice open.

### GenerationScheduler

Every access of the worker, of a client or of `close` to `_closed`, `_active`,
`_active_jobs`, `_deferred_call` or the queue is a step; so the worker looks whether
a call is deferred, takes it and forgets it in three (`FindDeferred`,
`TakeDeferred`, `DropDeferred`), and dies of what it has taken when `close` has come
in between. A job's turn on the device (`_step`) touches the job alone and is one
step. `close` may raise half way: when `_active` or `_deferred_call` becomes `None`
between its check and its use, or when a Future has been answered already. An error
while a job is being disposed, a full device queue or a second answer to a Future
escapes the loop and ends the worker (`dead`). Left out: metrics, latencies, and the
branch of `execute` for the scheduler's own thread, on which no caller's code runs.

### DeviceExecutor

`order` is the dictionary: `Take` pops its first key and puts it back at the end
when it has more. `running` is a stack, since an operation on the device may call
the executor again and is then run inline (`Nest`). `passed` and `earlier` are
history variables for fairness and order. `shared()`, which replaces a closed
executor, is not modelled: nothing in the package closes the shared one.

### TaskMicrobatches

`submit` and `close` take the lock of the thread's condition, and so does the choice
of a group (`Pick`); everything else the thread does is outside it, hence one step
per task that it looks at, per call it makes to the device and per task it answers.
`_finish` disposes the inputs and releases the lease before it answers, so `phase`
says what a task still holds. A staged adapter has an iterator, advanced by one call
per step and closed by one more (`CloseIterator`). When the device refuses that
call, because its queue is full or closed, the iterator stays open: the thread's
frame holds it, suspended, until it makes the next one or ends. The tasks fail and
give back inputs and lease under it, which `left` records: the comment at
`tasks.py:142` ("Completion includes cleanup; a subsequent request cannot observe
leaked residency") does not hold then. `LeasedWhileUsed` excepts this case and says
what is left of it, that none of these tasks gets a result. A cancelled and a
timed-out task end alike (`dropped`). `tasked` says which of two compositions a
behaviour is: the task thread with one operation of another thread, or free threads
on the device.

Left out: the checks of size and deadline before a task is queued (they refuse
it, as a full queue does), the token and byte budgets of a group beside its rows,
and the trace.

### PagePool and CacheRuntime

Allocation, commit and release run on the thread that owns the device, one call
at a time; another thread only sets a cancel flag. So the pool is a value and its
operations are operators; what interleaves are the steps of a forward with
cancellations and failures, and calls of different requests between forwards.
`acquire`, `release` and the pins of the index are stated for all pages of some
lists at once: each page changes by the number of places at which it stands in
them (`Count`), and goes when nothing is left of it (`Orphaned`). The loops of the
code take one page after the other, on one thread and without a way out in
between, so the result is the same. A handle is a record, or `None` before
`create` and after `release`; the forward is a record too, `Idle` between two
of them.
`pool.page` are the live pages by place (segment and slot), with what they hold:
the tokens that went in, so that one can ask what the kernel reads through a
table. The code adds a generation to a page's id so that a stale id never names a
new page; `RefsCounted` shows that none is held. Memory is counted in segments
(`Physical`), as `allocated_nbytes` does.

A forward goes through `Begin` (with the transient reservation), `Clone` and
`AppendPage` per request and layer, `Commit` (the swap of originals and drafts),
`Reconcile` per request, and `Finish`; `Crash`, a refused allocation or a failing
`Reconcile` take the same way out as the code (`Abort`, `Rollback`). A failure
within the swap is rolled back like a failure before it and is not a step of its
own. `Allocated` takes any partly filled segment of the layer where the code takes
the oldest one. `Clone` has no branch for a full pool, which `ClonesFit` justifies.

What the model shows about limits: admission counts segments, while
`reconcile` counts pages; a forward may therefore find the arena full in
`AppendPage` although its request was admitted. The batch then fails and nothing
else changes. Left out: quantized pages, `trim`, the dense and hybrid backends,
cold prefixes of a handle, several namespaces, the bytes of tables and metadata,
the buffers of kernels. `CacheManager.stats`, called from a server thread while a
forward commits, reads handles that are being swapped; nothing depends on what it
returns. `docs/cache-runtime.md:41` calls an explicit double release an ownership
error, while `cache_manager.py:688` returns without one; the model has the code's
behaviour.

### PrefixStore and ColdPrefixStore

`PrefixStore` has a list of snapshots and three steps: a put that replaces the
entry of its key and drops no more of the oldest than the limits ask for, a
clear, and a read of something in the list. `ColdPrefixStore` has the files:
`index` is what `index.json` holds (`None` without one), `disk` how much of each
generation's directory there is, `junk` a temporary file of the index that a
crash has left. A client is a thread or a process; `pc` goes through the file
operations of `put` and `clear`, each of which may raise (`Declines`, `Sync`,
`Undo`, `Collected`, `Empty`) or be the last one before a crash (`Crash`), after
which the operating system releases the lock. `rmtree` removes in two steps, and
with its errors ignored may remove nothing or part. The list is `Entries`: a put
takes effect when `os.replace` does, hence the refinement.

`torn` are the generations whose put removed them again because the sync after
`os.replace` raised, a case in which the index names what is not there: a lookup
then raises until the key is put again. `dirty` is a history variable: the last
writer did not come to the end of its collecting loop. Before a first index
exists, anything in the directory makes the store refuse (`Usable`), also what
its own crashed put has left; `clear` does not ask and repairs it. A lookup may
choose any entry, and every client has the same limits. A crash is that of a
process: what a power failure leaves on disk is not modelled.

## The runs

Every run finishes in about two minutes or less on two workers. Bounds are named
constants; a guard that exists for a bound only (`epochs[k] < MaxEpoch`,
`MaxForwards`, `MaxItems`, `MaxDefers`, `MaxRetries`, `MaxStages`) is commented
where it stands or at its constant.

| run | instance | what it shows |
|---|---|---|
| `model_pool` | 3 models of size 1 or 2, 3 threads, 2 slots, 3 units of memory, 2 loads per model; with symmetry; 1.3 million states | A lease stays on the resident epoch (`LeaseSafety`). Models in memory stay within `max_models` (`SlotBudget`) and the byte budget (`ByteBudget`), also while evicted entries wait for their disposal. A draining mark belongs to exactly one unload (`DrainOwned`); a waiter waits for a load that will answer it (`JoinersServed`); a close without error leaves nothing behind (`ClosedIsEmpty`); a pin keeps a model from eviction (`PinnedStays`). |
| `model_pool_live` | 2 models, 1 slot, 3 free threads, or a manager and 2 threads, with fairness | `UnloadEnds`: an unload without a timeout ends. `JoinEnds`: whoever joined another's load is answered. `ServedIsResident`: outside load and unload, the model the manager serves is the resident one, held by its lease; when it serves none, none is in memory. |
| `actor` | 2 jobs, 1 call, queue of 2, 2 slots, output queue of 1 for one of them, a deadline for one of them, device calls refused anywhere, one forward of two tokens, one deferral; 2.6 million states | While the loop runs a job is in one hand; a refused device call costs one job at most its place (`OnePlace`). A call runs alone (`BarrierExclusive`) and after every job submitted before it, before every job submitted after it (`BarrierOrder`). Between two passes of the loop the cache of a batch and the actor agree (`CacheAgrees`). A finished job stays finished, with one outcome (`TerminalFinal`). |
| `actor_live` | 2 jobs, 1 call, queue of 1, 1 slot, with fairness | `JobEnds`, `CallAnswered`, `CloseReturns`: whatever is accepted ends, and close returns, whatever the consumers do. Without deferrals, deadlines and refusals. |
| `actor_reader` | 1 job | A violation: see below. |
| `scheduler` | 2 jobs (one with a deadline), 2 calls, one `close`, queue of 1, 2 slots; with symmetry; 11 million states | A request that waits is in one hand (`NoneLost`). A call runs with no job in a slot (`CallExclusive`), in the order of the queue (`CallOrder`). Two jobs never share a slot (part of `TypeOK`); a job that is answered has its iterator closed (`IteratorsClosed`). |
| `scheduler_live` | 2 jobs, 1 call with a deadline, one `close`, with fairness | `Answered`: while the scheduler is open every accepted request is answered. `WorkerExits`: the worker of a closed scheduler leaves its loop. |
| `scheduler_deadline` | 2 jobs, one `close`, with fairness | A violation: see below. |
| `device` | 2 models with 2 operations each and nested calls, or 3 tasks of 2 models (one staged, of two steps) beside 1 operation; queue of 3; with fairness; 780 thousand states | Operations of a model run in order (`KeyOrder`); while a model waits, every other model is served once at most (`BypassOnce`). A task is answered, and gives up its lease and inputs, only when no call that uses them is queued or running and its iterator is not open, or the device has refused to close it and the task fails (`LeasedWhileUsed`). Every operation and every task that was accepted is answered or withdrawn, also across both closes (`AllEnd`). |
| `batching_starves` | 3 jobs, 3 slots, 4 tokens per pass of which 2 for prefills, chunks of 2, with fairness; 10 thousand states | A violation: see below. |
| `cold_store` | 3 keys, 3 generations, 2 clients, 2 entries, 3 units of space, sizes 1, 2 and 4; with symmetry; 290 thousand states | A generation that the index names, or that a reader is about to load, is complete (`IndexBacked`). After a writer that came to its end the generations on disk are those the index names, also after earlier crashes (`GenerationsCollected`); a temporary index file that a crash has left stays. The files implement the list (`Implements`). |
| `cache` | 2 requests of 4 tokens with a common first page, 2 layers, pages of 2 tokens, segments of 2 pages, room for 5 segments, an index of one page per layer | References and pins are what holds a page, whoever failed or was cancelled (`RefsCounted`). Every request and every draft reads its own tokens through its table, and a page that can be written has one holder (`TablesRead`). The copies a forward starts with always fit what it reserved (`ClonesFit`). The index names complete pages of prompts, with their parents (`IndexSound`). Between forwards, layers, position and reservation of every request agree (`CommitWhole`). |

Why the bounds are enough. A race in the pool is between a call, the call it
races with and a third that evicts or closes; with two slots for three models
every load after the second evicts, with two sizes and three units the bytes run
out before the slots or after them, and with two loads a key has an old epoch and
a new one. In the actor, one call with a job before and one after it is the
smallest instance of a barrier; two slots are needed for a batch, and an output
queue of one makes every second item stall. Two calls in the server scheduler make the
deferred call meet a second one, and `MaxPending = 1` makes the sentinel find a
full queue. In the executor, three waiting operations for two models are the
smallest instance in which round robin and first-come order differ; of three tasks
two form a group and the third, of the other model, waits behind it, with a limit
that refuses one of them when they come together. Two requests with one common
page and one page of their own share, copy and evict; the capacity has room for
both and for one copied tail only, so that a batch of two has to give up prefixes
or fail, and the index evicts whenever both have published. In the cold
store a third key makes the count of two run out, sizes 2 and 2 the space, and a
size of 4 fits never; a third generation is one in the making, or an orphan,
beside two in the index; the second client reads, or finds what the first left.

Symmetry is used only in safety runs, and only over constants that the module treats
alike. `CHECK_DEADLOCK FALSE` stands in the runs of the actor, the scheduler, the
executor and the cache, where the thread leaves its loop after a close and requests
are bounded, so that the system really stops; and in both runs of the pool, where
`MaxEpoch` ends the loads and a close ends everything. The runs of the batch
scheduler and of the cold store check for deadlock.

### The three violations

* `actor_reader`: `read_sync` and `_read` ask the output queue first and
  `terminal.done()` afterwards. When the queue is empty at the timeout and the
  actor then puts the last items and resolves the future, the reader ends a
  stream whose last items are still in the queue.
* `scheduler_deadline`: `schedule` looks at `_closed` and puts the job later,
  without a lock. A job put after `close` has drained the queue is never answered,
  and its deadline is never looked at.
* `batching_starves`: `select` rotates the ready prefills by a cursor modulo their
  number in this pass. The docstring of `BatchScheduler` promises "rotating
  prefill/decode fairness", but when short prompts arrive and end between passes
  their number changes with the cursor, and it can point past the same prompt for
  ever: in the run one prompt is passed over in a cycle of six passes while others,
  that came later, are served. The pattern needs arrivals that keep in step with
  the cursor; nothing in `select` excludes it.

All are listed with their lines under `findings`.

## Fairness

* Pool and manager: weak fairness of each client's `Work`, and of the manager's
  own steps in load and unload: a thread inside a call is
  scheduled, loads and disposals end, and the holder of a lease releases it.
  Nothing is assumed of a new call, and no timeout is assumed to fire. Weak
  fairness is enough although threads compete for `_condition`, since no action
  of `Work` but `Drained` waits for a condition, and what `Drained` waits for
  cannot be undone once the key is marked.
* Actor: weak fairness of the thread's own steps and of the 10 ms after which a
  deferred job is looked at again, and strong fairness of `StallTimesOut` (a
  consumer that never reads is noticed after `output_stall_timeout_s`, even
  though it may read in between). Nothing is assumed of consumers, of cancellation,
  nor of the policy that picks a batch: with the bound on forwards, whatever is
  picked comes to an end, and the rest is picked then.
* Server scheduler: weak fairness of the worker and of a thread inside `close`.
* Device executor and tasks: weak fairness of the device thread and of the task
  thread: an operation ends.
* Batch scheduler: weak fairness of the pass: the loop goes on.

`JobEnds` and `CallAnswered` are checked with `Crashes = FALSE`. An exception
outside the per-job handlers ends the actor's loop, and the safety run has it
everywhere. The clean-up of a close runs then too, but it does not reach everything:
not the queued job or the call in hand when the device refused, nothing that it is
itself refused for, and not what is submitted afterwards, since `_closed` is unset.
Of these nothing is promised but that they are not ended twice and not in two
places.

## The proofs

The modules below prove, for any number of models, clients, operations, tasks, jobs,
calls, keys, generations, requests and layers, any slots, sizes, queue bounds,
prompts and page sizes:

| module | theorem | states |
|---|---|---|
| `ModelPoolProofs` | `TypeCorrect` | `TypeOK`: in particular that a lease count never goes below zero |
| | `LeasesAreSafe` | `LeaseSafety` |
| | `LeasesAreCounted` | `LeaseCount` |
| | `WaitersAreServed` | `JoinersServed` |
| | `DrainsAreOwned` | `DrainOwned` |
| | `PinsHold` | `PinnedStays` |
| | `CloseEmpties` | `ClosedIsEmpty` |
| | `SlotsReservedAhead` | `SlotInv`, the inductive form of the next |
| | `SlotsAreBounded` | `SlotBudget` |
| | `BytesAreBounded` | `ByteBudget` |
| `ModelManagerProofs` | `ManagerInvariance` | the inductive invariant of manager and pool |
| | `ManagerUsesPool` | `ManagerSpec => Spec`: a server uses its pool as the pool's module says |
| | `ServedModelIsResident` | `ServedIsResident` |
| `DeviceExecutorProofs` | `TypeCorrect` | `TypeOK`: dictionary and count agree with the queues |
| | `BypassedOnce` | `BypassOnce` |
| | `OrderIsKept` | `KeyOrder` |
| `TaskMicrobatchesProofs` | `TaskInvariance` | the inductive invariant of task thread and device |
| | `TasksHoldTheirLease` | `LeasedWhileUsed` |
| | `DeviceServesTasks` | `TypeOK`, `KeyOrder` and `BypassOnce` of the device that tasks share |
| `InferenceActorProofs` | `TypeCorrect` | `TypeOK`: in particular that nothing is queued twice and no output queue overflows |
| | `InOnePlace` | `OnePlace` |
| | `BarrierIsExclusive` | `BarrierExclusive` |
| | `BarrierKeepsOrder` | `BarrierOrder` |
| | `CountsAgree` | `CacheAgrees` |
| | `EndIsFinal` | `TerminalFinal` |
| | `HoldsAreBounded` | `Bounded` |
| `GenerationSchedulerProofs` | `TypeCorrect` | `TypeOK`: in particular that two jobs never share a slot |
| | `NothingLost` | `NoneLost` |
| | `CallsExclusive` | `CallExclusive` |
| | `CallsInOrder` | `CallOrder` |
| | `IteratorsAreClosed` | `IteratorsClosed` |
| `CacheRuntimeProofs` | `CacheInvariance` | `CInv`, the inductive invariant of pool, index, handles and forward |
| | `RefsAlwaysCounted` | `RefsCounted` |
| | `TablesAlwaysRead` | `TablesRead` |
| | `ClonesAlwaysFit` | `ClonesFit` |
| | `IndexAlwaysSound` | `IndexSound` |
| | `CommitsAreWhole` | `CommitWhole` |
| `ColdPrefixStoreProofs` | `KeysAreUnique` | no key is twice in the index |
| | `IndexIsBacked` | `IndexBacked` |
| | `GenerationsAreCollected` | `GenerationsCollected` |
| | `StoreImplements` | `Implements`: the files implement the list of `PrefixStore` |

The only assumptions are those on the constants, which TLC evaluates in every run:
`ModelPoolAssumption` (finitely many models and clients, a `None` that is neither,
positive budgets), `ModelManagerAssumption` (the manager's own client is one of
the pool's), `DeviceExecutorAssumption` (finitely many keys and operations, each
with a key), `TaskMicrobatchesAssumption` (each key has a name for the thread's
calls, which no other thread uses), `InferenceActorAssumption` (finitely many jobs and
calls, positive limits), `GenerationSchedulerAssumption` (finitely many jobs and
calls, a sentinel that is neither, positive limits), `ColdPrefixAssumption` (a `None` that is no key, no
generation and no list of records, positive limits), `PagePoolAssumption` (layers
numbered from 1, positive sizes, and enough segments that it is the capacity that
limits the pool) and `CacheRuntimeAssumption` with `NoHandle` (finitely many requests, each
with a prompt that is a piece of its stream, a positive quantum, a `None` that is no
handle).

*The pool.* None of the properties is inductive alone. That an evicted model
is not leased follows from its lease count being zero, hence `LeaseCount`; that
a release does not drive the count below zero needs the releasing client counted,
hence `LeaseCount` again and `Keyed` (a client with a lease has a key). That
publishing a model does not replace a leased one needs the key to have been
non-resident while it was loading (`Owned`), which holds because only a loader
publishes and a key has one loader. That `Resolve` gives its waiters nothing but
an answer needs `Waiting`: whoever waits does so for a loader of its own key.
Together these are `IInv`, proved inductive in `InvStep` with one step per
action. Three smaller invariants rest on it: `DrainInv` (a marked key has exactly
one unloading client), from which `PinsHold` follows by looking at the four
actions that take an entry out (`LiveSteps`); and `CloseInv` (what is resident or
loading is on the list of every close that has had no error, or is the key it is
waiting for), from which `CloseEmpties` follows.

*Slots.* A load asks for room once and counts neither its own victims, which it
disposes before it loads, nor those of loads registered later. `SlotBudget` alone
is therefore not inductive: a load that has disposed its victims goes on to bring
a model into memory without looking again. `SlotInv` says that the bound holds
for every set `S` of loads still at their disposals, when one imagines those of
`S` to be done with them and to hold a model. Registering a load establishes it
for the sets that contain the load, from the check in `HasRoom` and the fact that
loaders are at most as many as registered loads (`LoadersRegistered`); that the
load goes on takes it from `S` to what is counted.

*Bytes.* The code sums sizes in loops; the model has one helper for that, `Total`, a
fold over a set. `TotalIs` shows that such a sum is the number of elements of `Units`,
a set with one element for every byte: the fold is a recursive function on subsets,
and the smallest subset on which it differed from that number would, without one
member, be a smaller one. After that sums are cardinalities: they grow with the set,
add up over disjoint sets and change by one member's share (`TotalSubset`,
`TotalUnion`, `TotalOne`). `ByteBudget` needs no more than `IInv` and `SlotInv` beside
itself, since a load, unlike for slots, looks a second time, with what it measured,
before its model is published; what is evicted moves from the table to what is owed,
and the sum of both stays.

*The manager.* Its threads are clients of the pool that call it at a few places
only, so `ManagerUsesPool` is a matter of showing that each step is one of the
pool's or leaves it alone; every theorem about the pool holds in a server through
it. `MInv` says where each client of the pool can be while a manager is there:
`Owner` in the states that `load` and `unload` go through (`OwnerAt`), the others in
the calls of `model_lease` (`OthersAt`), nobody in `close`. `Fields` ties the
manager's key and lease to that, and `Holdings` says what is in memory at each step
of load and unload: at most the model of the manager, and none that it has given up.
`unload` gives up its lock between its two parts, and only `_unloading` keeps a
second unload out meanwhile (`OneUnloads`): the thread that took the lease out is
the one that says that nothing is loaded.

*The executor.* `DInv` ties queues, dictionary and count together: without it a
positive count would not mean that the first key of the dictionary has an
operation. `BypassInv` says that no key has been served since a key behind it
began to wait; `PlaceInv` that what was submitted earlier stands nearer to the
head, and that what has left its queue never comes back, since only a new
operation is submitted.

*The task thread.* The thread uses one name for all calls of a group, so that an
answered operation becomes new again (`Renew`). `TInv` therefore says of the device,
beside `DInv`, that what waits or has been taken is still to be answered
(`Unanswering`): a name that is given back is in no queue, and queues, order and
fairness are as before (`RenewKeeps`). Of the thread it says what it has in its
hands: tasks still to be looked at are queued, once, and no longer wait elsewhere
(`Queued`); a group has one key, by the choice in `Pick` (`OneKey`); from `Check`
until the group is settled what its calls use is running, and an iterator is open
only then, unless the device has refused to close it (`left`): it may then be open
at any step of a later group, until an iterator is made in its place (`InUse`).
`Called` ties both together: a call is under way only while the thread waits for it,
under the key of its group. The choice of a group is a set of places in the queue;
that both parts keep their order and are disjoint rests on numbering the members of
a finite set of numbers (`Numbered`).

*The server scheduler.* Without a lock, `close` may be between any two of its own steps
while the worker takes another, and there may be several closes: the invariant is
stated for any number of them. `GInv` has, beside the types, `Phases` (what each step of worker and close
finds), `Places` (every job has one hand, or none once it has ended, and slots are distinct),
`Line` and `Behind` (the order of the queue, as far as one sees it from what was in the
queue when something came), `Opens` (whose iterator can be open) and `Forgets` (what
a close may forget: nothing that waits). It is proved with one lemma per step.

*The cold store.* `SInv` says who holds the lock at which step, what a writer has on
disk there (`Locked`, `Backed`), and that outside the steps of a writer that was not
cut off no generation is on disk that the index does not name (`Clean`). `KeysOnce`
says that the index names a key once, which is what makes the removal of the first
entry in `PrefixStore` the same as the code's filter over all entries. The
refinement (`StoreImplements`) maps the index file to the list: a put takes effect
at `os.replace`, and its eviction loop takes the oldest until limits are met, which
the abstract step states as the least number that has to go.

*The caches.* The five invariants are about the same few things, so they are
proved from one, `CInv`, which has a part for the handles (`HandlesOK`), one for
each stage of the forward (`ForwardOK`) and one, `Sound`, for pages: pool, index and all
caches there are, of requests and of drafts. `Sound` is stated of any pool, any index
and any family of caches. What an operation does to a handle or a draft is then
a step from one family to another (one cache comes, goes, grows by a page, has its last
page rewritten, or takes another name), and each of these is one lemma about `Sound`
(`OneMore`, `RewrittenSound`, `AppendedSound`, ...), used by every action with such
a step. `Counted`, in `Sound`, says `refs` and `pins` of every live page as numbers of
places in a family. A number of places is a cardinality, not a loop: it stays when the
family is renamed by a bijection, as in the swap of originals and drafts, and adds
up over disjoint families (`UsesIs`, `CountNat`).

None of the five is inductive alone. That a page is not overwritten under
another reader needs that a page that is not sealed has one holder (`Alone`), which
needs the counts; that the counts are kept when a draft is cloned needs to know which
tails are copied and which are shared. `ClonesFit` needs `Copying`: at every clone the
pool has room for all tails that still await a copy, since `Begin` reserved it and
nothing else allocates before. That a roll-back restores what was computed needs
`Adopting`: while requests are reconciled one by one, `accounts` holds what the handles
were before, and the drafts are the caches of that time, in each layer as long as one
another (`Whole`). `_evict` runs until the index fits: the model's loop is a recursive
function on the number of turns, and that all its values are sound follows because the
first unsound one would come from a sound one by one turn (`EvictedSound`, by `Climb`).

*The actor.* `AInv` has six parts beside the types. `Places`: no job is in two of
the four places and none that has ended in any; while the loop runs each that has
not ended is in one, and until the thread has stopped all but one. `Hands`: what
each phase of the loop finds, for instance that what is being visited is still in a
slot, and that the jobs of a batch being committed are in slots or have ended.
`Counts`: between `Forward` and `CommitOne` the cache of a job that will be
committed is one pass ahead, for the jobs of the batch that have not been accounted
for yet (`Uncounted`), and of every other job it agrees. `CallsQueued` says where a
call is, `Ordered` that the queue has jobs and calls in the order of their
submission, as far as one can see from `behind`, and that what has been admitted
waited for no call; `Alone`, that while a call is taken and run, nothing is in a
slot and what is queued came later. `Ordered` is the part that makes the barrier
inductive: `Requeue` puts a job in front of calls, which is right because a paused
job was admitted before; `Postpone` inserts at the end of the jobs before the first
call (`AheadIs`), which is right because nothing is passed over. Every step that
ends jobs is reduced to one lemma about `Finish` (`FinishIs`, `Gone`), and every
refused call to one about leaving the loop with some of the jobs ended (`RefusedIs`,
`LeavesStep`). The queue is rewritten by five operations, for each of which a lemma
says what it keeps, in which order (`AppendIs`, `FrontIs`, `InsertIs`, `TailIs`,
`RemainingIs`). `HoldsAreBounded` is proved beside it: only `Submit` adds to the
jobs in the actor's hands (`Held`), when queue and paused list together have room,
and what it has in its hands is in these two, in a slot, or the one on its way
(`HeldCount`).

*Only model-checked.* The liveness properties and whatever rests on fairness or ENABLED:
`UnloadEnds`, `JoinEnds`, `JobEnds`, `CallAnswered`, `CloseReturns`, `Answered`,
`WorkerExits`, `AllEnd`. Every invariant and every action property of the runs is
proved. Induction is not out of reach altogether: the library's induction theorems
cannot be applied, but the argument of a smallest counterexample can (`TotalIs`,
`Climb`). `batching_starves`, `actor_reader` and `scheduler_deadline` are violations,
hence runs only; `BatchScheduler` has no theorem.

## What is not modelled

`PROJECT.json` lists every component with its reason. In short: tensor
arithmetic, parsing and formatting (models, media, text, reports, HTTP, command
line) keep no state that threads share, and are most of the lines; admission
policies, sessions and pressure are the plan below. Garbage collection is not a
step anywhere: a lease that nobody releases stays.

## Plan

In this order, most important first:

1. `DeviceSession` (`engine/sessions.py`): a call that fails, and close, on a leased
   model; as one more client of `ModelPool` and `DeviceExecutor`.
2. `MemoryPressure` (`engine/pressure.py`): the hysteresis of `poll`, and `shed`
   against the caches.
3. Admission (`engine/admission.py`, `engine/scheduler.py`): deadlines and the
   two-second rule of `_admit`, checked for starvation as `BatchScheduler` is.
4. The other cache backends: `trim`, sliding windows, hybrid state, and the
   acceptance of a speculative draft, each against a reference definition.
5. Abstract specifications: a lease service for the pool, and one queue with
   barriers for actor and server scheduler, shown to be refined.

Theorems to come: those refinements, and for the two schedulers what a liveness
proof would rest on: that each turn of a loop takes it nearer to its end.
