# Verification of ez-a-sync

TLA+ modules, TLC model configurations and TLAPS proofs for `ez-a-sync`
(`src/`), a Python/Cython library that lets one definition be called
synchronously or asynchronously, and that brings its own asyncio primitives:
semaphores, queues with worker tasks, counters, events, mappings of tasks.

Line numbers refer to files under `src/a_sync/`. `PROJECT.json` maps every
definition that models code to the lines it stands for.

## 1. The system

### Components, their state and operations

| Component | State | Operations | What makes it correct |
|---|---|---|---|
| `Semaphore` (`primitives/locks/semaphore.pyx`) | `_value`, deque `_waiters` of futures | `acquire` (plain function that returns a coroutine), `__acquire`, `release`, `_wake_up_next`, `locked` | permits conserved through cancellation; order of the deque; no permit free while someone sleeps |
| `PrioritySemaphore` (`primitives/locks/prio_semaphore.pyx`) | `_value`, a heap of context managers, a dict by priority, one deque per manager, a "top" manager, a set of potential lost waiters | `semaphore[p]`, manager `acquire`/`release`, `_wake_up_next` | as above, and the heap, dict and deques agree; higher priority first |
| `ProcessingQueue`, `PriorityProcessingQueue` (`primitives/queue.py`) | queue, `_unfinished_tasks`, worker tasks, futures (weakly proxied) | `put_nowait`, `close`, `_worker_coro`, `join` | every accepted job is settled; `join` means processed; cancellation and results do not clash |
| `SmartProcessingQueue`, `SmartFuture`, `SmartTask`, `shield` (`_smart.pyx`, `queue.py`) | weak dict of futures by key, weak set of waiters, heap ordered by number of waiters | `put_nowait` (shares a pending future), `_get`, `__await__`, `shield` | one run per key; most wanted first; the inner task outlives the waiters it should |
| `Queue` (`primitives/queue.py`) | items, unfinished count | `get_all`, `get_multi` and nowait forms | FIFO, nothing lost, sizes as asked |
| `CounterLock`, `CounterLockCluster` (`primitives/locks/counter.pyx`) | `_value`, heap of values, dict of events | `wait_for`, `set` | heap and dict agree; whoever waits is woken when the value is reached |
| `Event` (`primitives/locks/event.pyx`) | flag, list of waiting futures | `set`, `clear`, `wait` | a waiter of a pulse is woken once |
| `TaskMapping` (`task.py`) | tasks by key, iteration events, loader task | `__getitem__`, iteration, `map`, `pop`, `gather` | every key is yielded once; iteration ends |
| threaded executors (`executor.py`) | work queue, set of threads, idle semaphore | `submit`, worker loop with an idle timeout, `shutdown` | every submission is run in spite of the timeout |
| task creation (`asyncio/*.pyx`) | persisted tasks, stored exceptions | `create_task`, `igather`, `gather`, `as_completed` | results in order; first exception is raised once |
| functions, methods, properties, base class, flags (`a_sync/*.pyx`) | modifiers, defaults, flags of an instance | calls | a call is sync or async as the flags say |
| metaclass, singleton (`a_sync/_meta.py`, `singleton.py`) | instances by sync flag, locks | construction | one instance of each kind, across threads |
| modifiers (`a_sync/modifiers/`) | one semaphore, limiter, cache or executor per function | wrapping | order of application |
| `async_property` (`async_property/*.pyx`) | cached value, lock and task per attribute | loader, proxy | loaded once |
| iterators (`iter.pyx`, `utils/iterators.py`) | one queue with sentinels | `as_yielded` | every item once, and an end |
| `ASyncFuture` (`future.py`) | state of a `concurrent.futures.Future`, one task per future | operators, `await`, `result`, comparison | all are told the same; a cancellation stays among those who share |
| debug daemons, exceptions, typing, mypy plugin | none that matters to a protocol | | |

### How they interact

* `a_sync` functions call through modifiers; `semaphore=` gives a
  `ThreadsafeSemaphore`, one `Semaphore` per thread.
* `ProcessingQueue` starts its workers with `create_task` and joins them with
  `igather`; when a worker dies the gathering task fails, and
  `_ensure_workers` raises from then on.
* `SmartProcessingQueue` hands out shields around `SmartFuture`s, and reads the
  number of their waiters while it compares them in its heap. A waiter that is a
  `SmartTask` counts as those that wait for it.
* A method asks its instance for the mode, the instance looks at its flag, and
  the class may have predicted it already; each layer of a bound method looks at
  the flag of the call and applies the semaphore of its class.
* The operands of an `ASyncFuture` are gathered by `igather`, and each has one
  task, which all its awaiters share.
* `CounterLock` creates one `Event` per awaited value and sets it;
  `TaskMapping` pulses two events to drive its iteration.
* Everything but the executors and the metaclass runs in event loops: code
  between two awaits is atomic, and the loop runs tasks in between.

### What is hard

* A future gets its result in one step and its task runs in a later one. A
  cancellation, another acquire or a release fits in between.
* Managers, futures and events are reached through several structures (heap,
  dict, set, weak references) that are updated one after the other.
* `CancelledError` is not an `Exception` and takes paths of its own.
* Weakly held futures may vanish between two steps.

The hazards are listed with their lines in `PROJECT.json`, next to the
properties that cover them. Where the code is exposed to a hazard, the properties
that hold leave out that case; a `note` says what they leave out, and which
configuration of section 3 shows it.

## 2. Modules

| Module | Models |
|---|---|
| `PermitPool` | abstract: what a semaphore promises, without order |
| `PrioritySemaphore` | `PrioritySemaphore` and its context managers, on one loop |
| `Semaphore` | `Semaphore`, on one loop |
| `ProcessingQueue` | `ProcessingQueue` and `PriorityProcessingQueue`, their workers and futures |
| `SmartQueue` | `SmartProcessingQueue`, its shared futures and their waiters, its heap |
| `MultiQueue` | the multi-item operations of `Queue` |
| `CounterLock` | `CounterLock` with the `Event`s it creates, on several loops |
| `TaskMapping` | `TaskMapping`: loader, tasks of the keys, iterations, `Event` as a pulse |
| `Executor` | `PruningThreadPoolExecutor`: submission, threads, time-out, shutdown |
| `CachedProperty` | the loader of a cached property |
| `Iterators` | `as_yielded` and what is built on it |
| `Calls` | the decision between synchronous and asynchronous, the layers of a call, singletons |
| `ASyncFuture` | lazy futures and the operations over them |
| `PrioritySemaphoreProofs`, `SemaphoreProofs`, `SmartQueueProofs`, `CallsProofs` | theorems about the module that each extends |
| `ProcessingQueueProofs` | theorems about `ProcessingQueue`, and about `Executor`, the other way to run jobs, as the instance `Pool` |
| `MultiQueueProofs` | theorems about `MultiQueue`, and about `Iterators`, which take all that a `Queue` has, as the instance `Merge` |
| `TaskMappingProofs` | theorems about `TaskMapping`, and about `CounterLock`, the other user of events, as the instance `Counter` |
| `CachedPropertyProofs` | theorems about `CachedProperty`, and about `ASyncFuture`, where a task is shared as well, as the instance `Expr` |
| `MC*` | instances of these for TLC |

The modules are independent of one another but for `PermitPool`, which the two
semaphores implement: at run time, too, these parts meet through asyncio's
futures and queues and not through each other's state. Where one uses another,
the user's module has the part it needs: `CounterLock` and `TaskMapping` have
their events, `Calls` its semaphores, `Iterators` and `ASyncFuture` their
gathering.

**One action is what runs between two awaits.** An operation that suspends is
split where the code awaits: `Acquire` ends where `__acquire` awaits its
future, `Resume` starts when the woken task runs, `CancelStep` when a cancelled
one does. `Cancel` is `Task.cancel()`: a pending future is cancelled at once, a
future with a result is not, but the task gets its `CancelledError` all the
same (`wokenCancelled`). Ready tasks run in any order, where asyncio runs them
first come, first served: what holds here holds there, and the violations below
do not depend on the order (see the notes at each).

**PrioritySemaphore.** `value` is `_Semaphore__value`, `queue[m]` the deque of
manager `m`, `heap` the set of managers in the heap (their order is that of
`Prio`), `cms` the dict, `lost` the pending part of `_potential_lost_waiters`,
`mgr[t]` the manager object that task `t` holds. Manager objects have identity:
the code may drop a manager from the dict while tasks still use it and create
another for the same priority, so `Managers` may hold two with one priority.
`KeyOf` is `priority or -1` (line 578): `semaphore[None]` and `semaphore[0]` give
the manager of priority -1, an ordinary one beside the top manager, although the
docstrings (lines 144 and 569) say that None uses the top priority. Only
`acquire()` and `async with` on the semaphore itself do.
`WakeUpNext` is `_wake_up_next` as one step: the top manager first
(`WakeTop`), else the heap loop up to a manager with a pending waiter
(`WakeAtHead`, `WakeBehindDone`), which drops what it passes, and the emergency
procedure (`WakeLost`, `Rescued`) when that found nobody or left the loop early.

**Semaphore.** `Locked`, `WakeUpNext` and the actions follow the methods of the
same names. `spawned` are the tasks that run the coroutine of an `acquire()`
called before they started; for all others the call and the first step of the
coroutine are one step. `granted` is the `_noop` coroutine of an acquire that
took its permit at the call, `blocked` the `__acquire` coroutine not yet
started.

**ProcessingQueue.** `mode` fixes how the queue was created (`prioritized`,
`returnData`) and what may go wrong (`dropped`: jobs whose caller drops the
future; `fatal`: jobs whose function raises `CancelledError`). `fut` is the
state of each future, `collected` being one of which only the queue's proxy is
left. `at`, `job` are the workers. `asyncio.Queue` is external.

**MultiQueue.** `items`, `bound`, `want` are locals of a suspended `get_all` or
`get_multi`. `Loop` is the loop of `get_multi` from one await to the next;
`bound` says whether `extend`, looked up before the loop, is still a method of
the list that will be returned.

**SmartQueue.** `keyOf`, `state` are the shared futures, `popped` those that left
`_futs`, `heap` the list of `heapq`, with `HeapPush`, `HeapPop` and `Get` as
`heapq` has them, since what a comparison says changes after an entry was placed.
Its `siftdown` and `siftup` are the recursive functions `Up` and `Down` of a heap
and a place in it (`Places`). `shield[c]`, `on[c]` are the shield that caller `c`
got and the future it hangs on. Nothing stores who is alive: `Alive` follows from
the references that are left, among them the variable `fut` of a worker, which
keeps a done future until the worker's next job (`queue.py:861` then finds it).
`Dies` is a function that raises `CancelledError`, which passes the
`except Exception`: the worker is dead, and its traceback keeps the future, which
stays pending and known. `refuses` says that `put` raises, after `close()` or
because the task that gathers the workers has ended.

**TaskMapping.** `loader` is `_init_loader`, `task[k]` all the tasks that were
started for a key, and `mapping[k]` which of them the dict has, 0 if the key is not
there: a key that was removed may be started again, by the user (`GetItem`), by an
iteration that reads `self[key]` (line 274), by the loader or by `map`. An
iteration is a program counter `pc[c]` with `todo[c]`, the entries its loop has yet
to yield: it suspends at each. `taken[c]` are the keys that others removed while it
ran. `Left` is what it still yields when the loader is done, which for
`keys(pop=True)` is all that the dict has (line 851), yielded before or not;
`Clears` says which ends clear the mapping: every end of a popping iteration, but
of `keys` the normal one only. `isSet` and the waits model `Event.set` followed by
`clear`: who waits at that moment is woken, who comes later waits for the next.

**Executor.** `workQueue`, `idle`, `threads` are `_work_queue`,
`_idle_semaphore`, `_threads`. `Submit` ends where the job is in the queue and
`Adjust` is `_adjust_thread_count`; a thread finds the queue empty in `TimeOut`
and decides under the lock later (`MayLeave`). `keeps` are the threads whose local
`executor` still refers to the pool: after the `continue` at line 472 the last
worker does, and a pool that nobody uses is never collected. A thread whose
initializer fails drains the queue (`InitializerFails`), the None of a shutdown
included: the state is then `drained`, in which nobody wakes the other threads.

**CachedProperty.** `locked`, `tasks`, `cache` are the entries of the three dicts
for one attribute, `holder`, `queue` the `asyncio.Lock`s, `load` the tasks that
run the getter. Locks have identity, for the entry may be dropped while callers
wait. `checksFirst` tells the loader of `property.pyx` from that of
`async_property`.

**Iterators.** `queue`, `unfinished` belong to the shared queue, `task` is the
populating task, `gen` and `batch` the generator and what it took from the queue
and did not yield yet; `view` is what consumes it: the iterator itself, a filter,
or a sorter with a synchronous or an asynchronous key. `Sorted` is the one
arrangement of what it got that increases, and `Precedes` says that one item was
yielded before another.

**Calls.** `class` is a definition: where its flag comes from, the kind of its
member, how that is defined and decorated, its permits. `Key` is the prediction
from the signature (`abstract.pyx`, `base.pyx`), `ModeMade` what the constructor
makes of it, and the two are compared only by what callers get. `Decision`s
(`FunctionDecision`, `MethodDecision`, `PropertyDecision`) follow the branches of
`function.pyx`, `method.pyx` and `property.pyx`; `Layers` is how many wrappers
take a permit. Threads interleave at every access of the instance dict.

**ASyncFuture.** `state[f]` is the future, `task[f]` that of its awaitable,
`at[w]` each waiter: a caller, or one of the two awaits an operation gathers
(`Children`). `Below(f)` is what `f` is computed from, the least set that has `f`
and the operands of what it has. `Materialize` and `Compare` are plain code that runs the loop until
it has a value.

**CounterLock.** `events[v]` is the loop of the event the dict has for `v`,
`heap[v]` how often `v` is in the heap, the waiters of an event are the tasks
that wait for its value. `WaitForeign` is the except clause of `wait_for`,
reached when the event of a value belongs to another loop.

## 3. Runs

| Run | Instance | Shows |
|---|---|---|
| `PrioritySemaphore` | 3 tasks, 1 permit, the top manager and 2 of one priority, named by None and 0, deques up to 2 | no lost wake-up, structures agree, top first, and it implements `PermitPool`, liveness included |
| `Semaphore` | 4 tasks, 2 permits, none or two spawned | first come first served, no barging, everyone who awaits at once is served, steps of `PermitPool` |
| `ProcessingQueue` | 4 jobs, 2 workers, every mode | exact count, `join` means processed, a job is with one worker and kills no other, every job settles |
| `MultiQueue` | 2 consumers, 4 items, lists of 2 or 3 | first in first out, nothing lost but by `get_multi`, exact count but after putting back |
| `CounterLock` | 3 tasks on 2 loops, values up to 3 | heap and dict agree, waiters are found and return |
| `SmartQueue` | 3 keys, 3 callers (one a `SmartTask`), 2 workers that may die, 4 asks, 3 future objects | one run per key at a time, no job lost but with its worker, most waiters first |
| `TaskMapping` | 2 keys (one may fail, one is removed and asked for again), 2 iterations in four combinations | who remembers gets no key twice and who pops no task twice, an end means everything, every iteration ends |
| `Executor` | 3 jobs (one fire-and-forget), up to 2 threads | a queued job has a thread, every job settles, threads end after shutdown, by their timeouts if the None was drained |
| `CachedProperty` | 3 callers, assignment, deletion, cancellation, failure, both loaders | the task is shared, nobody pops another's entries, callers return |
| `Iterators` | 3 iterators with 2, 2 and 0 items, four views | an end means everything, in order; the generator ends |
| `Calls` | 3 callers in 2 threads; 12 ways to define a flag, 24 kinds of member with each flag, 6 limited classes | the mode asked for is given, the layers agree, one instance per mode, callers are answered |
| `ASyncFuture` | 3 futures in 3 expressions; two tasks, or a task and plain code | awaiters agree, cancellation stays among sharers, values arrive |

Each module also has a `TypeOK`, and all of these are proved. Also stated, but in
no run of the list: `PermitsConserved`, `LostCoversWaiting`, `ModeIsStable`,
`QueuedOnce` (`Semaphore`, `PrioritySemaphore`), `ResultsAreWhole`, `CountsThePuts`,
`RunsOnce`, `JobsAreSomewhere`, `JobsRunOnce` and `CountIsExact`, which are proved,
and `JoinReturns`. TLC finds them, and the types, true on the instances of the runs.

### What the code says of itself and does not keep

Each of these has a configuration of its own, in which TLC finds the named
property violated (`tlc -config <configuration>.cfg MC<module>.tla`); they are
not among the runs above, which all pass.

| Configuration | Module, property | What is said |
|---|---|---|
| `PrioritySemaphoreOrder` | `MCPrioritySemaphore`, `HigherFirst` | "ensuring that higher priority waiters are processed before lower priority ones" (`prio_semaphore.pyx:4-5`) |
| `PrioritySemaphoreStarve` | `MCPrioritySemaphore`, `NobodyWaitsForever` | "ensuring that no waiter is left indefinitely waiting" (`prio_semaphore.pyx:210-211`) |
| `SemaphoreSpawned` | `MCSemaphore`, `AcquireReturns` | "block, waiting until some other coroutine has called release()" (`semaphore.pyx:200-201`) |
| `ProcessingQueueDrop` | `MCProcessingQueue`, `DroppingIsHarmless` | "the weakref was already cleaned up, we don't need to process this item" (`queue.py:475`) |
| `PriorityNoData` | `MCProcessingQueue`, `JoinSettlesFutures` | "The future representing the result of the task." (`queue.py:658-659`) |
| `MultiQueueLost` | `MCMultiQueue`, `MultiLosesNothing` | "Asynchronously retrieves up to `i` items from the queue." (`queue.py:124`) |
| `SmartQueueOrder` | `MCSmartQueue`, `AlwaysMostWaitersFirst` | "to ensure we get the job with the most waiters" (`queue.py:709-711`) |
| `IteratorsDone` | `MCIterators`, `NothingAfterDone` | `assert queue.empty()` (`utils/iterators.py:263`) |
| `IteratorsSort` | `MCIterators`, `SorterYieldsAll` | "It supports both synchronous and asynchronous key functions." (the repository's `README.md:279`) |
| `TaskMappingKeys` | `MCTaskMapping`, `KeysYieldOnce` | "don't need to check yielded since we've been popping them as we go" (`task.py:850`) |
| `ExecutorRecreated` | `MCExecutor`, `RecreatedAsNeeded` | "Pruned threads will be automatically recreated as needed" (`executor.py:506`) |
| `CallsPermits` | `MCCalls`, `EveryCallReturns` | "this is detected propely by undecorated test_fn" (`tests/fixtures.py:119`) |

1. `_wake_up_next` of `PrioritySemaphore` wakes the first waiter of a manager
   and leaves the heap loop by a `break` that skips pushing the manager back
   (line 280). Its other waiters are found only by the emergency procedure, in
   no order. The emergency procedure is what keeps the semaphore live:
   `LostCoversWaiting` and `NoLostWakeup` hold because of it, and fail without it.
2. A wake-up of `PrioritySemaphore` carries no permit: `__acquire` tests the
   value again, and queues again behind the others. Two tasks suffice for one
   of them to wait for ever, in the order in which asyncio would run them.
   (`Semaphore` hands over the permit with the wake-up: `NoBarging` and
   `WaiterIsServed` hold.)
3. `Semaphore.acquire` tests `locked()` when called and queues its future when
   its coroutine runs. With `create_task(semaphore.acquire())` a release may
   fall in between, and the task waits beside a free permit. A permit taken by a
   spawned task that is cancelled before it starts is lost, too:
   `PermitsConserved` is an equality only when nothing is spawned.
4. The test `fut is None` of the worker (`queue.py:474`) is never true of a
   `weakref.proxy`; asking a dead proxy raises `ReferenceError` and ends the
   worker.
5. `_get` of `PriorityProcessingQueue` returns three values, of which the
   worker without return data unpacks two: no job is ever run.
6. `get_multi` replaces its list when it has to wait, but keeps `extend` of the
   old one, and asks `get_multi_nowait` for a single item, which refuses.
7. `heappop` followed by `heappushpop` finds the job with the most waiters in a
   heap of up to four jobs; of five, it may be the child of one that has none.
8. When one iterator raises, `_Done(exc)` is put while the others still run and
   put items behind it, and the assertion fails in place of the exception.
9. With an asynchronous key function the sorter collects the values of the
   keys and yields nothing unless the iterable is a synchronous one
   (`iter.pyx:785-797`).
10. `keys(pop=True)` has popped a key; another iteration, for which the key was
    ready, reads `self[key]` and so starts it again; when the loader is done
    `keys` yields all that the dict has, and this key a second time.
11. A pool of two threads may run one job after the other: `submit` acquires the
    idle semaphore while the thread that released it takes an older job, and
    starts no other.
12. A plain `async def` in a class with a semaphore is limited by both layers of
    the bound method, so that with one permit a call waits for itself.

Other things the models show, without a configuration of their own:

* `CachedProperty`: deleting the value while callers hold or wait for the lock
  makes two of them load it, and one fail with `KeyError`; a value assigned
  during a load is overwritten by the older one.
* `PrioritySemaphore`: `semaphore[None]` and `semaphore[0]` wait behind those who
  use the top manager, where two docstrings say that None uses the top priority.
* `Executor`: the future of a job that `shutdown` takes out of the queue stays
  pending (line 603); a pool whose last thread timed out is never collected; a
  thread that starts late and whose initializer fails takes the None of
  `shutdown()` from the others, which stay until they time out (ten minutes).
* `TaskMapping`: a task cancelled before its first step never pulses, so that an
  iteration may wait for ever (`early` in `IterationEnds`); `map(pop=False)`
  yields keys several times, `map(pop=True)` one that was started again; a key
  deleted during a ready loop starts its task again (line 274); `any` and `all`
  that are refused, since the mapping was consumed already, clear it under the
  iteration that is consuming it.
* `Iterators`: a consumer that stops leaves the populating task in `join` for
  ever.
* `SmartQueue`: a worker without work keeps its last future alive, and the next
  `put` of that key gets the old result; jobs with few waiters may starve; a
  function that raises `CancelledError` kills its worker, whose future stays
  pending and is shared with every later caller until `put` refuses.
* `Calls`: positional flags and flags of base classes are not seen by the key of
  a singleton, so that an instance may be of the other mode
  (`abstract.pyx:174`, `base.pyx:194`, `base.pyx:253-257`).
* `ASyncFuture`: cancelling one awaiter cancels the shared task, and with it all
  who share it; the future itself stays pending, and every later await raises
  `CancelledError`.

### Bounds, symmetry, deadlock

Three tasks and one permit are the least with a holder, a woken and a waiting
task at once; two managers of one priority beside the top one are the least where
a task uses a manager that was replaced (waiters of two named priorities are what
`PrioritySemaphoreOrder` is about, where no order is kept). `MaxQueue` bounds a deque by
refusing `Acquire`: done futures pile up in a deque until they are popped, and
two entries already contain a done one before a pending one. Four tasks and two
permits let the plain semaphore hand over two permits while two tasks wait, one
of them cancelled. Four jobs and two workers let both workers die with jobs
left. Four items contain a list that is too short, one that is right, and one
left over; `MaxRecount` bounds how often `get_multi_nowait` puts items back.
Values up to three give `set` two heap entries to pop and one to leave.

In `SmartQueue`, `MaxAsks` bounds the calls: four let a key be asked for again
after its future was done while others wait; `Futs` bounds the futures in use
at once, which three callers can have. The run has three jobs in the heap at
once; `SmartQueueFour`, a larger instance (3 minutes on four cores), has four, where
`MostWaitersFirst` still holds: whichever job moves to the root of the heap was
compared with all others. With five (`SmartQueueOrder`) it does not.

Two keys and two iterations are the least in which one iteration removes what
the other is about to yield. `Asked` has one key, which the user may remove and
ask for while it has had fewer tasks than `Starts` allows (none, one or two, by the
combination): each way to start a key again occurs in one of the four, by
an iteration, by the loader after the user, and by the user or `map` in any order.
Three jobs and two threads let one thread leave,
one run and a job arrive. Three callers of a cached property are one that
loads, one that was handed the lock, and one behind it. Two iterators with two
items each interleave, and the empty one ends first. In `Calls` an instance,
once made, is kept, so that three callers meet in every phase of construction;
two of them share a thread and a semaphore. In `ASyncFuture` futures are made
before any is awaited, at most one is dropped and each task awaits once; the
expressions are two operations over one call, one over two, and an operation
over its own operand.

Symmetry is used in runs without liveness properties only. Deadlock is checked
where a system can go on for ever (the semaphores, `CounterLock`). In the other
runs the work is finite, and to stop is right: all jobs, keys or items are done,
all callers answered, or consumers wait for items that nobody puts. What must
not stop early is said by their liveness properties.

### Fairness

The loop runs every ready task: weak fairness of `Resume`, `Start`,
`CancelStep`, of a worker's `Take` and `Finish` and of the gathering task's
`Break`. A holder releases its permit, and a job's function ends: these are the
caller's duty, and without them nothing can be promised. Weak fairness is enough since a ready task stays ready.
Nothing is assumed of new acquires, cancellations or submissions.

* `TaskMapping`: the tasks of keys, the loader and the iterations go on, the
  iterables end; nobody has to begin, remove or stop.
* `Executor`: threads run, jobs end, the loop returns from `submit` and runs its
  callbacks. A time-out need never happen, except where the None of `shutdown()`
  was drained: there `ThreadsEnd` assumes that a thread without work times out.
* `CachedProperty`: the loop runs the callers, and the getter ends.
* `Iterators`: the iterators and the populating task go on, and a consumer that
  has not closed the generator asks for the next item.
* `ASyncFuture`: while the loop runs, it runs what is ready, and coroutines end.
* `Calls` needs strong fairness of each caller, as a lock or a permit may be free
  and taken again any number of times. The code justifies it: the semaphore
  serves its waiters in order (`FirstComeFirstServed`), the loop its ready tasks
  likewise, and a singleton class lets each thread through its lock once.

## 4. Proofs

TLAPS checks the following for every value of the constants: any finite set of
tasks or workers, any priorities, capacities, loops, values and bounds.

| Module | Theorem | States |
|---|---|---|
| `PrioritySemaphoreProofs` | `TypeCorrect`, `PermitsAreConserved`, `NoWakeupIsLost`, `WaitersAreReachable`, `HeapIsCoherent` | `TypeOK`, `PermitsConserved`, `NoLostWakeup`, `LostCoversWaiting` with `LiveAreWaiting`, `HeapCoherent` |
| | `WaitersAreQueuedOnce`, `TopIsServedFirst` | `QueuedOnce`, `TopFirst` |
| | `StepsArePoolSteps` | `PoolSafety`: each step is one of `PermitPool`, or none |
| `SemaphoreProofs` | `TypeCorrect`, `PermitsAreConserved`, `NoWakeupIsLost`, `ServedInOrder`, `NobodyBarges` | `TypeOK`, `PermitsConserved`, `NoLostWakeup`, `QueuedOnce` with `FirstComeFirstServed`, `NoBarging` |
| | `ImplementsPool` | `PoolSafety` |
| `ProcessingQueueProofs` | `CountIsExact`, `JoinReturnsInTime`, `JobsHaveOneWorker` | `UnfinishedIsExact` with `TypeOK`, `JoinMeansProcessed`, `OneJobOneWorker` |
| | `AThreadRemains`, `NoPoolJobIsLost`, `PoolJobsRunOnce` | of `Executor`: `OneThreadRemains`, `JobsAreSomewhere` with `TypeOK`, `JobsRunOnce` |
| `SmartQueueProofs` | `TypeCorrect`, `JobsRunAlone`, `NoJobIsLost`, `MostWantedRunsFirst` | `TypeOK`, `JobsAreShared`, `JobIsQueuedOrRuns`, `MostWaitersFirst` |
| `MultiQueueProofs` | `TypeCorrect`, `ListsAreWhole`, `FirstInFirstOut`, `NoItemIsLost`, `UnfinishedIsCounted` | `TypeOK`, `ResultsAreWhole`, `TakenAreOlder`, `NothingLost`, `UnfinishedIsExact` with `CountsThePuts` |
| | `MergedEndsAreComplete`, `MergingCountsItsItems` | of `Iterators`: `EndIsComplete`, `CountIsExact` with `TypeOK` |
| `TaskMappingProofs` | `TypeCorrect`, `KeysAreYieldedOnce`, `EndsAreComplete` | `TypeOK`, `YieldsOnce`, `EndsWithEverything` |
| | `HeapAndDictAgree`, `NobodyIsLeftBehind` | of `CounterLock`: `HeapMatchesEvents` with `TypeOK`, `WaitersAreReachable` |
| `CachedPropertyProofs` | `TypeCorrect`, `NobodyPopsForAnother`, `TasksAreShared` | `TypeOK`, `NobodyElsePopped`, `RunningTaskIsShared` |
| | `AwaitersAreToldTheSame`, `CancelsReachSharers`, `CoroutinesRunOnce`, `ExpressionsHaveTypes` | of `ASyncFuture`: `AwaitersAgree`, `CancelStaysAmongSharers`, `RunsOnce`, `TypeOK` |
| `CallsProofs` | `OneInstanceIsKept`, `AskedModesAreGiven`, `CallsGiveWhatIsWanted`, `ModesAreStable`, `TypeCorrect` | `OneInstancePerMode`, `AskedModeIsGiven`, `ResultIsAsWanted`, `ModeIsStable`, `TypeOK` |

So every invariant and every action property that a run checks holds for every
value of the constants. They rest on the named assumptions of each module (finite
sets, a marker that is not a task, a priority for each manager, distinct priorities
of jobs, an event loop for each task, class definitions of the shape that `Calls`
describes), which TLC evaluates on its instances. An instance does not bring the
assumptions of its module along: the theorems about instances have what they need of
them as hypotheses (`CounterConstants`, `PoolConstants`, `Distinct`, `PlansFit`,
`ItemsDiffer`), and `AThreadRemains` needs none.

Each proof goes through an inductive invariant, since no single property is
inductive: `IInv`, and of the instances `CounterInv`, `PoolInv` and `PoolJobs`,
`ExprInv` and `ShareInv`, `MergeInv` and `MergeCount`.

**PrioritySemaphore.** `NoLostWakeup` needs that `_wake_up_next` wakes somebody
whenever somebody waits. That follows from `LostCoversWaiting` and the fact that
`lost` holds nobody but waiting tasks (`LostIsWaiting`), whatever the heap has
lost. That whoever is woken was waiting, so that a wake-up is not spent on a
task that is gone, needs `LiveAreWaiting`, and that a task which entered has a
manager (`MgrKnown`). `PermitsConserved` ties the free permits to the tasks.
`HeapCoherent` needs only that the heap loop drops a manager from both. Each way
`WakeUpNext` may go has a lemma saying which tasks it wakes. For `TopFirst`: a
wake-up looks at the deque of the top manager before all others, and finds there
whoever waits with that manager, which is `QueuedOnce`. It pops done futures and
the first waiter, whose future is nowhere else, so that `QueuedOnce` stays true of
the rest (`RestKeeps`).

**Semaphore.** Everything needs `QueuedOnce`: the deque has each task that
awaits its future, once. `FirstComeFirstServed` is kept because a task leaves
the deque without changing the order of the others (`WithoutOrdered`), and the
wake-up takes the first pending one (`WakeUpNextKeeps`).
`NoLostWakeup`, and the equality in `PermitsConserved`, are claimed when nothing
is spawned; that nobody is then between the call and the first step is
`OnlySpawned`.

**The pool.** `PoolSafety` says that each step maps to a step of `PermitPool` or
to none. A task is granted a permit only while fewer than `Capacity` hold one:
that is `PermitsConserved`, since such a task owns a permit it does not hold yet
(`RoomForOwner`), or finds one free.

**ProcessingQueue.** The count alone does not say that the jobs no longer
counted are settled. `Tracked` does: in a queue that works, a pending future's
job is in the queue or with a worker, and a job that was accepted, not given up
and not run is in the queue. `OneJobOneWorker` is inductive with `Apart`: who has a
job is not idle, what was never put is nowhere, and a future is collected only if
its caller may drop it. So the worker that meets a collected future dies of that
job, and one that meets a cancelled future goes on, whenever it was cancelled.

**MultiQueue.** Items are numbered as they are put. `TakenAreOlder` says that the
queue is in order and begins behind all that was taken; so putting back what
`get_multi_nowait` took leaves it in order. `Numbered` bounds the items by `puts`,
which makes a new one the youngest. `NothingLost` needs `NothingHeld`, that no
operation but `get_multi` keeps items over an await. The count is exact, or too
large (`CountsThePuts`), and that is why it never becomes negative: `acked` is a
subset of what was put. What `Loop` and its bound take is said once
(`Taken`), and each operation is shown to be such a step.

**TaskMapping.** While an iteration goes on, each key that has come is in the dict,
or others have taken it out, or it has yielded it (`Kept`). For one that remembers,
`Fresh` says that what it still has to do was not yielded; for one that pops,
`Counted` that a key it yielded and that is there again has another task.
`Whereabouts` says where it may be, and `Complete` that while it drains, and when it
has ended, every key was yielded, taken by others, or is still to do: so the
clearing at the end of a popping iteration, which empties the dict, loses none of
them. None of these speaks of two iterations: all that a step may do to what they share is `Shared` (keys come, are
started, and are taken out), and `OthersKeep` says that this disturbs nobody else.

**CachedProperty.** While nothing is cached all callers have the lock of the entry
(`OneLock`), whoever awaits a task has that lock, and the task is that of the entry
(`AwaitsTheTask`). One caller at a time is under a lock (`Holds`), the queue of a
lock has those that wait for it, once (`QueueHasWaiters`), and who was woken is its
first (`FirstIsWoken`). These hold in any case; the former, and with them the two
properties, while nobody deleted the value under a load (`dirty`). That there
always is an unused lock for a new entry is `FreeLock`, by counting the callers.

**CounterLock.** `WaitersAreReachable` and `HeapMatchesEvents` need each other:
`set` pops values from the heap and finds their events in the dict, and the
except clause of `wait_for` removes both of a value nobody waits for.

**Calls.** A singleton is looked up by `Key`, and goes by `ModeMade`. `KeyFits`
says that the instance kept for a mode was made by arguments whose key is that
mode; from there `AskedModeIsGiven` is a matter of cases. `OneInstancePerMode`
needs `InsideIsNew`: whoever constructs holds the lock, and the dict has no
instance for its key, since it looked again under the lock. `ModeIsStable` needs
`UndecidedYet`, and `GotIsMade`, so that a lookup decides on the mode of an
instance that exists. `ResultIsAsWanted` is about the decision of two layers on the
same flag: `CallsGiveWhatIsWanted` goes through the kinds of member and the cases
of `Outcome`, for any definition of the class.

**Executor.** While the pool is live, `_threads` has the threads that run, since
only a time-out under the lock takes one out. `PoolInv` adds that `idle` counts
nothing where there is no thread, however wrong it is otherwise, and that a job is
only queued where threads are allowed: so `CountOnIdle` and `LeaveQueued` find a
thread, and `Prune` leaves one. Nothing makes a pool live again. `JobsAreSomewhere`
is inductive with the types (`PoolJobs`): the queue has each job once but may have
any number of Nones (`Once`), or none after a failing initializer has drained it;
who takes the head of the queue is the only one to run it, and what `shutdown` and the collection of the pool put in the queue are Nones.

**SmartQueue.** First, the heap. Its comparison counts waiters, who come and go, so
that nothing can be said of its order in general; but `Up` and `Down` only swap
entries (`UpRearranges`, `DownRearranges`, by induction over the place, up from the
root and down from the leaves). So `Get` returns an entry of the heap and leaves the
others (`GetTakes`). With that, `IInv` is inductive: a future is known to `_futs` by
its key, and by one only (`OneKnown`); a future that is gone has left everything but
the heap (`DeadIsForgotten`); what is queued is there once, and if it is alive it is
pending and known (`QueuedOnce`), what runs left the heap and is known (`RunsAlone`), and what is alive
and pending is one or the other (`NoneIsLost`), a worker that died with it included
(`DiesKeeps`). Two running jobs with one key would
be two known futures with that key. `MostWaitersFirst` follows from no invariant: it
is what `heappop` and `heappushpop` do with a list of up to four entries in any
order. `heappop` takes the first and leaves at most three, whose root is compared with
the better of its two children (`DownFindsTheFirst`); `heappushpop` compares the
winner with the entry that was taken (`GetFindsTheFirst`).

**ASyncFuture.** What a future keeps is what its task came to (`KeepsOutcome`), and
a task that ended does not change, so that the second awaiter to resume finds what
the first has set. Only a started operation has asked for its operands
(`AsksWhenStarted`): those that are told something keep what they wait for. For
`CancelStaysAmongSharers`, `ShareInv` follows a cancellation both ways. Down: a task
that is being cancelled is below a future that a cancelled caller awaited
(`CancelsBelow`), since the operands of what is below are below. Up: whatever was
cancelled has something below it in common with such a future (`CancelledShare`),
and so has an operation over it. Futures are made before any is awaited, when this
says nothing (`ToldStarted`), so that `Below` never changes under it.

**Iterators.** All that was put in the queue, in its order, is what was yielded, what
the generator took, and what is still queued (`Flow`). `Streams` says of it that it
has what each iterator has yielded, in its order, and `_Done()` at its end only, when
all have ended. Taking and yielding move the borders within `Flow` and not `Flow`, so
the generator that meets `_Done()` has yielded the rest (`DoneIsLast`,
`StreamIsComplete`). Likewise the count of the queue is that of what was put and not
yielded (`MergeCount`). `Sorted` is a choice, and there is something to choose since
any number of distinct numbers can be arranged, by inserting one after the other
(`Insertion`, `Sortable`).

**Induction.** The induction theorems of the library take an operator as a parameter
and cannot be used here. What needs induction goes through sets: one that has 0, and
with a number the next, has all numbers (`NatSetInduction`, from
`WellFoundedInduction`'s `WFMin`). That the recursive functions `Up` and `Down` exist
and satisfy their equations, without which nothing follows from their definitions, is
`FixedPoint`: a functional whose values depend on smaller arguments only has a fixed
point.

Only model-checked is liveness (`WaiterIsServed`, `ReachedReturns`,
`EveryJobSettles`, `CallersReturn`, `EveryJobIsSettled`, `ThreadsEnd`,
`IterationEnds`, `GeneratorEnds`, `JoinReturns`, `CallsReturn`, `ValuesArrive`, and
the fairness half of `ImplementsPool`): that takes ENABLED and reasoning under
fairness, which is out of the prover's reach.

No module declares a RECURSIVE operator.

## 5. Not modelled, and the plan

Not modelled for good: logging and debug daemons, `repr`, typing, the mypy
plugin and the Sphinx extension, `DummySemaphore`. Third-party caches and rate
limiters are external, and so are `asyncio`, `heapq`, `queue` and `threading`.

Abstracted: the order in which the loop runs ready tasks; the insides of
`heapq`, except in `SmartQueue`; equal priorities in `PriorityProcessingQueue`,
whose comparison may raise inside a heap operation; `full()` of `put`, which is
never true of an unbounded queue; which operator an `ASyncFuture` applies.

Not modelled in the modules that exist:

* `TaskMapping`: `concurrency`, the views of items and values, `close()`, the user
  removing keys other than those of `Asked`, and a function that raises before its
  task is made.
* `Executor`: process pools, the signal handler (which
  calls `shutdown` in whatever the main thread was doing, the lock of `submit`
  included), jobs that submit to their own pool and wait.
* `Calls`: the cache of bound methods, whose timer is postponed by assigning
  `handle._when` inside the heap of the loop (`method.pyx:287`); non-`ASync`
  classes; `any`, `all`, `map` and the rest, which are iterations of
  `TaskMapping`; constructors that ask for the other instance of their own class
  (a self-deadlock, `_meta.py:177-186`).
* `ASyncFuture`: several event loops; `__dependants__`, which nothing uses.
* `Iterators`: driving an asynchronous iterator from synchronous code.
* Persisted tasks: the list of stored exceptions (`create_task.pyx:132`), which
  is never cleared; `gather` of a mapping with `exclude_if`, which raises
  `KeyError` when something is excluded (`gather.pyx:194`).
* `CounterLockCluster`, which gathers over its members.

What would come next:

1. The cache of bound methods, with several threads.
2. `TaskMapping` with `concurrency`, which puts a `ProcessingQueue` between the
   loader and the tasks of the keys.
3. For liveness, the steps a prover can take: that in each state which is not final
   some fair action is enabled, stated action by action.
