--------------------------- MODULE CachedProperty ---------------------------
(***************************************************************************)
(* The loader of a cached asynchronous property, for one attribute of one  *)
(* instance: AsyncCachedPropertyDescriptor of async_property/cached.pyx,   *)
(* and ASyncCachedPropertyDescriptor of a_sync/property.pyx, which also    *)
(* looks into the cache before it asks for the lock.                       *)
(*                                                                         *)
(* Callers await the property on one event loop.  The first takes the lock *)
(* of the attribute, creates the task that runs the getter and awaits it   *)
(* through shield(), so that cancelling the caller leaves the task alone;  *)
(* the others queue for the lock.  What a caller does from one await to    *)
(* the next is not interleaved with anything: "running" is the caller that *)
(* is in the middle of it.                                                 *)
(***************************************************************************)
EXTENDS Integers, Sequences, FiniteSets, Functions

CONSTANTS
    Callers,      \* tasks that await the property
    None,         \* nobody, or nothing
    Assigned      \* the value an assignment stores

ASSUME CallersAssumption == IsFiniteSet(Callers)
ASSUME NoneAssumption ==
    None \notin Callers \cup Nat /\ Assigned \notin Nat \cup {None}

\* Every caller awaits the property once, and creates at most one task.
Loads == 1..Cardinality(Callers)
Locks == 1..Cardinality(Callers) + 1

VARIABLES
    checksFirst,  \* the loader is that of property.pyx
    cache,        \* the cached value: the number of its load
    locked,       \* the entry of locks, or None
    holder,       \* who holds each lock
    queue,        \* who waits for each lock
    tasks,        \* the entry of tasks, or None
    load,         \* what became of each task
    pc,           \* where each caller is
    lock,         \* the lock it asked for
    awaited,      \* the task it awaits
    cancelled,    \* callers that go on with a CancelledError
    running,      \* the caller in the middle of a step, or None
    dirty         \* the value was deleted while somebody loaded it

vars == <<checksFirst, cache, locked, holder, queue, tasks, load, pc, lock,
          awaited, cancelled, running, dirty>>

Ended == {"returned", "failed", "cancelled", "KeyError"}

TypeOK ==
    /\ checksFirst \in BOOLEAN /\ dirty \in BOOLEAN
    /\ cache \in Loads \cup {None, Assigned}
    /\ locked \in Locks \cup {None}
    /\ holder \in [Locks -> Callers \cup {None}]
    /\ queue \in [Locks -> Seq(Callers)]
    /\ tasks \in Loads \cup {None}
    /\ load \in [Loads -> {"none", "runs", "value", "error"}]
    /\ pc \in [Callers -> Ended \cup {"idle", "queued", "woken", "inside", "awaits", "leaves"}]
    /\ lock \in [Callers -> Locks \cup {None}]
    /\ awaited \in [Callers -> Loads \cup {None}]
    /\ cancelled \subseteq Callers
    /\ running \in Callers \cup {None}

Init ==
    /\ checksFirst \in BOOLEAN /\ dirty = FALSE
    /\ cache = None /\ locked = None /\ tasks = None
    /\ holder = [k \in Locks |-> None]
    /\ queue = [k \in Locks |-> <<>>]
    /\ load = [n \in Loads |-> "none"]
    /\ pc = [c \in Callers |-> "idle"]
    /\ lock = [c \in Callers |-> None]
    /\ awaited = [c \in Callers |-> None]
    /\ cancelled = {} /\ running = None

-----------------------------------------------------------------------------
\* The entry of locks, a defaultdict: a lock nobody uses stands for a new one.
LockOf ==
    IF locked # None THEN locked
    ELSE CHOOSE k \in Locks : \A c \in Callers : lock[c] # k

\* The value is cached: the loader of property.pyx returns before the lock.
Hit(c) ==
    /\ running = None /\ pc[c] = "idle"
    /\ checksFirst /\ cache # None
    /\ pc' = [pc EXCEPT ![c] = "returned"]
    /\ UNCHANGED <<checksFirst, cache, locked, holder, queue, tasks, load, lock,
                   awaited, cancelled, running, dirty>>

\* A caller takes the lock of the attribute if it is free, and everybody who
\* waits for it was cancelled; otherwise it queues.
AskLock(c) ==
    /\ running = None /\ pc[c] = "idle"
    /\ ~(checksFirst /\ cache # None)
    /\ locked' = LockOf
    /\ lock' = [lock EXCEPT ![c] = LockOf]
    /\ IF /\ holder[LockOf] = None
          /\ \A d \in Range(queue[LockOf]) : pc[d] = "queued" /\ d \in cancelled
       THEN /\ holder' = [holder EXCEPT ![LockOf] = c]
            /\ pc' = [pc EXCEPT ![c] = "inside"]
            /\ running' = c
            /\ UNCHANGED queue
       ELSE /\ queue' = [queue EXCEPT ![LockOf] = Append(@, c)]
            /\ pc' = [pc EXCEPT ![c] = "queued"]
            /\ UNCHANGED <<holder, running>>
    /\ UNCHANGED <<checksFirst, cache, tasks, load, awaited, cancelled, dirty>>

\* The queue after waiters.remove(the future of c).
Without(q, c) ==
    LET p == CHOOSE i \in DOMAIN q : q[i] = c
    IN  [i \in 1..(Len(q) - 1) |-> IF i < p THEN q[i] ELSE q[i + 1]]

\* The caller that was woken has the lock, and runs.
Acquire(c) ==
    /\ running = None /\ pc[c] = "woken" /\ c \notin cancelled
    /\ queue' = [queue EXCEPT ![lock[c]] = Without(@, c)]
    /\ holder' = [holder EXCEPT ![lock[c]] = c]
    /\ pc' = [pc EXCEPT ![c] = "inside"]
    /\ running' = c
    /\ UNCHANGED <<checksFirst, cache, locked, tasks, load, lock, awaited, cancelled, dirty>>

\* Under the lock the cache is looked into (and a mutant: it is not).
Found_Never == FALSE
Found == cache # None

\* The value is there by now,
FindValue(c) ==
    /\ running = c /\ pc[c] = "inside" /\ Found
    /\ pc' = [pc EXCEPT ![c] = "leaves"]
    /\ UNCHANGED <<checksFirst, cache, locked, holder, queue, tasks, load, lock,
                   awaited, cancelled, running, dirty>>

\* or there is a task to join (one that is done is not waited for),
Join(c) ==
    /\ running = c /\ pc[c] = "inside" /\ ~Found /\ tasks # None
    /\ awaited' = [awaited EXCEPT ![c] = tasks]
    /\ pc' = [pc EXCEPT ![c] = "awaits"]
    /\ running' = IF load[tasks] = "runs" THEN None ELSE c
    /\ UNCHANGED <<checksFirst, cache, locked, holder, queue, tasks, load, lock,
                   cancelled, dirty>>

\* or a task is created.
Create(c, n) ==
    /\ running = c /\ pc[c] = "inside" /\ ~Found /\ tasks = None
    /\ load[n] = "none" /\ \A m \in 1..(n - 1) : load[m] # "none"
    /\ load' = [load EXCEPT ![n] = "runs"]
    /\ tasks' = n
    /\ awaited' = [awaited EXCEPT ![c] = n]
    /\ pc' = [pc EXCEPT ![c] = "awaits"]
    /\ running' = None
    /\ UNCHANGED <<checksFirst, cache, locked, holder, queue, lock, cancelled, dirty>>

\* The getter returns, or raises.
EndLoad(n, outcome) ==
    /\ running = None /\ load[n] = "runs"
    /\ load' = [load EXCEPT ![n] = outcome]
    /\ UNCHANGED <<checksFirst, cache, locked, holder, queue, tasks, pc, lock,
                   awaited, cancelled, running, dirty>>

\* A caller goes on when what it awaits is done.
GoesOn(c) ==
    /\ pc[c] = "awaits" /\ c \notin cancelled
    /\ load[awaited[c]] # "runs"
    /\ running \in {None, c}

\* It caches the value and pops the entries of tasks and locks.  Popping an
\* entry that is gone raises KeyError: the value is cached all the same.
Keep(c) ==
    /\ GoesOn(c) /\ load[awaited[c]] = "value"
    /\ cache' = awaited[c]
    /\ tasks' = None
    /\ locked' = IF tasks = None THEN locked ELSE None
    /\ pc' = [pc EXCEPT ![c] = IF None \in {tasks, locked} THEN "KeyError" ELSE "leaves"]
    /\ running' = c
    /\ UNCHANGED <<checksFirst, holder, queue, load, lock, awaited, cancelled, dirty>>

\* The setter that is to store the loaded value raises: nothing is cached, and
\* the entries of tasks and locks stay.
SetterFails(c) ==
    /\ GoesOn(c) /\ load[awaited[c]] = "value"
    /\ pc' = [pc EXCEPT ![c] = "failed"]
    /\ running' = c
    /\ UNCHANGED <<checksFirst, cache, locked, holder, queue, tasks, load, lock, awaited,
                   cancelled, dirty>>

\* The getter raised: the next caller is to create a new task.
Raise(c) ==
    /\ GoesOn(c) /\ load[awaited[c]] = "error"
    /\ tasks' = None
    /\ pc' = [pc EXCEPT ![c] = IF tasks = None THEN "KeyError" ELSE "failed"]
    /\ running' = c
    /\ UNCHANGED <<checksFirst, cache, locked, holder, queue, load, lock, awaited,
                   cancelled, dirty>>

\* A caller is cancelled, before or after what it waits for happened.
Cancel(c) ==
    /\ running = None /\ pc[c] \in {"queued", "woken", "awaits"} /\ c \notin cancelled
    /\ cancelled' = cancelled \cup {c}
    /\ UNCHANGED <<checksFirst, cache, locked, holder, queue, tasks, load, pc, lock,
                   awaited, running, dirty>>

\* It raises CancelledError out of the wait for the lock,
StopQueueing(c) ==
    /\ running = None /\ pc[c] \in {"queued", "woken"} /\ c \in cancelled
    /\ queue' = [queue EXCEPT ![lock[c]] = Without(@, c)]
    /\ pc' = [pc EXCEPT ![c] = "cancelled"]
    /\ running' = c
    /\ UNCHANGED <<checksFirst, cache, locked, holder, tasks, load, lock, awaited,
                   cancelled, dirty>>

\* or out of the wait for the task, whose entry it pops if it is done (and a
\* mutant: in any case).
Pops_Always(n) == TRUE
Pops(n) == load[n] # "runs"

StopAwaiting(c) ==
    /\ running = None /\ pc[c] = "awaits" /\ c \in cancelled
    /\ tasks' = IF Pops(awaited[c]) THEN None ELSE tasks
    /\ pc' = [pc EXCEPT ![c] = IF Pops(awaited[c]) /\ tasks = None
                               THEN "KeyError" ELSE "cancelled"]
    /\ running' = c
    /\ UNCHANGED <<checksFirst, cache, locked, holder, queue, load, lock, awaited,
                   cancelled, dirty>>

\* Who leaves while nobody else has the lock wakes the next one (and a mutant:
\* only who had the lock does).
HandsOver_Holder(k, c) == holder[k] = c
HandsOver(k, c) == holder[k] \in {None, c}

\* The step ends: the lock is released, if the caller had it, and the first that
\* waits for it is woken.
Leave(c) ==
    /\ running = c /\ pc[c] \in Ended \cup {"leaves"}
    /\ LET k == lock[c]
           first == Head(queue[k])
           ended == [pc EXCEPT ![c] = IF @ = "leaves" THEN "returned" ELSE @] IN
       /\ holder' = [holder EXCEPT ![k] = IF @ = c THEN None ELSE @]
       /\ pc' = IF HandsOver(k, c) /\ queue[k] # <<>> /\ pc[first] = "queued" /\ first \notin cancelled
                THEN [ended EXCEPT ![first] = "woken"] ELSE ended
    /\ lock' = [lock EXCEPT ![c] = None]
    /\ awaited' = [awaited EXCEPT ![c] = None]
    /\ cancelled' = cancelled \ {c}
    /\ running' = None
    /\ UNCHANGED <<checksFirst, cache, locked, queue, tasks, load, dirty>>

\* instance.prop = value
Assign ==
    /\ running = None
    /\ cache' = Assigned
    /\ UNCHANGED <<checksFirst, locked, holder, queue, tasks, load, pc, lock,
                   awaited, cancelled, running, dirty>>

\* del instance.prop
Delete ==
    /\ running = None /\ cache # None
    /\ cache' = None
    /\ dirty' = (dirty \/ \E c \in Callers : lock[c] # None)
    /\ UNCHANGED <<checksFirst, locked, holder, queue, tasks, load, pc, lock,
                   awaited, cancelled, running>>

Step(c) ==
    \/ Hit(c) \/ AskLock(c) \/ Acquire(c)
    \/ FindValue(c) \/ Join(c) \/ \E n \in Loads : Create(c, n)
    \/ Keep(c) \/ SetterFails(c) \/ Raise(c)
    \/ StopQueueing(c) \/ StopAwaiting(c) \/ Leave(c)

End == \E n \in Loads : EndLoad(n, "value") \/ EndLoad(n, "error")

Next ==
    \/ \E c \in Callers : Step(c) \/ Cancel(c)
    \/ End
    \/ Assign
    \/ Delete

\* The loop runs its callers, and the getter ends.
Fairness == (\A c \in Callers : WF_vars(Step(c))) /\ WF_vars(End)

Spec == Init /\ [][Next]_vars /\ Fairness

-----------------------------------------------------------------------------
\* Nobody fails because somebody else popped the entries of the load first: the
\* callers that waited for the lock find the value, and one that is cancelled
\* takes away the task of no other.  It takes a deletion while callers hold the
\* lock, or wait for it, to make two of them load under two locks.
NobodyElsePopped == dirty \/ \A c \in Callers : pc[c] # "KeyError"

\* A task that runs stays in the dict until it is done, so that the getter is
\* not started a second time: not by the next caller when the one that created
\* the task is cancelled, and not by one that queued before the value was cached.
RunningTaskIsShared ==
    [][\/ dirty
       \/ \A n \in Loads : load[n] = "runs" /\ load'[n] = "runs" => tasks' = n]_vars

\* Every caller that queues for the lock, or awaits the task, ends: also when
\* the one before it was cancelled at the moment it was handed the lock.
CallersReturn ==
    \A c \in Callers : (pc[c] \in {"queued", "woken", "awaits"}) ~> (pc[c] \in Ended)
=============================================================================
