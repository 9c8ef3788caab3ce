----------------------------- MODULE Semaphore -----------------------------
(***************************************************************************)
(* Semaphore of a_sync/primitives/locks/semaphore.pyx on one event loop.   *)
(*                                                                         *)
(* A permit changes hands at the wake-up: _wake_up_next takes it from      *)
(* _value and gives it to the first pending future of the deque, whose     *)
(* task runs later.  The future stays in the deque until then, so that     *)
(* locked() still sees it and nobody overtakes it.                         *)
(*                                                                         *)
(* acquire() is a plain function that decides at the call and returns a    *)
(* coroutine.  A task that awaits it at once runs the coroutine in the     *)
(* same step.  The tasks of spawned are those made to run the coroutine,   *)
(* as in create_task(semaphore.acquire()): the call and the first step of  *)
(* the coroutine are then two events, with anything in between.            *)
(***************************************************************************)
EXTENDS Integers, Sequences, FiniteSets

CONSTANTS
    Tasks,           \* tasks that use the semaphore
    SpawnedChoices,  \* the sets of tasks that may be the spawned ones
    Capacity         \* the value given to __init__

ASSUME CapacityAssumption == Capacity \in Nat
ASSUME TasksAssumption == IsFiniteSet(Tasks) /\ SpawnedChoices \subseteq SUBSET Tasks

VARIABLES
    spawned,    \* the tasks that run the coroutine of somebody else's acquire()
    value,      \* _Semaphore__value
    waiters,    \* _Semaphore__waiters, each future written as its task
    pc          \* where each task is

vars == <<spawned, value, waiters, pc>>

\* A waiter's future is pending, has its result, or is cancelled, when its
\* task is "waiting"; "woken" or "wokenCancelled"; "cancelled".
TypeOK ==
    /\ spawned \in SUBSET Tasks
    /\ value \in Nat
    /\ waiters \in Seq(Tasks)
    /\ pc \in [Tasks -> {"idle", "granted", "blocked", "waiting", "woken",
                         "cancelled", "wokenCancelled", "holding"}]

Init ==
    /\ spawned \in SpawnedChoices
    /\ value = Capacity
    /\ waiters = <<>>
    /\ pc = [t \in Tasks |-> "idle"]

-----------------------------------------------------------------------------
\* Mutants of Locked: the waiters are not looked at, or the value is not.
Locked_ValueOnly == value = 0
Locked_WaitersOnly == \E i \in DOMAIN waiters : pc[waiters[i]] # "cancelled"

Locked ==
    \/ value = 0
    \/ \E i \in DOMAIN waiters : pc[waiters[i]] # "cancelled"

\* The deque after waiters.remove(the future of t).
Position(t) == CHOOSE i \in DOMAIN waiters : waiters[i] = t

Without(t) ==
    [i \in 1..(Len(waiters) - 1) |->
        IF i < Position(t) THEN waiters[i] ELSE waiters[i + 1]]

\* A mutant of WakeUpNext: the last pending future instead of the first.
WakeUpNext_Last(q, v, t, to) ==
    \/ \E i \in DOMAIN q :
         /\ pc[q[i]] = "waiting"
         /\ \A j \in (i + 1)..Len(q) : pc[q[j]] # "waiting"
         /\ value' = v - 1
         /\ pc' = [pc EXCEPT ![q[i]] = "woken", ![t] = to]
    \/ /\ \A i \in DOMAIN q : pc[q[i]] # "waiting"
       /\ value' = v
       /\ pc' = [pc EXCEPT ![t] = to]

\* The first task of q whose future is pending gets a permit, if v of them are
\* free and there is such a task, while t goes to its state "to".
WakeUpNext(q, v, t, to) ==
    \/ \E i \in DOMAIN q :
         /\ pc[q[i]] = "waiting"
         /\ \A j \in 1..(i - 1) : pc[q[j]] # "waiting"
         /\ value' = v - 1
         /\ pc' = [pc EXCEPT ![q[i]] = "woken", ![t] = to]
    \/ /\ \A i \in DOMAIN q : pc[q[i]] # "waiting"
       /\ value' = v
       /\ pc' = [pc EXCEPT ![t] = to]

-----------------------------------------------------------------------------
\* acquire() when a permit is free and nobody is before the caller.
AcquireFree(t) ==
    /\ pc[t] = "idle"
    /\ ~Locked
    /\ value' = value - 1
    /\ pc' = [pc EXCEPT ![t] = IF t \in spawned THEN "granted" ELSE "holding"]
    /\ UNCHANGED <<spawned, waiters>>

\* The first step of __acquire queues a future, without a second look at value.
Enqueue(t) ==
    /\ waiters' = Append(waiters, t)
    /\ pc' = [pc EXCEPT ![t] = "waiting"]
    /\ UNCHANGED value

\* acquire() when the semaphore is locked.
AcquireLocked(t) ==
    /\ pc[t] = "idle"
    /\ Locked
    /\ \/ t \notin spawned /\ Enqueue(t)
       \/ /\ t \in spawned
          /\ pc' = [pc EXCEPT ![t] = "blocked"]
          /\ UNCHANGED <<value, waiters>>
    /\ UNCHANGED spawned

\* A spawned task takes the first step of its coroutine.
Start(t) ==
    /\ \/ /\ pc[t] = "granted"
          /\ pc' = [pc EXCEPT ![t] = "holding"]
          /\ UNCHANGED <<value, waiters>>
       \/ pc[t] = "blocked" /\ Enqueue(t)
    /\ UNCHANGED spawned

\* A mutant of Resume: the task passes nothing on.
Resume_Selfish(t) ==
    /\ pc[t] = "woken"
    /\ waiters' = Without(t)
    /\ pc' = [pc EXCEPT ![t] = "holding"]
    /\ UNCHANGED <<spawned, value>>

\* A woken task runs: it has its permit, and wakes the next if more are free.
Resume(t) ==
    /\ pc[t] = "woken"
    /\ waiters' = Without(t)
    /\ \/ value > 0 /\ WakeUpNext(Without(t), value, t, "holding")
       \/ value = 0 /\ pc' = [pc EXCEPT ![t] = "holding"] /\ UNCHANGED value
    /\ UNCHANGED spawned

\* A task is cancelled.  Before its first step nothing of the coroutine runs;
\* a pending future is cancelled at once; a future with a result is not.
Cancel(t) ==
    /\ \/ pc[t] \in {"granted", "blocked"} /\ pc' = [pc EXCEPT ![t] = "idle"]
       \/ pc[t] = "waiting" /\ pc' = [pc EXCEPT ![t] = "cancelled"]
       \/ pc[t] = "woken" /\ pc' = [pc EXCEPT ![t] = "wokenCancelled"]
    /\ UNCHANGED <<spawned, value, waiters>>

\* A mutant of CancelStep: a permit that was given is given back, and nobody is
\* woken.
CancelStep_WakesNobody(t) ==
    /\ pc[t] \in {"cancelled", "wokenCancelled"}
    /\ waiters' = Without(t)
    /\ value' = value + (IF pc[t] = "wokenCancelled" THEN 1 ELSE 0)
    /\ pc' = [pc EXCEPT ![t] = "idle"]
    /\ UNCHANGED spawned

\* The cancelled task leaves the deque, and gives back a permit it was given.
CancelStep(t) ==
    /\ pc[t] \in {"cancelled", "wokenCancelled"}
    /\ waiters' = Without(t)
    /\ \/ /\ pc[t] = "cancelled"
          /\ pc' = [pc EXCEPT ![t] = "idle"]
          /\ UNCHANGED value
       \/ /\ pc[t] = "wokenCancelled"
          /\ WakeUpNext(Without(t), value + 1, t, "idle")
    /\ UNCHANGED spawned

\* A holder leaves its async with block or calls release().
Release(t) ==
    /\ pc[t] = "holding"
    /\ WakeUpNext(waiters, value + 1, t, "idle")
    /\ UNCHANGED <<spawned, waiters>>

Next ==
    \E t \in Tasks :
        \/ AcquireFree(t)
        \/ AcquireLocked(t)
        \/ Start(t)
        \/ Resume(t)
        \/ Cancel(t)
        \/ CancelStep(t)
        \/ Release(t)

\* The event loop runs every ready task, and a holder does not hold forever.
Fairness ==
    \A t \in Tasks :
        /\ WF_vars(Start(t))
        /\ WF_vars(Resume(t))
        /\ WF_vars(CancelStep(t))
        /\ WF_vars(Release(t))

Spec == Init /\ [][Next]_vars /\ Fairness

-----------------------------------------------------------------------------
\* The tasks that own a permit, whether or not they know it yet.
Owners == {t \in Tasks : pc[t] \in {"granted", "woken", "wokenCancelled", "holding"}}

Waiting == {t \in Tasks : pc[t] = "waiting"}

\* No permit is made, and none is lost: each is free or has one owner.  A permit
\* is handed over while its new owner sleeps, and the owner may be cancelled
\* before it learns of it.  Only a spawned task that is cancelled before its
\* first step loses one.
PermitsConserved ==
    /\ value + Cardinality(Owners) <= Capacity
    /\ spawned = {} => value + Cardinality(Owners) = Capacity

\* A permit is free while somebody waits only if a woken task is about to pass
\* it on; otherwise the waiter sleeps until an unrelated release.  A spawned
\* task may queue long after it saw that nothing was free.
NoLostWakeup ==
    (spawned = {} /\ value > 0 /\ Waiting # {})
        => \E t \in Tasks : pc[t] \in {"woken", "wokenCancelled"}

\* The deque has each task that is queued, once, and no other.
QueuedOnce ==
    /\ \A i, j \in DOMAIN waiters : waiters[i] = waiters[j] => i = j
    /\ {waiters[i] : i \in DOMAIN waiters} =
         {t \in Tasks : pc[t] \in {"waiting", "woken", "cancelled", "wokenCancelled"}}

\* Permits are handed out in the order of the deque: nobody is given one while
\* an earlier waiter still waits, cancellations notwithstanding.
FirstComeFirstServed ==
    \A i, j \in DOMAIN waiters :
        (i < j /\ pc[waiters[j]] \in {"woken", "wokenCancelled"})
            => pc[waiters[i]] # "waiting"

\* Nobody gets a permit without waiting while somebody waits or was just woken.
NoBarging ==
    [][\A t \in Tasks :
          (pc[t] = "idle" /\ pc'[t] \in {"holding", "granted"})
             => \A u \in Tasks : pc[u] \notin {"waiting", "woken"}]_vars

\* Whoever awaits acquire() at once gets a permit or is cancelled.
WaiterIsServed ==
    \A t \in Tasks :
        (spawned = {} /\ pc[t] = "waiting")
            ~> (pc[t] \in {"holding", "cancelled", "wokenCancelled"})

\* "block, waiting until some other coroutine has called release() to make it
\* larger than 0, and then return True" (semaphore.pyx:200-201): so does whoever
\* runs its coroutine later.
AcquireReturns ==
    \A t \in Tasks :
        (pc[t] \in {"blocked", "waiting"})
            ~> (pc[t] \in {"holding", "cancelled", "wokenCancelled", "idle"})

\* The semaphore as a pool of Capacity permits.  That its steps are steps of the
\* pool holds whatever is spawned.
Pool == INSTANCE PermitPool WITH
    wanting <- {t \in Tasks : pc[t] \in {"granted", "blocked", "waiting", "woken",
                                         "cancelled", "wokenCancelled"}},
    held <- {t \in Tasks : pc[t] = "holding"}

PoolSafety == Pool!PoolInit /\ [][Pool!PoolNext]_Pool!poolVars
=============================================================================
