---------------------------- MODULE CounterLock ----------------------------
(***************************************************************************)
(* CounterLock of a_sync/primitives/locks/counter.pyx: a counter that only *)
(* grows, and tasks that wait until it reaches a value.  There is an Event *)
(* for each value somebody waited for, in a dict, and the values are in a  *)
(* heap next to it; set() pops the values it reaches from both, and sets   *)
(* their events.                                                           *)
(*                                                                         *)
(* The list of waiters of an event holds a future per task until the task  *)
(* runs again.  Cancelling the last waiter leaves the event and its key.   *)
(* An event belongs to the event loop that was running when it was made;   *)
(* waiting for it on another loop raises RuntimeError.  The loops take     *)
(* turns in one thread; debug logging, which starts a daemon, is off.      *)
(***************************************************************************)
EXTENDS Integers, FiniteSets

CONSTANTS
    Tasks,       \* tasks that wait
    Loops,       \* event loops
    LoopOf,      \* the loop each task runs on
    MaxValue,    \* bound: values are 0..MaxValue
    NoEvent      \* no entry in the dict

ASSUME LoopsAssumption == LoopOf \in [Tasks -> Loops] /\ NoEvent \notin Loops
ASSUME MaxValueAssumption == MaxValue \in Nat

Values == 0..MaxValue

VARIABLES
    value,       \* _value
    events,      \* _events: the loop of the event of each value
    heap,        \* _heap: how often each value is in it
    target,      \* the value each task waits for
    pc           \* where each task is

vars == <<value, events, heap, target, pc>>

TypeOK ==
    /\ value \in Values
    /\ events \in [Values -> Loops \cup {NoEvent}]
    /\ heap \in [Values -> Nat]
    /\ target \in [Tasks -> Values]
    /\ pc \in [Tasks -> {"idle", "waiting", "woken", "cancelled",
                         "wokenCancelled", "returned"}]

Init ==
    /\ value = 0
    /\ events = [v \in Values |-> NoEvent]
    /\ heap = [v \in Values |-> 0]
    /\ target = [t \in Tasks |-> 0]
    /\ pc = [t \in Tasks |-> "idle"]

-----------------------------------------------------------------------------
\* _waiters of the event of v that is in the dict.
Waiters(v) == {t \in Tasks : target[t] = v /\ pc[t] \in {"waiting", "cancelled"}}

\* wait_for(v) when the counter is there already.
WaitReady(t, v) ==
    /\ pc[t] = "idle"
    /\ value >= v
    /\ target' = [target EXCEPT ![t] = v]
    /\ pc' = [pc EXCEPT ![t] = "returned"]
    /\ UNCHANGED <<value, events, heap>>

\* wait_for(v) for a value that has no event.
WaitNew(t, v) ==
    /\ pc[t] = "idle"
    /\ value < v
    /\ events[v] = NoEvent
    /\ events' = [events EXCEPT ![v] = LoopOf[t]]
    /\ heap' = [heap EXCEPT ![v] = @ + 1]
    /\ target' = [target EXCEPT ![t] = v]
    /\ pc' = [pc EXCEPT ![t] = "waiting"]
    /\ UNCHANGED <<value>>

\* wait_for(v) for a value that has one of the same loop.
WaitMore(t, v) ==
    /\ pc[t] = "idle"
    /\ value < v
    /\ events[v] = LoopOf[t]
    /\ target' = [target EXCEPT ![t] = v]
    /\ pc' = [pc EXCEPT ![t] = "waiting"]
    /\ UNCHANGED <<value, events, heap>>

\* Mutants of WaitForeign: it keeps the key of the event it removes, or removes an
\* event that others wait for.
WaitForeign_KeyStays(t, v) ==
    /\ pc[t] = "idle" /\ value < v /\ events[v] \notin {NoEvent, LoopOf[t]}
    /\ Waiters(v) = {}
    /\ events' = [events EXCEPT ![v] = NoEvent]
    /\ UNCHANGED <<value, heap, target, pc>>

WaitForeign_Evicts(t, v) ==
    /\ pc[t] = "idle" /\ value < v /\ events[v] \notin {NoEvent, LoopOf[t]}
    /\ heap' = [heap EXCEPT ![v] = @ - 1]
    /\ events' = [events EXCEPT ![v] = NoEvent]
    /\ UNCHANGED <<value, target, pc>>

\* wait_for(v) for a value whose event is of another loop raises; the except
\* clause removes an event that nobody waits for.
WaitForeign(t, v) ==
    /\ pc[t] = "idle"
    /\ value < v
    /\ events[v] \notin {NoEvent, LoopOf[t]}
    /\ Waiters(v) = {}
    /\ heap' = [heap EXCEPT ![v] = @ - 1]
    /\ events' = [events EXCEPT ![v] = NoEvent]
    /\ UNCHANGED <<value, target, pc>>

\* The keys that set(v) pops, and a mutant: all but v itself.
Popped_Below(v) == {k \in Values : heap[k] > 0 /\ k < v}

Popped(v) == {k \in Values : heap[k] > 0 /\ k <= v}

\* set(v) of a greater value: those it reaches are popped, and the pending
\* futures of their events get their result.  An equal value is ignored, and a
\* smaller one raises.
Set(v) ==
    /\ v > value
    /\ value' = v
    /\ heap' = [k \in Values |-> IF k \in Popped(v) THEN 0 ELSE heap[k]]
    /\ events' = [k \in Values |-> IF k \in Popped(v) THEN NoEvent ELSE events[k]]
    /\ pc' = [t \in Tasks |->
                IF pc[t] = "waiting" /\ target[t] \in Popped(v) THEN "woken" ELSE pc[t]]
    /\ UNCHANGED target

\* A woken task runs, and wait_for returns.
Resume(t) ==
    /\ pc[t] = "woken"
    /\ pc' = [pc EXCEPT ![t] = "returned"]
    /\ UNCHANGED <<value, events, heap, target>>

\* A waiting task is cancelled.
Cancel(t) ==
    /\ \/ pc[t] = "waiting" /\ pc' = [pc EXCEPT ![t] = "cancelled"]
       \/ pc[t] = "woken" /\ pc' = [pc EXCEPT ![t] = "wokenCancelled"]
    /\ UNCHANGED <<value, events, heap, target>>

\* It runs, and leaves the event's waiters: the except clause does not catch
\* CancelledError, so that the event and its key stay.
CancelStep(t) ==
    /\ pc[t] \in {"cancelled", "wokenCancelled"}
    /\ pc' = [pc EXCEPT ![t] = "idle"]
    /\ UNCHANGED <<value, events, heap, target>>

\* A task whose wait_for returned goes on, and may wait for another value.
GoOn(t) ==
    /\ pc[t] = "returned"
    /\ pc' = [pc EXCEPT ![t] = "idle"]
    /\ UNCHANGED <<value, events, heap, target>>

Next ==
    \/ \E t \in Tasks :
         \/ \E v \in Values :
              WaitReady(t, v) \/ WaitNew(t, v) \/ WaitMore(t, v) \/ WaitForeign(t, v)
         \/ Resume(t)
         \/ Cancel(t)
         \/ CancelStep(t)
         \/ GoOn(t)
    \/ \E v \in Values : Set(v)

\* The loops run their ready tasks.
Fairness == \A t \in Tasks : WF_vars(Resume(t)) /\ WF_vars(CancelStep(t))

Spec == Init /\ [][Next]_vars /\ Fairness

-----------------------------------------------------------------------------
\* The heap and the dict have the same values, each once, so that the pop of
\* set() never raises KeyError, with some events set and others not, and the
\* remove of wait_for never raises ValueError.
HeapMatchesEvents ==
    \A v \in Values : heap[v] = IF events[v] = NoEvent THEN 0 ELSE 1

\* Whoever waits is before its value, and set() will find its event: no one
\* waits for an event that was dropped, or for a value that was passed.
WaitersAreReachable ==
    \A t \in Tasks :
        pc[t] = "waiting" => value < target[t] /\ events[target[t]] = LoopOf[t]

\* When the counter reaches its value a waiting task returns or is cancelled.
ReachedReturns ==
    \A t \in Tasks :
        (pc[t] \in {"waiting", "woken"} /\ value >= target[t])
            ~> (pc[t] \notin {"waiting", "woken"})
=============================================================================
