------------------------------ MODULE Iterators ------------------------------
(***************************************************************************)
(* as_yielded of a_sync/utils/iterators.py, which merges asynchronous      *)
(* iterators into one, under the views of a_sync/iter.pyx: the iterator    *)
(* itself, a filter, and a sorter.                                         *)
(*                                                                         *)
(* A populating task exhausts all iterators at once into a queue, puts     *)
(* _Done behind them, and joins the queue.  The generator takes all that   *)
(* is in the queue, and yields one item at a time; between two items the   *)
(* iterators go on.  One iterator may raise, or be cancelled, while the    *)
(* others run: igather does not stop them.                                 *)
(*                                                                         *)
(* All of it runs on one event loop, and an action is what one task does   *)
(* between two awaits.  Items are numbers, so that a sorter can compare    *)
(* them; each comes once.                                                  *)
(***************************************************************************)
EXTENDS Integers, Sequences, FiniteSets, SequencesExt

CONSTANTS
    Iters,     \* the iterators
    Source,    \* what each yields, a sequence of numbers
    Wanted     \* what the filter lets through

\* No item comes twice.
ItemsDiffer ==
    /\ IsFiniteSet(Iters)
    /\ \A i \in Iters : Source[i] \in Seq(Nat) /\ IsInjective(Source[i])
    /\ \A i, j \in Iters : i # j => ToSet(Source[i]) \cap ToSet(Source[j]) = {}

ASSUME SourceAssumption == ItemsDiffer

Items == UNION {ToSet(Source[i]) : i \in Iters}
DoneOk == -1       \* _Done()
DoneError == -2    \* _Done(exc)

VARIABLES
    iter, pos,     \* each iterator, and how many items it has yielded
    queue,         \* the queue
    unfinished,    \* its count of unfinished tasks
    task,          \* the populating task
    gen, batch,    \* the generator, and what it took and has not yielded
    out,           \* what it has yielded
    view,          \* who consumes it
    result         \* what the consumer of the view has got

vars == <<iter, pos, queue, unfinished, task, gen, batch, out, view, result>>
consumer == <<gen, batch, out, view, result>>

TypeOK ==
    /\ iter \in [Iters -> {"runs", "ended", "failed", "cancelled"}]
    /\ pos \in [Iters -> Nat]
    /\ queue \in Seq(Items \cup {DoneOk, DoneError})
    /\ unfinished \in Nat
    /\ task \in {"none", "gathers", "joins", "done", "cancelled"}
    /\ gen \in {"new", "waits", "works", "ended", "raised", "asserted", "closed"}
    /\ batch \in Seq(Items \cup {DoneOk, DoneError})
    /\ out \in Seq(Items)
    /\ view \in {"iterator", "filter", "sorter", "asyncSorter"}
    /\ result \in Seq(Items)

Init ==
    /\ iter = [i \in Iters |-> "runs"]
    /\ pos = [i \in Iters |-> 0]
    /\ queue = <<>> /\ unfinished = 0
    /\ task = "none"
    /\ gen = "new" /\ batch = <<>> /\ out = <<>> /\ result = <<>>
    /\ view \in {"iterator", "filter", "sorter", "asyncSorter"}

-----------------------------------------------------------------------------
\* The consumer asks for the first item: the generator starts the task.
Start ==
    /\ gen = "new"
    /\ gen' = "waits"
    /\ task' = "gathers"
    /\ UNCHANGED <<iter, pos, queue, unfinished, batch, out, view, result>>

Running(i) == task # "none" /\ iter[i] = "runs"

\* exhaust_iterator puts the next item of an iterator in the queue,
Exhaust(i) ==
    /\ Running(i) /\ pos[i] < Len(Source[i])
    /\ pos' = [pos EXCEPT ![i] = @ + 1]
    /\ queue' = Append(queue, Source[i][pos[i] + 1])
    /\ unfinished' = unfinished + 1
    /\ UNCHANGED <<consumer, iter, task>>

\* until it ends, raises or is cancelled.
IterEnds(i, how) ==
    /\ Running(i)
    /\ how = "ended" <=> pos[i] = Len(Source[i])
    /\ iter' = [iter EXCEPT ![i] = how]
    /\ UNCHANGED <<consumer, pos, queue, unfinished, task>>

\* igather is done with the last iterator, or the first that does not end well.
\* (and a mutant: it waits for all to end well)
Gathered_AllWell == \A i \in Iters : iter[i] = "ended"
Gathered ==
    \/ \A i \in Iters : iter[i] = "ended"
    \/ \E i \in Iters : iter[i] \in {"failed", "cancelled"}

\* The task puts _Done and joins the queue.  A cancelled iterator cancels the
\* task, and its done callback puts _Done.
Populated ==
    /\ task = "gathers" /\ Gathered
    /\ \/ /\ \A i \in Iters : iter[i] \notin {"failed", "cancelled"}
          /\ task' = "joins" /\ queue' = Append(queue, DoneOk)
       \/ /\ \E i \in Iters : iter[i] = "failed"
          /\ task' = "joins" /\ queue' = Append(queue, DoneError)
       \/ /\ \E i \in Iters : iter[i] = "cancelled"
          /\ task' = "cancelled" /\ queue' = Append(queue, DoneError)
    /\ unfinished' = unfinished + 1
    /\ UNCHANGED <<consumer, iter, pos>>

Joined ==
    /\ task = "joins" /\ unfinished = 0
    /\ task' = "done"
    /\ UNCHANGED <<consumer, iter, pos, queue, unfinished>>

-----------------------------------------------------------------------------
\* The generator takes what is in the queue.
GetAll ==
    /\ gen = "waits" /\ queue # <<>>
    /\ batch' = queue
    /\ queue' = <<>>
    /\ gen' = "works"
    /\ UNCHANGED <<iter, pos, unfinished, task, out, view, result>>

\* What the view makes of what it got.  A sorter with a coroutine function as
\* its key gathers the keys of an asynchronous iterable, and yields nothing.
Increases(s) == \A m, n \in DOMAIN s : m < n => s[m] < s[n]
Sorted(s) == CHOOSE r \in [1..Len(s) -> ToSet(s)] : Increases(r)

Passes(x) ==
    CASE view = "iterator" -> <<x>>
      [] view = "filter" -> IF x \in Wanted THEN <<x>> ELSE <<>>
      [] OTHER -> <<>>

\* (and a mutant: the one that comes last wins)
AtEnd_Last(s) == IF view = "sorter" THEN Reverse(Sorted(s)) ELSE result
AtEnd(s) == IF view = "sorter" THEN Sorted(s) ELSE result

\* task_done() for each item, _Done included.
TaskDone == unfinished - 1

\* The consumer asks for the next item, and the generator yields it.
Yield ==
    /\ gen = "works" /\ batch # <<>> /\ Head(batch) \in Items
    /\ unfinished' = TaskDone
    /\ batch' = Tail(batch)
    /\ out' = Append(out, Head(batch))
    /\ result' = result \o Passes(Head(batch))
    /\ UNCHANGED <<iter, pos, queue, task, gen, view>>

\* It meets _Done: it returns or raises, unless its assertion fails, that the
\* queue is empty.
MeetDone ==
    /\ gen = "works" /\ batch # <<>> /\ Head(batch) \notin Items
    /\ unfinished' = TaskDone
    /\ batch' = Tail(batch)
    /\ gen' = IF queue # <<>> THEN "asserted"
              ELSE IF Head(batch) = DoneError THEN "raised" ELSE "ended"
    /\ result' = IF gen' = "ended" THEN AtEnd(out) ELSE result
    /\ UNCHANGED <<iter, pos, queue, task, out, view>>

\* It has yielded all it took: it waits for more, unless the task was cancelled.
LookAgain ==
    /\ gen = "works" /\ batch = <<>>
    /\ gen' = IF task \in {"done", "cancelled"} THEN "raised" ELSE "waits"
    /\ UNCHANGED <<iter, pos, queue, unfinished, task, batch, out, view, result>>

\* The consumer stops, or is cancelled while it waits; the task goes on.
Close ==
    /\ gen \in {"waits", "works"}
    /\ gen' = "closed"
    /\ UNCHANGED <<iter, pos, queue, unfinished, task, batch, out, view, result>>

IterStep(i) == Exhaust(i) \/ \E how \in {"ended", "failed", "cancelled"} : IterEnds(i, how)
Pull == GetAll \/ Yield \/ MeetDone \/ LookAgain

Next ==
    \/ Start \/ Populated \/ Joined \/ Pull \/ Close
    \/ \E i \in Iters : IterStep(i)

\* The iterators go on, the loop runs the task, and the consumer that does not
\* stop asks for the next item.
Fairness ==
    /\ \A i \in Iters : WF_vars(IterStep(i))
    /\ WF_vars(Populated) /\ WF_vars(Joined) /\ WF_vars(Pull)

Spec == Init /\ [][Next]_vars /\ Fairness

-----------------------------------------------------------------------------
\* x is yielded before y.
Precedes(s, x, y) == \E m, n \in DOMAIN s : m < n /\ s[m] = x /\ s[n] = y

\* A consumer that reached the end got every item, once: those of each iterator in
\* its order, or those that the filter lets through in the order in which they
\* came, or sorted when it asked for that.  A sorter with an asynchronous key is
\* excepted.
EndIsComplete ==
    gen = "ended" =>
        /\ ToSet(out) = Items /\ IsInjective(out)
        /\ \A i \in Iters : \A m, n \in DOMAIN Source[i] :
              m < n => Precedes(out, Source[i][m], Source[i][n])
        /\ view = "iterator" => result = out
        /\ view = "filter" =>
              /\ ToSet(result) = Items \cap Wanted
              /\ \A x, y \in Items : Precedes(result, x, y) => Precedes(out, x, y)
        /\ view = "sorter" => ToSet(result) = Items /\ Increases(result)

\* The count of the queue is that of the items that nobody has yielded, whether they
\* are in it or were taken from it; so join() has nothing to wait for when the
\* consumer has reached the end.
CountIsExact ==
    /\ unfinished = Len(queue) + Len(batch)
    /\ gen = "ended" => unfinished = 0

\* The populating task ends with the generator: join() returns when no iterator
\* raised and the consumer went to the end, as every item was marked as done.
JoinReturns == (gen = "ended") ~> (task = "done")

\* The generator ends or raises, also when an iterator fails while others run.
GeneratorEnds == (gen = "waits") ~> (gen \in {"ended", "raised", "asserted", "closed"})

\* The code asserts that nothing follows _Done in the queue
\* (utils/iterators.py:263).
NothingAfterDone == gen # "asserted"

\* A sorter yields what it was given, whether its key function is synchronous or
\* not ("It supports both synchronous and asynchronous key functions").
SorterYieldsAll ==
    (gen = "ended" /\ view \in {"sorter", "asyncSorter"}) => ToSet(result) = Items
=============================================================================
