----------------------------- MODULE ASyncFuture -----------------------------
(***************************************************************************)
(* Futures that are computed on demand, and expressions of them            *)
(* (future.py).                                                            *)
(*                                                                         *)
(* A future wraps a coroutine.  An operator makes a future of one or two   *)
(* others; nothing runs until somebody awaits one, or plain code uses its  *)
(* value, which runs the event loop until it is there.  The first await    *)
(* makes the one task that everybody else awaits as well, and so do the    *)
(* coroutines that an operation gathers (igather.pyx).                     *)
(*                                                                         *)
(* Futures are numbered in the order in which they are made.  A program    *)
(* has a loop that runs for ever, or it has plain code, named Main, and    *)
(* the loop runs while Main waits for a value.                             *)
(***************************************************************************)
EXTENDS Integers, FiniteSets, Sequences

CONSTANTS
    Programs,      \* what programs do: the futures they make and their callers
    MaxFutures,    \* the bound on the futures that are made
    Tasks,         \* tasks of the event loop
    Main,          \* the plain code that runs when the loop does not
    Const          \* an operand that is not a future

ASSUME ASyncFutureAssumption ==
    /\ Main \notin Tasks
    /\ \A p \in Programs : p.callers \subseteq Tasks \cup {Main}

Futures == 1..MaxFutures
Children == Futures \X {1, 2}            \* what an operation gathers
Callers == Tasks \cup {Main}
Waiters == Callers \cup Children

\* Nobody is taken for somebody else.
Distinct == Const \notin Futures /\ Callers \cap Children = {}

\* There is room for the futures of every program.
PlansFit == MaxFutures \in Nat /\ \A p \in Programs : Len(p.plan) \in 0..MaxFutures

ASSUME DistinctAssumption == Distinct /\ PlansFit

VARIABLES
    program,    \* the program that runs
    made,       \* how many futures there are
    operands,   \* the operands of each; of a call there are none
    state,      \* the state of the concurrent.futures.Future
    task,       \* the task of its awaitable
    at,         \* where each waiter is
    awaits,     \* the future each caller awaits
    told        \* the futures whose awaiting caller was cancelled, so far

vars == <<program, made, operands, state, task, at, awaits, told>>

Ended == {"value", "error", "cancelled"}

TypeOK ==
    /\ program \in Programs /\ made \in 0..MaxFutures
    /\ operands \in [Futures -> (0..MaxFutures \cup {Const}) \X (0..MaxFutures \cup {Const})]
    /\ state \in [Futures -> {"pending", "value", "error", "cancelled"}]
    /\ task \in [Futures -> {"none", "running", "cancelling"} \cup Ended]
    /\ at \in [Waiters -> {"idle", "waits", "InvalidStateError"} \cup Ended]
    /\ awaits \in [Callers -> 0..MaxFutures]
    /\ told \subseteq Futures

Call == <<0, 0>>
IsCall(f) == operands[f] = Call

\* What a waiter waits for.
Target(w) == IF w \in Callers THEN awaits[w] ELSE operands[w[1]][w[2]]

\* The loop runs.
Running == Main \notin program.callers \/ at[Main] = "waits"

\* The callers that can act: the tasks of a loop that runs, or plain code.
Acts(c) == c \in program.callers /\ at[c] = "idle" /\ (c = Main \/ Running)

(***************************************************************************)
(* Making futures.                                                         *)
(***************************************************************************)

\* Futures are made before any is awaited (a bound on the model).
Makes(two) ==
    /\ made < Len(program.plan) /\ program.plan[made + 1] = two /\ \A f \in Futures : task[f] = "none" /\ state[f] = "pending"
    /\ made' = made + 1
    /\ operands' = [operands EXCEPT ![made + 1] = two]

\* A function decorated with future, or a method, is called.
MakeCall ==
    /\ Makes(Call)
    /\ UNCHANGED <<program, state, task, at, awaits, told>>

\* The operands of an operation: one future, or two in whichever order.
Pairs == {two \in (1..made) \X ((1..made) \cup {Const}) : two[2] = Const \/ two[2] <= two[1]}

\* An operator is applied.
Operate ==
    /\ \E two \in Pairs : Makes(two)
    /\ UNCHANGED <<program, state, task, at, awaits, told>>

(***************************************************************************)
(* Awaiting.                                                               *)
(***************************************************************************)

\* What becomes of the task of a future that is awaited.
TaskOf(f) == IF task[f] = "none" THEN "running" ELSE task[f]

\* A cancelled concurrent future raises an Exception, unlike a cancelled task.
OutcomeOf(f) == IF state[f] = "cancelled" THEN "error" ELSE state[f]

\* w asks for f: it has a result, or its task is awaited.
Ask(w, f) ==
    IF state[f] # "pending"
    THEN at' = [at EXCEPT ![w] = OutcomeOf(f)] /\ UNCHANGED task
    ELSE at' = [at EXCEPT ![w] = "waits"] /\ task' = [task EXCEPT ![f] = TaskOf(f)]

Await(c) ==
    /\ Acts(c) /\ c # Main
    /\ \E f \in 1..made : awaits' = [awaits EXCEPT ![c] = f] /\ Ask(c, f)
    /\ UNCHANGED <<program, made, operands, state, told>>

\* The loop runs until f has a value.  (In a task that raises RuntimeError unless the
\* value is there already, and changes nothing.)
RunsLoopFor(f) == awaits' = [awaits EXCEPT ![Main] = f] /\ Ask(Main, f)

\* Plain code uses the value of a future: it calls result(), takes an attribute or an
\* item, or converts it.
Materialize ==
    /\ Acts(Main) /\ \E f \in 1..made : RunsLoopFor(f)
    /\ UNCHANGED <<program, made, operands, state, told>>

\* A comparison makes a future and uses its value at once.
Compare ==
    /\ Acts(Main) /\ \E two \in Pairs : Makes(two)
    /\ RunsLoopFor(made + 1)
    /\ UNCHANGED <<program, state, told>>

\* The task of an operation runs, and gathers its operands.
Gather(g, i) ==
    /\ Running /\ task[g] = "running" /\ ~IsCall(g) /\ at[<<g, i>>] = "idle"
    /\ IF operands[g][i] = Const
       THEN at' = [at EXCEPT ![<<g, i>>] = "value"] /\ UNCHANGED task
       ELSE Ask(<<g, i>>, operands[g][i])
    /\ UNCHANGED <<program, made, operands, state, awaits, told>>

\* Only the first waiter that resumes sets the result, and not if the future was
\* cancelled meanwhile (and a mutant: each of them does).
SetsResult_Always(f) == TRUE

SetsResult(f) == state[f] = "pending"

\* The task that w awaits has ended: w takes the result and keeps it in the future.
\* CancelledError is no Exception, so that it is not kept.
Resume(w) ==
    /\ Running /\ at[w] = "waits"
    /\ LET f == Target(w)
           sets == task[f] # "cancelled" /\ SetsResult(f)
       IN
       /\ task[f] \in Ended
       /\ state' = IF sets /\ state[f] = "pending" THEN [state EXCEPT ![f] = task[f]] ELSE state
       /\ at' = [at EXCEPT ![w] = IF sets /\ state[f] # "pending" THEN "InvalidStateError" ELSE task[f]]
    /\ UNCHANGED <<program, made, operands, task, awaits, told>>

(***************************************************************************)
(* The tasks end.                                                          *)
(***************************************************************************)

CallEnds(f) ==
    /\ Running /\ IsCall(f) /\ task[f] = "running"
    /\ \E r \in {"value", "error"} : task' = [task EXCEPT ![f] = r]
    /\ UNCHANGED <<program, made, operands, state, at, awaits, told>>

Child(g, i) == at[<<g, i>>]

\* An operation is done for if one of its operands failed or was cancelled (and a
\* mutant: a cancelled one is not noticed).
Fails_OnError(g) == \E i \in {1, 2} : Child(g, i) \in {"error", "InvalidStateError"}

Fails(g) == \E i \in {1, 2} : Child(g, i) \in {"error", "InvalidStateError", "cancelled"}

\* What becomes of the other operand then: it goes on (and a mutant: its task is
\* cancelled).
Others_Cancelled(g) ==
    [f \in Futures |-> IF task[f] = "running" /\ \E i \in {1, 2} : Child(g, i) = "waits" /\ operands[g][i] = f
                       THEN "cancelled" ELSE task[f]]

Others(g) == task

\* The first operand that fails decides.
GatherFails(g) ==
    /\ Running /\ task[g] = "running" /\ ~IsCall(g) /\ Fails(g)
    /\ \E i \in {1, 2} :
          /\ Child(g, i) \notin {"idle", "waits", "value"}
          /\ task' = [Others(g) EXCEPT ![g] = IF Child(g, i) = "cancelled" THEN "cancelled" ELSE "error"]
    /\ UNCHANGED <<program, made, operands, state, at, awaits, told>>

\* Both operands are there, and the operation succeeds or raises.
Compute(g) ==
    /\ Running /\ task[g] = "running" /\ ~IsCall(g)
    /\ \A i \in {1, 2} : Child(g, i) = "value"
    /\ \E r \in {"value", "error"} : task' = [task EXCEPT ![g] = r]
    /\ UNCHANGED <<program, made, operands, state, at, awaits, told>>

(***************************************************************************)
(* Cancellation.                                                           *)
(***************************************************************************)

\* A waiter that is cancelled cancels the task that it awaits, though others may
\* await it as well; an operation passes that on to its operands.
CancelTarget(f) ==
    task' = IF task[f] \notin {"running"} THEN task
            ELSE [task EXCEPT ![f] = IF IsCall(f) THEN "cancelled" ELSE "cancelling"]

CancelCaller(c) ==
    /\ Running /\ at[c] = "waits"
    /\ CancelTarget(awaits[c])
    /\ at' = [at EXCEPT ![c] = "cancelled"]
    /\ told' = told \cup {awaits[c]}
    /\ UNCHANGED <<program, made, operands, state, awaits>>

CancelChild(g, i) ==
    /\ Running /\ task[g] = "cancelling" /\ Child(g, i) = "waits"
    /\ CancelTarget(operands[g][i])
    /\ at' = [at EXCEPT ![<<g, i>>] = "cancelled"]
    /\ UNCHANGED <<program, made, operands, state, awaits, told>>

OperationCancelled(g) ==
    /\ Running /\ task[g] = "cancelling" /\ \A i \in {1, 2} : Child(g, i) # "waits"
    /\ task' = [task EXCEPT ![g] = "cancelled"]
    /\ UNCHANGED <<program, made, operands, state, at, awaits, told>>

\* The program cancels a future itself (one, a bound on the model); its task does
\* not know.
Drop(f) ==
    /\ f <= made /\ state[f] = "pending" /\ \A g \in Futures : state[g] # "cancelled"
    /\ state' = [state EXCEPT ![f] = "cancelled"]
    /\ UNCHANGED <<program, made, operands, task, at, awaits, told>>

\* Plain code has seen the result, and goes on.  (Tasks await once.)
GoOn ==
    /\ at[Main] \notin {"idle", "waits"}
    /\ at' = [at EXCEPT ![Main] = "idle"] /\ awaits' = [awaits EXCEPT ![Main] = 0]
    /\ UNCHANGED <<program, made, operands, state, task, told>>

Init ==
    /\ program \in Programs /\ made = 0
    /\ operands = [f \in Futures |-> Call]
    /\ state = [f \in Futures |-> "pending"] /\ task = [f \in Futures |-> "none"]
    /\ at = [w \in Waiters |-> "idle"] /\ awaits = [c \in Callers |-> 0]
    /\ told = {}

Runs ==
    \/ \E f \in Futures : CallEnds(f) \/ GatherFails(f) \/ Compute(f) \/ OperationCancelled(f)
    \/ \E f \in Futures, i \in {1, 2} : Gather(f, i) \/ CancelChild(f, i)
    \/ \E w \in Waiters : Resume(w)

Next ==
    \/ Runs \/ MakeCall \/ Operate \/ Materialize \/ Compare \/ GoOn
    \/ \E c \in Tasks : Await(c) \/ CancelCaller(c)
    \/ \E f \in Futures : Drop(f)

(***************************************************************************)
(* The loop runs whatever is ready, and coroutines end.                    *)
(***************************************************************************)
Fairness ==
    /\ \A f \in Futures : WF_vars(CallEnds(f) \/ GatherFails(f) \/ Compute(f) \/ OperationCancelled(f))
    /\ \A f \in Futures, i \in {1, 2} : WF_vars(Gather(f, i) \/ CancelChild(f, i))
    /\ \A w \in Waiters : WF_vars(Resume(w))

Spec == Init /\ [][Next]_vars /\ Fairness

(***************************************************************************)
(* Properties.                                                             *)
(***************************************************************************)

\* All who await a future are told the same, however many resume from its task and
\* in whatever order, unless it was cancelled meanwhile: none of them finds that the
\* result it wants to set is set already.
AwaitersAgree ==
    \A w \in Waiters :
        /\ at[w] \in {"value", "error", "InvalidStateError"}
        /\ Target(w) \in Futures /\ state[Target(w)] # "cancelled"
        => at[w] = state[Target(w)]

\* A coroutine is run once: what its task came to, another await does not undo.
RunsOnce ==
    [][\A f \in Futures : task[f] \in Ended => task'[f] = task[f]]_vars

\* The futures that f is computed from, and f: the least set with both.
Closed(S) == \A g \in S, i \in {1, 2} : operands[g][i] \in Futures => operands[g][i] \in S

Below(f) == {g \in Futures : \A S \in SUBSET Futures : f \in S /\ Closed(S) => g \in S}

\* CancelledError reaches a caller only through a future that it shares with a
\* caller that was cancelled: an operand that fails leaves the other one, which
\* somebody else may await, alone.
CancelStaysAmongSharers ==
    \A c \in Callers :
        at[c] = "cancelled" => \E f \in told : Below(f) \cap Below(awaits[c]) # {}

\* Whoever runs the loop for a value gets it, an exception or CancelledError, also
\* if one of several operands failed or was cancelled by somebody else.
ValuesArrive == at[Main] = "waits" ~> at[Main] # "waits"
=============================================================================
