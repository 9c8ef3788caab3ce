-------------------------------- MODULE Calls --------------------------------
(***************************************************************************)
(* How a call of a dual function, method or property is decided to be      *)
(* synchronous or not: the flags of the call (_kwargs.pyx, _flags.pyx),    *)
(* the default of the decorator or class (function.pyx, decorator.py,      *)
(* manager.pyx), the mode of the instance (abstract.pyx, base.pyx), the    *)
(* two layers of a bound method (method.pyx), properties (property.pyx),   *)
(* and the semaphore that a class puts around its methods.                 *)
(*                                                                         *)
(* The class is a singleton (_meta.py): callers in several threads ask for *)
(* an instance, which is created under a lock and kept for each mode, and  *)
(* then use it.  Those in InLoop are tasks of an event loop that runs, the *)
(* others plain code of a thread without one.  A thread does one thing     *)
(* until it returns or awaits.                                             *)
(***************************************************************************)
EXTENDS Integers, FiniteSets

CONSTANTS
    Callers,
    InLoop,        \* callers that are tasks of a running event loop
    ThreadOf,      \* the thread of each caller
    Classes,       \* class definitions, each with its users, and what they may say
    Asks,          \* ways to ask a class for an instance
    Flags,         \* flags a call may be given
    None

Modes == {"sync", "async"}
FlagNames == {"sync", "asynchronous"}

ASSUME CallsAssumption ==
    /\ InLoop \subseteq Callers /\ None \notin Callers
    /\ \A c \in Callers \ InLoop, d \in Callers : ThreadOf[c] = ThreadOf[d] => c = d
    /\ \A k \in Classes :
          /\ k.flag \in FlagNames /\ k.value \in BOOLEAN
          /\ k.where \in {"keyword", "required", "attribute", "inherited"}
          /\ k.member \in {"function", "method", "property"}
          /\ k.def \in Modes /\ k.decorated \in BOOLEAN
          /\ {k.default, k.classDefault} \subseteq Modes \cup {"none"} /\ k.permits \in Nat
          /\ k.users \subseteq Callers /\ k.asks \subseteq Asks /\ k.flags \subseteq Flags
    /\ \A a \in Asks : a.how \in {"plain", "keyword", "positional"}
    /\ \A f \in Flags : f.how \in {"keyword", "both"}
ASSUME NoneAssumption == \A c \in Callers, a \in Asks : [maker |-> c, ask |-> a] # None

VARIABLES
    class,      \* the class definition
    instances,  \* the instance of each mode, or None
    lock,       \* who holds the lock of the class, or None
    attribute,  \* the mode the flag attribute of each instance says now
    cached,     \* the mode each instance has decided on, or "unknown"
    pc,         \* where each caller is
    ask,        \* how it asked
    got,        \* the instance it has
    call,       \* the call it makes: what it uses, and its flag
    result,     \* what the call gave it
    held        \* how many permits its coroutine holds

vars == <<class, instances, lock, attribute, cached, pc, ask, got,
          call, result, held>>
callerVars == <<ask, got, call, result, held>>

NoAsk == [how |-> "no"]
NoFlag == [how |-> "no"]
NoCall == [use |-> "no", flag |-> NoFlag]
Uses == {"function", "method", "property", "hidden"}

Instances == [maker : Callers, ask : Asks]
CallsMade == [use : Uses \cup {"no"}, flag : Flags \cup {NoFlag}]

TypeOK ==
    /\ class \in Classes
    /\ instances \in [Modes -> Instances \cup {None}]
    /\ lock \in Callers \cup {None}
    /\ attribute \in [Modes -> Modes] /\ cached \in [Modes -> Modes \cup {"unknown"}]
    /\ pc \in [Callers -> {"idle", "looked", "inside", "ready", "runs", "here", "done"}]
    /\ ask \in [Callers -> Asks \cup {NoAsk}] /\ got \in [Callers -> Modes \cup {None}]
    /\ call \in [Callers -> CallsMade]
    /\ result \in [Callers -> {"none", "value", "coroutine", "SyncModeInAsyncContextError",
                               "TooManyFlags", "TypeError"}]
    /\ held \in [Callers -> 0..2]

(***************************************************************************)
(* Flags.                                                                  *)
(***************************************************************************)

\* What a flag says: "sync" as it stands, "asynchronous" negated.
Says(flag, value) == IF (flag = "sync") = value THEN "sync" ELSE "async"

\* A call may name one flag.
TooMany(flag) == flag.how = "both"

\* What a class gives its flag when nobody else does.  A parameter without a
\* default value counts as true, and a flag found on a base class as false.
DefaultValue ==
    \/ class.where \in {"keyword", "attribute"} /\ class.value
    \/ class.where = "required"

\* The mode a class has when nobody says otherwise.
DefaultMode == Says(class.flag, DefaultValue)

\* The mode that ASyncSingletonMeta expects of the instance: keywords are looked
\* at, positional arguments are not (and a mutant: it takes the flag as it is).
Key_AsItIs(a) ==
    IF a.how = "keyword" THEN IF a.value THEN "sync" ELSE "async" ELSE DefaultMode

Key(a) == IF a.how = "keyword" THEN Says(a.flag, a.value) ELSE DefaultMode

\* The constructor takes the arguments; only a parameter can be given a value.
Accepts(a) ==
    CASE class.where = "keyword"  -> a.how = "keyword" => a.flag = class.flag
      [] class.where = "required" -> a.how = "positional" \/ (a.how = "keyword" /\ a.flag = class.flag)
      [] OTHER                    -> a.how = "plain"

\* The mode that the flag attribute of the new instance says.
ModeMade(a) ==
    Says(class.flag, IF a.how = "plain" THEN class.value ELSE a.value)

(***************************************************************************)
(* ASyncSingletonMeta.__call__.                                            *)
(***************************************************************************)

\* Nobody else runs in the thread of c.
HasThread(c) ==
    \A d \in Callers \ {c} : ThreadOf[d] = ThreadOf[c] => pc[d] \notin {"looked", "inside", "here"}

\* c has the instance of a mode in its hands.
Gets(c, m) == got' = [got EXCEPT ![c] = m] /\ pc' = [pc EXCEPT ![c] = "ready"]

\* c looks for the instance without the lock.
Look(c) ==
    /\ pc[c] = "idle" /\ c \in class.users
    /\ class.member # "function" /\ HasThread(c)
    /\ \E a \in class.asks :
          /\ ask' = [ask EXCEPT ![c] = a]
          /\ IF instances[Key(a)] # None
             THEN Gets(c, Key(a))
             ELSE pc' = [pc EXCEPT ![c] = "looked"] /\ UNCHANGED got
    /\ UNCHANGED <<class, instances, lock, attribute, cached, call, result, held>>

\* What the second look finds (and a mutant: nobody looks a second time).
FoundInside_Never(c) == FALSE

FoundInside(c) == instances[Key(ask[c])] # None

\* The lock is taken, and given back at once if the instance is there by now.
Enter(c) ==
    /\ pc[c] = "looked" /\ lock = None
    /\ IF FoundInside(c)
       THEN Gets(c, Key(ask[c])) /\ UNCHANGED lock
       ELSE /\ lock' = c /\ pc' = [pc EXCEPT ![c] = "inside"] /\ UNCHANGED got
    /\ UNCHANGED <<class, instances, attribute, cached, ask, call, result, held>>

\* The constructor returns, under the lock.
Construct(c) ==
    /\ pc[c] = "inside" /\ Accepts(ask[c])
    /\ LET m == Key(ask[c]) IN
       /\ instances' = [instances EXCEPT ![m] = [maker |-> c, ask |-> ask[c]]]
       /\ attribute' = [attribute EXCEPT ![m] = ModeMade(ask[c])]
       /\ cached' = [cached EXCEPT ![m] = "unknown"]
       /\ Gets(c, m)
    /\ lock' = None
    /\ UNCHANGED <<class, ask, call, result, held>>

\* Who has the lock after a constructor raised (and a mutant: it is not released).
LockAfterError_Kept(c) == c

LockAfterError(c) == None

\* The constructor raises: it does not know its arguments, or anything else.
ConstructorRaises(c) ==
    /\ pc[c] = "inside"
    /\ lock' = LockAfterError(c)
    /\ pc' = [pc EXCEPT ![c] = "done"]
    /\ result' = [result EXCEPT ![c] = "TypeError"]
    /\ UNCHANGED <<class, instances, attribute, cached, ask, got, call, held>>

\* The program assigns to the flag attribute of an instance.
Assign(m) ==
    /\ instances[m] # None
    /\ \E v \in Modes : attribute' = [attribute EXCEPT ![m] = v]
    /\ UNCHANGED <<class, instances, lock, cached, pc, callerVars>>

(***************************************************************************)
(* What a call is wrapped in, and what each layer decides.                 *)
(***************************************************************************)

\* A decorator has a default, be it None.
DecoratorDefault == class.default

\* A class may define modifiers for its methods, the default among them.
ClassDefault == class.classDefault

\* The default of what is used.  That of a decorator replaces that of the class, which
\* only methods without a decorator have; the method behind a property is asynchronous.
Default(use) ==
    IF use = "hidden" THEN "async"
    ELSE IF use = "method" /\ ~class.decorated THEN ClassDefault ELSE DecoratorDefault

IsCoroutineFunction(use) == use = "hidden" \/ class.def = "async"

IsSyncDefault(use) ==
    Default(use) = "sync" \/ (Default(use) = "none" /\ ~IsCoroutineFunction(use))

\* _ASyncFunction._run_sync.
RunsSync(use, flag) ==
    IF flag.how = "keyword" THEN Says(flag.flag, flag.value) = "sync" ELSE IsSyncDefault(use)

\* What _async_wrap makes of a coroutine function, and _sync_wrap of another: the
\* latter is given to a thread of the executor if it is to be awaited.
AsyncWrap(use, flag) == IF RunsSync(use, flag) THEN "await" ELSE "coroutine"
SyncWrap(use, flag) == IF RunsSync(use, flag) THEN "here" ELSE "coroutine"

FunctionDecision(use, flag) ==
    IF IsCoroutineFunction(use) THEN AsyncWrap(use, flag) ELSE SyncWrap(use, flag)

\* The mode of the instance, which is decided once.
InstanceMode(m) == IF cached[m] = "unknown" THEN attribute[m] ELSE cached[m]

\* _should_await of a bound method, with the keywords of the call as they were
\* (and a mutant: the flag was taken from them by the first layer).
ShouldAwait_Popped(c, use, flag) ==
    IF Default(use) # "none" THEN Default(use) = "sync" ELSE InstanceMode(got[c]) = "sync"

ShouldAwait(c, use, flag) ==
    IF flag.how = "keyword" THEN Says(flag.flag, flag.value) = "sync"
    ELSE IF Default(use) # "none" THEN Default(use) = "sync"
    ELSE InstanceMode(got[c]) = "sync"

\* A bound method decides on the coroutine that its function returned.
MethodDecision(c, use, flag) ==
    IF FunctionDecision(use, flag) = "coroutine" /\ ShouldAwait(c, use, flag)
    THEN "await" ELSE FunctionDecision(use, flag)

\* A property takes no flag, and its getter always gives an awaitable.
PropertyDecision(c) ==
    IF ShouldAwait(c, "property", NoFlag) THEN "await" ELSE "coroutine"

\* The classes of functions and methods that have a default pass the call on.
Decision(c, use, flag) ==
    CASE use = "function" -> FunctionDecision(use, flag)
      [] use = "property" -> PropertyDecision(c)
      [] OTHER            -> MethodDecision(c, use, flag)

\* Looking up a method or a property without a default decides on the mode.
Decides(use) == use # "function" /\ Default(use) = "none"

\* What the caller sees.  _await() refuses to wait on a loop that runs.
Outcome(c, use, flag) ==
    IF TooMany(flag) THEN "TooManyFlags"
    ELSE IF Decision(c, use, flag) = "coroutine" THEN "coroutine"
    ELSE IF Decision(c, use, flag) = "await" /\ c \in InLoop THEN "SyncModeInAsyncContextError"
    ELSE "value"

\* A property comes with a hidden method, for calls that have flags.
Hidden == {u \in {"hidden"} : class.member = "property"}

UsesOf == {class.member} \cup Hidden

\* The call is made.  A coroutine is awaited, here or by the caller; a function that
\* runs at once keeps the thread.
Use(c) ==
    /\ pc[c] = (IF class.member = "function" THEN "idle" ELSE "ready")
    /\ c \in class.users /\ HasThread(c)
    /\ \E use \in UsesOf, flag \in class.flags \cup {NoFlag} :
          LET outcome == Outcome(c, use, flag) IN
          /\ use = "property" => flag = NoFlag
          /\ call' = [call EXCEPT ![c] = [use |-> use, flag |-> flag]]
          /\ result' = [result EXCEPT ![c] = outcome]
          /\ pc' = [pc EXCEPT ![c] = IF outcome \notin {"value", "coroutine"} THEN "done"
                                     ELSE IF Decision(c, use, flag) = "here" THEN "here" ELSE "runs"]
          /\ cached' = IF Decides(use)
                       THEN [cached EXCEPT ![got[c]] = InstanceMode(got[c])] ELSE cached
    /\ UNCHANGED <<class, instances, lock, attribute, ask, got, held>>

(***************************************************************************)
(* The semaphore.                                                          *)
(***************************************************************************)

\* The descriptor of a plain async def puts the semaphore around it, and so does the
\* function of what is called, unless it is a property.
LayersOfDescriptor(use) == IF use = "method" /\ class.def = "async" /\ ~class.decorated THEN 1 ELSE 0
LayersOfFunction(use) == IF use \in {"function", "method"} THEN 1 ELSE 0

UsesSemaphore == class.permits > 0

\* How often the semaphore is around the coroutine.
Layers(use) ==
    IF UsesSemaphore THEN LayersOfDescriptor(use) + LayersOfFunction(use) ELSE 0

\* ThreadsafeSemaphore has the permits once for each thread.
FreePermits(c) ==
    class.permits
        - Cardinality({p \in Callers \X {1, 2} : ThreadOf[p[1]] = ThreadOf[c] /\ p[2] <= held[p[1]]})

TakePermit(c) ==
    /\ pc[c] = "runs" /\ held[c] < Layers(call[c].use) /\ FreePermits(c) > 0
    /\ HasThread(c)
    /\ held' = [held EXCEPT ![c] = @ + 1]
    /\ UNCHANGED <<class, instances, lock, attribute, cached, pc, ask, got, call, result>>

\* The function returns or raises.
Finish(c) ==
    /\ \/ pc[c] = "here"
       \/ pc[c] = "runs" /\ held[c] = Layers(call[c].use) /\ HasThread(c)
    /\ held' = [held EXCEPT ![c] = 0]
    /\ pc' = [pc EXCEPT ![c] = "done"]
    /\ UNCHANGED <<class, instances, lock, attribute, cached, ask, got, call, result>>

\* The task is cancelled, or the coroutine is never awaited.
Abandon(c) ==
    /\ pc[c] = "runs" /\ result[c] = "coroutine" /\ HasThread(c)
    /\ held' = [held EXCEPT ![c] = 0]
    /\ pc' = [pc EXCEPT ![c] = "done"]
    /\ UNCHANGED <<class, instances, lock, attribute, cached, ask, got, call, result>>

\* The caller forgets all about it.
Forget(c) ==
    /\ pc[c] = "done"
    /\ pc' = [pc EXCEPT ![c] = "idle"]
    /\ ask' = [ask EXCEPT ![c] = NoAsk] /\ got' = [got EXCEPT ![c] = None]
    /\ call' = [call EXCEPT ![c] = NoCall] /\ result' = [result EXCEPT ![c] = "none"]
    /\ UNCHANGED <<class, instances, lock, attribute, cached, held>>

Init ==
    /\ class \in Classes
    /\ instances = [m \in Modes |-> None] /\ lock = None
    /\ attribute = [m \in Modes |-> m] /\ cached = [m \in Modes |-> "unknown"]
    /\ pc = [c \in Callers |-> "idle"] /\ ask = [c \in Callers |-> NoAsk]
    /\ got = [c \in Callers |-> None] /\ call = [c \in Callers |-> NoCall]
    /\ result = [c \in Callers |-> "none"] /\ held = [c \in Callers |-> 0]

Moves(c) ==
    Enter(c) \/ Construct(c) \/ ConstructorRaises(c) \/ Use(c) \/ TakePermit(c) \/ Finish(c)

Next ==
    \/ \E c \in Callers : Moves(c) \/ Look(c) \/ Abandon(c) \/ Forget(c)
    \/ \E m \in Modes : Assign(m)

(***************************************************************************)
(* Threads run, an event loop serves its tasks in turn, and so does the    *)
(* semaphore; functions and constructors end.                              *)
(***************************************************************************)
Fairness == \A c \in Callers : SF_vars(Moves(c))

Spec == Init /\ [][Next]_vars /\ Fairness

(***************************************************************************)
(* Properties.                                                             *)
(***************************************************************************)

\* A singleton class keeps the first instance it made for a mode: a thread that
\* waited for the lock while another created it must not replace it.
OneInstancePerMode ==
    [][\A m \in Modes : instances[m] # None => instances'[m] = instances[m]]_vars

\* Whoever asks by keyword, or leaves it to the default of the class, gets an
\* instance of that mode, though the dict is searched by what the signature lets
\* expect and the instance goes by its attribute.  Positional arguments are not
\* looked at, nor the value of a flag that a base class defines.
AskedModeIsGiven ==
    \A c \in Callers :
        LET a == ask[c] IN
        /\ got[c] # None /\ instances[got[c]].ask.how # "positional"
        /\ \/ a.how = "keyword" /\ class.where # "inherited"
           \/ a.how = "plain" /\ class.where # "required"
        => ModeMade(instances[got[c]].ask)
              = (IF a.how = "keyword" THEN Says(a.flag, a.value) ELSE Says(class.flag, class.value))

\* The flag of the call decides, then the default of the decorator, then the mode
\* of the instance, or how a function is defined.
Wanted(c) ==
    LET use == call[c].use
        flag == call[c].flag
    IN  IF flag.how = "keyword" THEN Says(flag.flag, flag.value)
        ELSE IF Default(use) # "none" THEN Default(use)
        ELSE IF use = "function" THEN class.def ELSE cached[got[c]]

\* The two layers of a call agree: a coroutine is what comes out if and only if it
\* is wanted, a synchronous call gives a value, and one that would have to wait for
\* a coroutine on the loop that is running is refused.  (A plain def method without
\* a default runs at once, whatever the mode of its instance.)
ResultIsAsWanted ==
    \A c \in Callers :
        LET runsAtOnce == /\ call[c].use = "method" /\ class.def = "sync"
                          /\ Default("method") = "none" /\ call[c].flag.how = "no"
            refused == /\ c \in InLoop
                       /\ IsCoroutineFunction(call[c].use) \/ call[c].use = "property"
        IN  result[c] \in {"value", "coroutine", "SyncModeInAsyncContextError"} =>
            result[c] = (IF Wanted(c) = "async" /\ ~runsAtOnce THEN "coroutine"
                         ELSE IF refused THEN "SyncModeInAsyncContextError" ELSE "value")

\* Once an instance has answered in a mode it keeps to it, though its flag
\* attribute may be assigned at any time.
ModeIsStable ==
    [][\A m \in Modes : cached[m] # "unknown" => cached'[m] = cached[m]]_vars

\* The permits suffice for every caller of a thread to be short of its last one.
Enough ==
    \A c \in Callers :
        Cardinality({d \in Callers : ThreadOf[d] = ThreadOf[c]}) * (Layers(class.member) - 1)
            < class.permits

\* Whoever asks for an instance or makes a call is answered: the lock of the class
\* is given back when a constructor raises, and the permits are when a call ends.
\* (Not if the permits are fewer than the callers that may hold one and want
\* another: a class with one permit waits for itself in every plain async def.)
CallsReturn ==
    \A c \in Callers : (pc[c] \notin {"idle", "done"} /\ Enough) ~> pc[c] = "done"

\* The same without that condition: tests/fixtures.py:119 has the semaphore of a
\* class work for a plain async def.  (It does not.)
EveryCallReturns ==
    \A c \in Callers : pc[c] \notin {"idle", "done"} ~> pc[c] = "done"
=============================================================================
