----------------------------- MODULE CallsProofs -----------------------------
(***************************************************************************)
(* What holds of Calls for all classes, callers and flags: a singleton     *)
(* class makes one instance for each mode, it is of the mode that was      *)
(* asked for, and a call of it gives a value or a coroutine as the flag of *)
(* the call, the defaults and the mode of the instance want.               *)
(***************************************************************************)
EXTENDS Calls, TLAPS

\* The instance of a mode was made by a call whose arguments say so.
MadeFor(m) ==
    /\ instances[m] # None
    /\ Key(instances[m].ask) = m /\ Accepts(instances[m].ask)

KeyFits == \A m \in Modes : instances[m] # None => MadeFor(m)

\* Whoever looked for an instance has asked for it.
Asked == \A c \in Callers : pc[c] \in {"looked", "inside"} => ask[c] \in Asks

\* Whoever constructs holds the lock, and there is no instance for it yet.
InsideIsNew ==
    \A c \in Callers : pc[c] = "inside" => lock = c /\ instances[Key(ask[c])] = None

\* What a caller has was made, and is what it asked for.
GotIsMade ==
    \A c \in Callers : got[c] # None \/ pc[c] = "ready" =>
        got[c] \in Modes /\ got[c] = Key(ask[c]) /\ instances[got[c]] # None

NothingYet == \A c \in Callers : pc[c] \in {"idle", "looked", "inside"} => got[c] = None

\* An instance that does not exist has not decided on its mode.
UndecidedYet == \A m \in Modes : instances[m] = None => cached[m] = "unknown"

\* A caller has no result before it makes its call.
Unanswered ==
    \A c \in Callers : pc[c] \in {"idle", "looked", "inside", "ready"} => result[c] = "none"

Answered(c) == result[c] \in {"value", "coroutine", "SyncModeInAsyncContextError"}

\* Where the mode of the instance mattered for an answer, it is decided on.
Settled ==
    \A c \in Callers : Answered(c) =>
        /\ call[c].use \in UsesOf
        /\ Decides(call[c].use) => got[c] \in Modes /\ cached[got[c]] # "unknown"

IInv ==
    /\ TypeOK /\ Asked /\ KeyFits /\ InsideIsNew /\ GotIsMade /\ NothingYet /\ UndecidedYet
    /\ Unanswered /\ Settled /\ ResultIsAsWanted

-----------------------------------------------------------------------------
\* A flag says one mode or the other, and so do the arguments of a class.
LEMMA SaysAMode ==
    /\ \A flag, value : Says(flag, value) \in Modes
    /\ \A a : Key(a) \in Modes /\ ModeMade(a) \in Modes
BY DEF Says, Modes, Key, ModeMade, DefaultMode

\* The invariant holds at the start.
LEMMA InitHolds == Init => IInv
<1> SUFFICES ASSUME Init PROVE IInv
    OBVIOUS
<1>1. TypeOK
    BY DEF Init, TypeOK, Modes, CallsMade, NoCall
<1>2. Asked /\ KeyFits /\ InsideIsNew /\ GotIsMade /\ NothingYet /\ UndecidedYet
    BY SaysAMode DEF Init, Asked, KeyFits, InsideIsNew, GotIsMade, NothingYet, UndecidedYet
<1>3. Unanswered /\ Settled /\ ResultIsAsWanted
    BY DEF Init, Unanswered, Settled, Answered, ResultIsAsWanted
<1> QED BY <1>1, <1>2, <1>3 DEF IInv

\* Every step keeps the types.
LEMMA TypesAreKept ==
    ASSUME TypeOK, Asked, [Next]_vars
    PROVE  TypeOK'
<1>1. CASE UNCHANGED vars
    BY <1>1 DEF vars, callerVars, TypeOK, CallsMade, Instances
<1>2. ASSUME NEW c \in Callers, Look(c)
      PROVE  TypeOK'
    <2>1. PICK a \in class.asks :
             /\ ask' = [ask EXCEPT ![c] = a]
             /\ IF instances[Key(a)] # None
                THEN Gets(c, Key(a))
                ELSE pc' = [pc EXCEPT ![c] = "looked"] /\ UNCHANGED got
        BY <1>2 DEF Look
    <2>2. a \in Asks
        BY CallsAssumption DEF TypeOK
    <2>3. Key(a) \in Modes
        BY SaysAMode
    <2>4. /\ ask' \in [Callers -> Asks \cup {NoAsk}]
          /\ got' \in [Callers -> Modes \cup {None}]
        BY <2>1, <2>2, <2>3 DEF Gets, TypeOK
    <2>5. pc' = [pc EXCEPT ![c] = "ready"] \/ pc' = [pc EXCEPT ![c] = "looked"]
        BY <2>1 DEF Gets
    <2> QED BY <1>2, <2>4, <2>5 DEF Look, TypeOK
<1>3. ASSUME NEW c \in Callers, Enter(c)
      PROVE  TypeOK'
    <2>1. Key(ask[c]) \in Modes
        BY SaysAMode
    <2> QED BY <1>3, <2>1 DEF Enter, Gets, TypeOK, CallsMade, Instances
<1>4. ASSUME NEW c \in Callers, Construct(c)
      PROVE  TypeOK'
    <2>1. Key(ask[c]) \in Modes /\ ModeMade(ask[c]) \in Modes
        BY SaysAMode
    <2>2. ask[c] \in Asks /\ [maker |-> c, ask |-> ask[c]] \in Instances
        BY <1>4 DEF Construct, Asked, Instances
    <2> QED BY <1>4, <2>1, <2>2 DEF Construct, Gets, TypeOK, CallsMade
<1>5. ASSUME NEW c \in Callers, ConstructorRaises(c)
      PROVE  TypeOK'
    BY <1>5 DEF ConstructorRaises, LockAfterError, TypeOK, CallsMade, Instances
<1>6. ASSUME NEW c \in Callers, Use(c)
      PROVE  TypeOK'
    <2>1. PICK use \in UsesOf, flag \in class.flags \cup {NoFlag} :
             /\ call' = [call EXCEPT ![c] = [use |-> use, flag |-> flag]]
             /\ result' = [result EXCEPT ![c] = Outcome(c, use, flag)]
             /\ \E at \in {"done", "here", "runs"} : pc' = [pc EXCEPT ![c] = at]
             /\ cached' = IF Decides(use)
                          THEN [cached EXCEPT ![got[c]] = InstanceMode(got[c])] ELSE cached
        BY <1>6, Zenon DEF Use
    <2>2. [use |-> use, flag |-> flag] \in CallsMade
        BY CallsAssumption DEF TypeOK, UsesOf, Hidden, Uses, CallsMade
    <2>3. Outcome(c, use, flag) \in {"value", "coroutine", "SyncModeInAsyncContextError", "TooManyFlags"}
        BY DEF Outcome
    <2>4. cached' \in [Modes -> Modes \cup {"unknown"}]
        BY <2>1 DEF TypeOK, InstanceMode
    <2> QED BY <1>6, <2>1, <2>2, <2>3, <2>4 DEF Use, TypeOK
<1>7. ASSUME NEW c \in Callers, TakePermit(c)
      PROVE  TypeOK'
    <2>1. Layers(call[c].use) \in 0..2
        BY DEF Layers, LayersOfDescriptor, LayersOfFunction
    <2> QED BY <1>7, <2>1 DEF TakePermit, TypeOK, CallsMade, Instances
<1>8. ASSUME NEW c \in Callers, Finish(c) \/ Abandon(c)
      PROVE  TypeOK'
    BY <1>8 DEF Finish, Abandon, TypeOK, CallsMade, Instances
<1>9. ASSUME NEW c \in Callers, Forget(c)
      PROVE  TypeOK'
    BY <1>9 DEF Forget, TypeOK, CallsMade, Instances, NoCall
<1>10. ASSUME NEW m \in Modes, Assign(m)
       PROVE  TypeOK'
    BY <1>10 DEF Assign, callerVars, TypeOK, CallsMade, Instances
<1> QED BY <1>1, <1>2, <1>3, <1>4, <1>5, <1>6, <1>7, <1>8, <1>9, <1>10 DEF Next, Moves

\* A class does not change, nor what it says by default.
LEMMA ClassIsKept == [Next]_vars => class' = class /\ DefaultMode' = DefaultMode
<1> SUFFICES ASSUME [Next]_vars PROVE class' = class
    BY DEF DefaultMode, DefaultValue
<1> QED BY DEF Next, vars, Moves, Look, Enter, Construct, ConstructorRaises, Assign, Use,
               TakePermit, Finish, Abandon, Forget

\* Once it has its instance a caller changes nothing that the metaclass looks at.
MovesOn ==
    /\ UNCHANGED <<instances, lock, ask, got>>
    /\ \A c \in Callers : pc'[c] = pc[c] \/ pc'[c] \in {"runs", "here", "done"}

\* The steps that the metaclass takes, or the caller when it forgets all about it.
LEMMA StepsOfTheMetaclass ==
    ASSUME TypeOK, [Next]_vars
    PROVE  \/ MovesOn
           \/ \E c \in Callers : Look(c) \/ Enter(c) \/ Construct(c) \/ ConstructorRaises(c) \/ Forget(c)
<1>1. CASE UNCHANGED vars
    BY <1>1 DEF vars, MovesOn
<1>2. ASSUME NEW c \in Callers, Use(c)
      PROVE  MovesOn
    <2>1. \E at \in {"runs", "here", "done"} : pc' = [pc EXCEPT ![c] = at]
        BY <1>2, Zenon DEF Use
    <2> QED BY <1>2, <2>1 DEF Use, MovesOn, TypeOK
<1>3. ASSUME NEW c \in Callers, TakePermit(c) \/ Finish(c) \/ Abandon(c)
      PROVE  MovesOn
    BY <1>3 DEF TakePermit, Finish, Abandon, MovesOn, TypeOK
<1>4. ASSUME NEW m \in Modes, Assign(m)
      PROVE  MovesOn
    BY <1>4 DEF Assign, callerVars, MovesOn
<1> QED BY <1>1, <1>2, <1>3, <1>4 DEF Next, Moves

\* The dict of instances changes in Construct only, and grows.
LEMMA InstancesGrow ==
    ASSUME IInv, [Next]_vars
    PROVE  \/ UNCHANGED <<instances, cached>>
           \/ /\ UNCHANGED instances
              /\ \E m \in Modes : instances[m] # None /\ cached' = [cached EXCEPT ![m] = InstanceMode(m)]
           \/ \E c \in Callers : Construct(c) /\ instances[Key(ask[c])] = None
<1>1. ASSUME NEW c \in Callers, Construct(c)
      PROVE  instances[Key(ask[c])] = None
    BY <1>1 DEF Construct, IInv, InsideIsNew
<1>2. ASSUME NEW c \in Callers, Use(c)
      PROVE  \/ UNCHANGED <<instances, cached>>
             \/ /\ UNCHANGED instances
                /\ \E m \in Modes : instances[m] # None /\ cached' = [cached EXCEPT ![m] = InstanceMode(m)]
    <2>1. UNCHANGED instances
        BY <1>2 DEF Use
    <2>2. CASE UNCHANGED cached
        BY <2>1, <2>2
    <2>3. CASE ~UNCHANGED cached
        <3>1. PICK use \in UsesOf : Decides(use) /\ cached' = [cached EXCEPT ![got[c]] = InstanceMode(got[c])]
            BY <1>2, <2>3, Zenon DEF Use
        <3>2. class.member # "function"
            BY <3>1 DEF Decides, UsesOf, Hidden
        <3>3. pc[c] = "ready"
            BY <1>2, <3>2 DEF Use
        <3> QED BY <2>1, <3>1, <3>3 DEF IInv, GotIsMade
    <2> QED BY <2>2, <2>3
<1> QED BY <1>1, <1>2 DEF Next, vars, Moves, Look, Enter, ConstructorRaises, Assign,
               TakePermit, Finish, Abandon, Forget

\* Each step keeps what relates callers, lock and instances.
LEMMA CallersAreKept ==
    ASSUME IInv, [Next]_vars
    PROVE  (Asked /\ KeyFits /\ InsideIsNew /\ GotIsMade /\ NothingYet)'
<1> DEFINE Kept == (Asked /\ KeyFits /\ InsideIsNew /\ GotIsMade /\ NothingYet)'
<1>1. class' = class /\ DefaultMode' = DefaultMode
    BY ClassIsKept
<1>2. CASE MovesOn
    BY <1>1, <1>2 DEF MovesOn, IInv, Asked, KeyFits, MadeFor, InsideIsNew, GotIsMade, NothingYet,
                      Key, Accepts
<1>3. ASSUME NEW c \in Callers, Look(c)
      PROVE  Kept
    <2>1. PICK a \in class.asks :
             /\ ask' = [ask EXCEPT ![c] = a]
             /\ IF instances[Key(a)] # None
                THEN Gets(c, Key(a))
                ELSE pc' = [pc EXCEPT ![c] = "looked"] /\ UNCHANGED got
        BY <1>3 DEF Look
    <2>2. a \in Asks
        BY CallsAssumption DEF IInv, TypeOK
    <2>3. Key(a) \in Modes
        BY SaysAMode
    <2>4. Asked'
        BY <1>1, <1>3, <2>1, <2>2, <2>3 DEF Look, Gets, IInv, TypeOK, Asked
    <2>5. KeyFits'
        BY <1>1, <1>3, <2>1, <2>2, <2>3 DEF Look, Gets, IInv, TypeOK, KeyFits, MadeFor, Key, Accepts
    <2>6. InsideIsNew'
        BY <1>1, <1>3, <2>1, <2>2, <2>3 DEF Look, Gets, IInv, TypeOK, InsideIsNew, Key
    <2>7. GotIsMade'
        BY <1>1, <1>3, <2>1, <2>2, <2>3 DEF Look, Gets, IInv, TypeOK, GotIsMade, Key, NothingYet
    <2>8. NothingYet'
        BY <1>1, <1>3, <2>1, <2>2, <2>3 DEF Look, Gets, IInv, TypeOK, NothingYet
    <2> QED BY <2>4, <2>5, <2>6, <2>7, <2>8
<1>4. ASSUME NEW c \in Callers, Enter(c)
      PROVE  Kept
    <2>1. Key(ask[c]) \in Modes
        BY SaysAMode
    <2>2. \A d \in Callers : pc[d] # "inside"
        BY <1>4, CallsAssumption DEF Enter, IInv, InsideIsNew
    <2>3. Asked'
        BY <1>1, <1>4, <2>1 DEF Enter, FoundInside, Gets, IInv, TypeOK, Asked
    <2>4. KeyFits'
        BY <1>1, <1>4, <2>1 DEF Enter, FoundInside, Gets, IInv, TypeOK, KeyFits, MadeFor, Key, Accepts
    <2>5. InsideIsNew'
        BY <1>1, <1>4, <2>1, <2>2 DEF Enter, FoundInside, Gets, IInv, TypeOK, InsideIsNew, Key
    <2>6. GotIsMade'
        BY <1>1, <1>4, <2>1 DEF Enter, FoundInside, Gets, IInv, TypeOK, GotIsMade, Key, NothingYet
    <2>7. NothingYet'
        BY <1>1, <1>4, <2>1 DEF Enter, FoundInside, Gets, IInv, TypeOK, NothingYet
    <2> QED BY <2>3, <2>4, <2>5, <2>6, <2>7
<1>5. ASSUME NEW c \in Callers, Construct(c)
      PROVE  Kept
    <2>1. Key(ask[c]) \in Modes
        BY SaysAMode
    <2>2. [maker |-> c, ask |-> ask[c]] # None
        BY <1>5, NoneAssumption DEF Construct, IInv, Asked
    <2>3. \A d \in Callers \ {c} : pc[d] # "inside"
        BY <1>5 DEF Construct, IInv, InsideIsNew
    <2>4. Asked'
        BY <1>1, <1>5, <2>1, <2>2, <2>3 DEF Construct, Gets, IInv, TypeOK, Asked
    <2>5. KeyFits'
        BY <1>1, <1>5, <2>1, <2>2, <2>3 DEF Construct, Gets, IInv, TypeOK, KeyFits, MadeFor, Key, Accepts
    <2>6. InsideIsNew'
        BY <1>1, <1>5, <2>1, <2>2, <2>3 DEF Construct, Gets, IInv, TypeOK, InsideIsNew, Key
    <2>7. GotIsMade'
        BY <1>1, <1>5, <2>1, <2>2, <2>3 DEF Construct, Gets, IInv, TypeOK, GotIsMade, Key, NothingYet
    <2>8. NothingYet'
        BY <1>1, <1>5, <2>1, <2>2, <2>3 DEF Construct, Gets, IInv, TypeOK, NothingYet
    <2> QED BY <2>4, <2>5, <2>6, <2>7, <2>8
<1>6. ASSUME NEW c \in Callers, ConstructorRaises(c)
      PROVE  Kept
    BY <1>1, <1>6 DEF ConstructorRaises, LockAfterError, IInv, TypeOK, Asked, KeyFits, MadeFor, InsideIsNew, GotIsMade, NothingYet,
                      Key, Accepts
<1>7. ASSUME NEW c \in Callers, Forget(c)
      PROVE  Kept
    BY <1>1, <1>7 DEF Forget, IInv, TypeOK, Asked, KeyFits, MadeFor, InsideIsNew, GotIsMade, NothingYet,
                      Key, Accepts
<1> QED BY <1>2, <1>3, <1>4, <1>5, <1>6, <1>7, StepsOfTheMetaclass DEF IInv

\* An instance decides on its mode once.
LEMMA DecidedOnce ==
    ASSUME IInv, [Next]_vars
    PROVE  \A m \in Modes : cached[m] # "unknown" => cached'[m] = cached[m]
<1>1. ASSUME NEW c \in Callers, Construct(c), instances[Key(ask[c])] = None
      PROVE  \A m \in Modes : cached[m] # "unknown" => cached'[m] = cached[m]
    BY <1>1 DEF Construct, IInv, TypeOK, UndecidedYet
<1>2. ASSUME NEW n \in Modes, cached' = [cached EXCEPT ![n] = InstanceMode(n)]
      PROVE  \A m \in Modes : cached[m] # "unknown" => cached'[m] = cached[m]
    BY <1>2 DEF InstanceMode, IInv, TypeOK
<1> QED BY <1>1, <1>2, InstancesGrow

\* What a caller may have in its hands when it makes its call, and the call it makes.
CallMade(c, use, flag) ==
    /\ use \in UsesOf /\ flag \in class.flags \cup {NoFlag}
    /\ use = "property" => flag = NoFlag
    /\ Decides(use) => got[c] \in Modes /\ InstanceMode(got[c]) \in Modes
    /\ call'[c] = [use |-> use, flag |-> flag]
    /\ result'[c] = Outcome(c, use, flag)
    /\ Decides(use) => cached'[got[c]] = InstanceMode(got[c])
    /\ got'[c] = got[c]

\* Whoever makes a call goes by the flag, the defaults and the mode that the
\* instance has now; the others keep what they have, or forget it.
LEMMA AnswersAreGiven ==
    ASSUME IInv, [Next]_vars, NEW c \in Callers
    PROVE  \/ /\ pc'[c] \notin {"idle", "looked", "inside", "ready"}
              /\ \E use, flag : CallMade(c, use, flag)
           \/ /\ ~Answered(c)'
              /\ pc'[c] \in {"idle", "looked", "inside", "ready"} => result'[c] = "none"
           \/ /\ call'[c] = call[c] /\ result'[c] = result[c] /\ got'[c] = got[c]
              /\ pc'[c] \notin {"idle", "looked", "inside", "ready"}
<1> DEFINE Early == {"idle", "looked", "inside", "ready"}
           Kept == /\ call'[c] = call[c] /\ result'[c] = result[c] /\ got'[c] = got[c]
                   /\ pc'[c] \notin Early
           Cleared == ~Answered(c)' /\ (pc'[c] \in Early => result'[c] = "none")
           Made == pc'[c] \notin Early /\ \E use, flag : CallMade(c, use, flag)
<1>1. ASSUME call'[c] = call[c], result'[c] = result[c], got'[c] = got[c], pc'[c] = pc[c]
      PROVE  Kept \/ Cleared
    BY <1>1 DEF IInv, Unanswered, Answered
<1>2. ASSUME result'[c] = result[c], pc[c] \in Early
      PROVE  Cleared
    BY <1>2 DEF IInv, Unanswered, Answered
<1>3. CASE UNCHANGED vars
    BY <1>1, <1>3 DEF vars
<1>4. ASSUME NEW d \in Callers, Look(d) \/ Enter(d) \/ Construct(d)
      PROVE  Kept \/ Cleared
    <2>1. CASE d = c
        BY <1>2, <1>4, <2>1 DEF Look, Enter, Construct
    <2>2. CASE d # c
        <3>1. pc'[c] = pc[c] /\ got'[c] = got[c]
            BY <1>4, <2>2 DEF Look, Enter, Construct, Gets, IInv, TypeOK
        <3> QED BY <1>1, <1>4, <3>1 DEF Look, Enter, Construct
    <2> QED BY <2>1, <2>2
<1>5. ASSUME NEW d \in Callers, ConstructorRaises(d) \/ Forget(d)
      PROVE  Kept \/ Cleared
    <2>1. CASE d = c
        BY <1>5, <2>1 DEF ConstructorRaises, Forget, Answered, IInv, TypeOK
    <2>2. CASE d # c
        BY <1>1, <1>5, <2>2 DEF ConstructorRaises, Forget, IInv, TypeOK
    <2> QED BY <2>1, <2>2
<1>6. ASSUME NEW d \in Callers, TakePermit(d) \/ Finish(d) \/ Abandon(d)
      PROVE  Kept \/ Cleared
    <2>1. call' = call /\ result' = result /\ got' = got
        BY <1>6 DEF TakePermit, Finish, Abandon
    <2>2. pc'[c] = pc[c] \/ pc'[c] = "done"
        BY <1>6 DEF TakePermit, Finish, Abandon, IInv, TypeOK
    <2> QED BY <1>1, <2>1, <2>2
<1>7. ASSUME NEW m \in Modes, Assign(m)
      PROVE  Kept \/ Cleared
    BY <1>1, <1>7 DEF Assign, callerVars
<1>8. ASSUME NEW d \in Callers, Use(d), d # c
      PROVE  Kept \/ Cleared
    <2>1. PICK use \in UsesOf, flag \in class.flags \cup {NoFlag} :
             /\ call' = [call EXCEPT ![d] = [use |-> use, flag |-> flag]]
             /\ result' = [result EXCEPT ![d] = Outcome(d, use, flag)]
             /\ \E at \in {"done", "here", "runs"} : pc' = [pc EXCEPT ![d] = at]
        BY <1>8, Zenon DEF Use
    <2>2. got' = got
        BY <1>8 DEF Use
    <2> QED BY <1>1, <1>8, <2>1, <2>2 DEF IInv, TypeOK
<1>9. ASSUME Use(c)
      PROVE  Made
    <2>1. PICK use \in UsesOf, flag \in class.flags \cup {NoFlag} :
             /\ use = "property" => flag = NoFlag
             /\ call' = [call EXCEPT ![c] = [use |-> use, flag |-> flag]]
             /\ result' = [result EXCEPT ![c] = Outcome(c, use, flag)]
             /\ \E at \in {"done", "here", "runs"} : pc' = [pc EXCEPT ![c] = at]
             /\ cached' = IF Decides(use)
                          THEN [cached EXCEPT ![got[c]] = InstanceMode(got[c])] ELSE cached
        BY <1>9, Zenon DEF Use
    <2>2. got' = got /\ (class.member # "function" => pc[c] = "ready")
        BY <1>9 DEF Use
    <2>3. Decides(use) => got[c] \in Modes /\ InstanceMode(got[c]) \in Modes
        <3>1. ASSUME Decides(use) PROVE class.member # "function"
            BY <3>1 DEF Decides, UsesOf, Hidden
        <3> QED BY <2>2, <3>1 DEF IInv, GotIsMade, InstanceMode, TypeOK
    <2>4. CallMade(c, use, flag)
        BY <2>1, <2>2, <2>3 DEF CallMade, IInv, TypeOK
    <2>5. pc'[c] \notin Early
        BY <2>1 DEF IInv, TypeOK
    <2> QED BY <2>4, <2>5
<1> QED BY <1>3, <1>4, <1>5, <1>6, <1>7, <1>8, <1>9 DEF Next, Moves

\* What a call is to give, with an instance of a mode.
ToGive(c, use, flag, mode) ==
    LET wanted == IF flag.how = "keyword" THEN Says(flag.flag, flag.value)
                  ELSE IF Default(use) # "none" THEN Default(use)
                  ELSE IF use = "function" THEN class.def ELSE mode
        runsAtOnce == /\ use = "method" /\ class.def = "sync"
                      /\ Default("method") = "none" /\ flag.how = "no"
        refused == c \in InLoop /\ (IsCoroutineFunction(use) \/ use = "property")
    IN  IF wanted = "async" /\ ~runsAtOnce THEN "coroutine"
        ELSE IF refused THEN "SyncModeInAsyncContextError" ELSE "value"

\* The layers decide as the caller wants: a function on its own, a property, and a
\* bound method, which decides on the coroutine that its function returns.
LEMMA OutcomeIsWanted ==
    ASSUME IInv, NEW c \in Callers, NEW use, NEW flag, CallMade(c, use, flag), Answered(c)'
    PROVE  result'[c] = ToGive(c, use, flag, InstanceMode(got[c]))
<1> DEFINE wanted == IF flag.how = "keyword" THEN Says(flag.flag, flag.value)
                     ELSE IF Default(use) # "none" THEN Default(use)
                     ELSE IF use = "function" THEN class.def ELSE InstanceMode(got[c])
           runsAtOnce == /\ use = "method" /\ class.def = "sync"
                         /\ Default("method") = "none" /\ flag.how = "no"
<1>1. class.def \in Modes /\ Default(use) \in Modes \cup {"none"}
    BY CallsAssumption DEF IInv, TypeOK, Default, ClassDefault, DecoratorDefault, Modes
<1>2. /\ use \in {"function", "method", "property", "hidden"} /\ flag.how \in {"keyword", "both", "no"}
      /\ use = "property" => flag.how = "no"
    BY CallsAssumption DEF IInv, TypeOK, CallMade, UsesOf, Hidden, NoFlag
<1>3. result'[c] = Outcome(c, use, flag) /\ flag.how \in {"keyword", "no"}
    <2>1. TooMany(flag) => Outcome(c, use, flag) = "TooManyFlags"
        BY DEF Outcome
    <2>2. result'[c] = Outcome(c, use, flag) /\ result'[c] # "TooManyFlags"
        BY DEF CallMade, Answered
    <2> QED BY <1>2, <2>1, <2>2 DEF TooMany
<1>4. wanted \in Modes
    BY <1>1, SaysAMode DEF CallMade, Decides
<1>5. Decision(c, use, flag) = IF wanted = "async" /\ ~runsAtOnce THEN "coroutine"
                               ELSE IF IsCoroutineFunction(use) \/ use = "property" THEN "await"
                               ELSE "here"
    <2>1. CASE use = "function"
        BY <1>1, <1>3, <1>4, <2>1 DEF Decision, FunctionDecision, AsyncWrap, SyncWrap, RunsSync,
              IsSyncDefault, IsCoroutineFunction, Modes
    <2>2. CASE use = "property"
        BY <1>1, <1>2, <1>4, <2>2 DEF Decision, PropertyDecision, ShouldAwait, Modes, NoFlag
    <2>3. CASE use \in {"method", "hidden"}
        BY <1>1, <1>3, <1>4, <2>3 DEF Decision, MethodDecision, FunctionDecision, AsyncWrap, SyncWrap,
              RunsSync, IsSyncDefault, IsCoroutineFunction, ShouldAwait, Modes, Default
    <2> QED BY <1>2, <2>1, <2>2, <2>3
<1> HIDE DEF wanted, runsAtOnce
<1>6. Outcome(c, use, flag)
        = IF wanted = "async" /\ ~runsAtOnce THEN "coroutine"
          ELSE IF c \in InLoop /\ (IsCoroutineFunction(use) \/ use = "property")
               THEN "SyncModeInAsyncContextError" ELSE "value"
    BY <1>3, <1>5 DEF Outcome, TooMany
<1> QED BY <1>3, <1>6 DEF wanted, runsAtOnce, ToGive

\* The uses of a class and what they decide on are the same after a step.
LEMMA UsesAreKept ==
    ASSUME [Next]_vars
    PROVE  /\ UsesOf' = UsesOf
           /\ \A use : Default(use)' = Default(use) /\ Decides(use)' = Decides(use)
                       /\ IsCoroutineFunction(use)' = IsCoroutineFunction(use)
<1>1. class' = class
    BY ClassIsKept
<1> QED BY <1>1 DEF UsesOf, Hidden, Decides, Default, ClassDefault, DecoratorDefault, IsCoroutineFunction

\* Every step keeps the invariant.
LEMMA InvariantIsKept ==
    ASSUME IInv, [Next]_vars
    PROVE  IInv'
<1>1. TypeOK'
    BY TypesAreKept DEF IInv
<1>2. UndecidedYet'
    <2>1. CASE UNCHANGED <<instances, cached>>
        BY <2>1 DEF IInv, UndecidedYet
    <2>2. ASSUME UNCHANGED instances, NEW m \in Modes, instances[m] # None,
                 cached' = [cached EXCEPT ![m] = InstanceMode(m)]
          PROVE  UndecidedYet'
        BY <2>2 DEF IInv, TypeOK, UndecidedYet
    <2>3. ASSUME NEW c \in Callers, Construct(c)
          PROVE  UndecidedYet'
        <3>1. Key(ask[c]) \in Modes
            BY SaysAMode
        <3> QED BY <2>3, <3>1 DEF Construct, IInv, TypeOK, UndecidedYet
    <2> QED BY <2>1, <2>2, <2>3, InstancesGrow
<1>3. (Asked /\ KeyFits /\ InsideIsNew /\ GotIsMade /\ NothingYet)'
    BY CallersAreKept
<1>4. class' = class
    BY ClassIsKept
<1>5. ASSUME NEW c \in Callers
      PROVE  pc'[c] \in {"idle", "looked", "inside", "ready"} => result'[c] = "none"
    BY AnswersAreGiven
<1>6. ASSUME NEW c \in Callers, Answered(c)'
      PROVE  \/ \E use, flag : CallMade(c, use, flag)
             \/ call'[c] = call[c] /\ result'[c] = result[c] /\ got'[c] = got[c] /\ Answered(c)
    BY <1>6, AnswersAreGiven DEF Answered
<1>7. Settled'
    <2>1. ASSUME NEW c \in Callers, Answered(c)', NEW use, NEW flag, CallMade(c, use, flag)
          PROVE  /\ call'[c].use \in UsesOf
                 /\ Decides(call'[c].use) => got'[c] \in Modes /\ cached'[got'[c]] # "unknown"
        BY <2>1 DEF CallMade, Modes
    <2>2. ASSUME NEW c \in Callers, Answered(c), call'[c] = call[c], got'[c] = got[c]
          PROVE  /\ call'[c].use \in UsesOf
                 /\ Decides(call'[c].use) => got'[c] \in Modes /\ cached'[got'[c]] # "unknown"
        BY <2>2, DecidedOnce DEF IInv, Settled
    <2>3. ASSUME NEW c \in Callers, Answered(c)'
          PROVE  /\ call'[c].use \in UsesOf
                 /\ Decides(call'[c].use) => got'[c] \in Modes /\ cached'[got'[c]] # "unknown"
        BY <1>6, <2>1, <2>2, <2>3
    <2> QED BY <2>3, UsesAreKept DEF Settled
<1>8. ResultIsAsWanted'
    <2>1. ASSUME NEW c \in Callers, Answered(c)', NEW use, NEW flag, CallMade(c, use, flag)
          PROVE  result'[c] = ToGive(c, call'[c].use, call'[c].flag, cached'[got'[c]])
        <3>1. result'[c] = ToGive(c, use, flag, InstanceMode(got[c]))
            BY <2>1, OutcomeIsWanted
        <3>2. call'[c].use = use /\ call'[c].flag = flag
            BY <2>1 DEF CallMade
        <3>3. CASE Decides(use)
            BY <2>1, <3>1, <3>2, <3>3 DEF CallMade, ToGive
        <3>4. CASE ~Decides(use)
            BY <3>1, <3>2, <3>4 DEF Decides, ToGive
        <3> QED BY <3>3, <3>4
    <2>2. ASSUME NEW c \in Callers, Answered(c), call'[c] = call[c], result'[c] = result[c], got'[c] = got[c]
          PROVE  result'[c] = ToGive(c, call'[c].use, call'[c].flag, cached'[got'[c]])
        <3>1. result[c] = ToGive(c, call[c].use, call[c].flag, cached[got[c]])
            BY <2>2 DEF IInv, ResultIsAsWanted, Answered, Wanted, ToGive
        <3>2. CASE Decides(call[c].use)
            <4>1. cached'[got[c]] = cached[got[c]]
                BY <2>2, <3>2, DecidedOnce DEF IInv, Settled
            <4> QED BY <2>2, <3>1, <4>1
        <3>3. CASE ~Decides(call[c].use)
            BY <2>2, <3>1, <3>3 DEF Decides, ToGive
        <3> QED BY <3>2, <3>3
    <2>3. ASSUME NEW c \in Callers, Answered(c)'
          PROVE  result'[c] = ToGive(c, call'[c].use, call'[c].flag, cached'[got'[c]])
        BY <1>6, <2>1, <2>2, <2>3
    <2> QED BY <1>4, <2>3, UsesAreKept DEF ResultIsAsWanted, Answered, Wanted, ToGive, Says
<1> QED BY <1>1, <1>2, <1>3, <1>5, <1>7, <1>8 DEF IInv, Unanswered

\* The invariant holds always.
LEMMA InvariantHolds == Spec => []IInv
BY InitHolds, InvariantIsKept, PTL DEF Spec

-----------------------------------------------------------------------------
\* The types are those that are declared.
THEOREM TypeCorrect == Spec => []TypeOK
<1>1. IInv => TypeOK
    BY DEF IInv
<1> QED BY <1>1, InvariantHolds, PTL

\* A singleton class keeps the first instance it made for a mode, however many
\* threads ask for it at once: whoever constructs one looked for it under the
\* lock, and nobody else can be constructing.
THEOREM OneInstanceIsKept == Spec => OneInstancePerMode
<1>1. ASSUME IInv, [Next]_vars
      PROVE  \A m \in Modes : instances[m] # None => instances'[m] = instances[m]
    <2>1. ASSUME NEW c \in Callers, Construct(c), instances[Key(ask[c])] = None
          PROVE  \A m \in Modes : instances[m] # None => instances'[m] = instances[m]
        BY <1>1, <2>1 DEF Construct, IInv, TypeOK
    <2> QED BY <1>1, <2>1, InstancesGrow
<1>2. IInv /\ [Next]_vars => [\A m \in Modes : instances[m] # None => instances'[m] = instances[m]]_vars
    BY <1>1
<1> QED BY <1>2, InvariantHolds, PTL DEF Spec, OneInstancePerMode

\* A call gives what is wanted, by its flag, the defaults and the mode of its
\* instance: each of the two layers of a bound method decides for itself whether
\* there is a coroutine to await, and the mode of the instance is decided by then.
THEOREM CallsGiveWhatIsWanted == Spec => []ResultIsAsWanted
<1>1. IInv => ResultIsAsWanted
    BY DEF IInv
<1> QED BY <1>1, InvariantHolds, PTL

\* An instance that has answered in a mode keeps to it, though its flag may be
\* assigned: nobody constructs it a second time, and the mode is decided once.
THEOREM ModesAreStable == Spec => ModeIsStable
<1>1. ASSUME IInv, [Next]_vars
      PROVE  \A m \in Modes : cached[m] # "unknown" => cached'[m] = cached[m]
    BY <1>1, DecidedOnce
<1>2. IInv /\ [Next]_vars => [\A m \in Modes : cached[m] # "unknown" => cached'[m] = cached[m]]_vars
    BY <1>1
<1> QED BY <1>2, InvariantHolds, PTL DEF Spec, ModeIsStable

\* The instance a caller gets is of the mode it asked for: the key of the dict,
\* which is computed from the arguments before there is an instance, and the flag
\* that the constructor sets, say the same of the call that made it.
THEOREM AskedModesAreGiven == Spec => []AskedModeIsGiven
<1>1. ASSUME IInv, NEW c \in Callers, got[c] # None, instances[got[c]].ask.how # "positional",
             \/ ask[c].how = "keyword" /\ class.where # "inherited"
             \/ ask[c].how = "plain" /\ class.where # "required"
      PROVE  ModeMade(instances[got[c]].ask)
               = (IF ask[c].how = "keyword" THEN Says(ask[c].flag, ask[c].value)
                  ELSE Says(class.flag, class.value))
    <2> DEFINE made == instances[got[c]].ask
    <2>1. Key(made) = Key(ask[c]) /\ Accepts(made) /\ made \in Asks
        BY <1>1 DEF IInv, TypeOK, KeyFits, MadeFor, GotIsMade, Instances
    <2>2. /\ made.how \in {"plain", "keyword"}
          /\ class.where \in {"keyword", "required", "attribute", "inherited"}
          /\ class.value \in BOOLEAN
        BY <1>1, <2>1, CallsAssumption DEF IInv, TypeOK
    <2>3. CASE made.how = "keyword"
        <3>1. class.where \in {"keyword", "required"} /\ made.flag = class.flag
            BY <2>1, <2>2, <2>3 DEF Accepts
        <3>2. ModeMade(made) = Says(made.flag, made.value) /\ Key(made) = Says(made.flag, made.value)
            BY <2>3, <3>1 DEF ModeMade, Key
        <3>3. CASE ask[c].how = "keyword"
            BY <2>1, <3>2, <3>3 DEF Key
        <3>4. CASE ask[c].how = "plain" /\ class.where = "keyword"
            <4>1. DefaultValue = class.value
                BY <2>2, <3>4 DEF DefaultValue
            <4>2. Key(ask[c]) = Says(class.flag, class.value)
                BY <3>4, <4>1 DEF Key, DefaultMode
            <4> QED BY <2>1, <3>2, <3>4, <4>2
        <3> QED BY <1>1, <3>1, <3>3, <3>4
    <2>4. CASE made.how = "plain"
        <3>1. ModeMade(made) = Says(class.flag, class.value) /\ class.where # "required"
            BY <2>1, <2>4 DEF ModeMade, Accepts
        <3>2. CASE ask[c].how = "plain"
            BY <3>1, <3>2
        <3>3. CASE ask[c].how = "keyword" /\ class.where \in {"keyword", "attribute"}
            <4>1. DefaultValue = class.value
                BY <2>2, <3>3 DEF DefaultValue
            <4>2. Key(made) = Says(class.flag, class.value)
                BY <2>4, <4>1 DEF Key, DefaultMode
            <4> QED BY <2>1, <3>1, <3>3, <4>2 DEF Key
        <3> QED BY <1>1, <2>2, <3>1, <3>2, <3>3
    <2> QED BY <2>2, <2>3, <2>4
<1>2. IInv => AskedModeIsGiven
    BY <1>1 DEF AskedModeIsGiven
<1> QED BY <1>2, InvariantHolds, PTL
=============================================================================
