------------------------------- MODULE MCCalls -------------------------------
(* Small instances of Calls for TLC.                                       *)
EXTENDS Calls, TLC

CONSTANTS c1, c2, c3

\* Two tasks of one loop and a thread without one.
MCThreadOf == [c \in Callers |-> IF c = c3 THEN 2 ELSE 1]

Keyword(f, v) == [how |-> "keyword", flag |-> f, value |-> v]

Plain == [how |-> "plain"]

MCAsks ==
    {Plain, Keyword("sync", TRUE), Keyword("asynchronous", TRUE),
     [how |-> "positional", value |-> FALSE]}

MCFlags == {Keyword("sync", TRUE), Keyword("asynchronous", TRUE), [how |-> "both"]}

Class(f, where, value, member, def, decorated, default, permits) ==
    [flag |-> f, where |-> where, value |-> value, member |-> member, def |-> def,
     decorated |-> decorated, default |-> default,
     classDefault |-> IF decorated THEN "sync" ELSE default, permits |-> permits]

Program(k, users, asks, flags) ==
    k @@ [users |-> users, asks |-> asks, flags |-> flags]

\* Each way to define the flag and to ask for an instance, with a plain async def,
\* in two threads.
Flagged ==
    {Program(Class(f.flag, w, f.value, "method", "async", FALSE, "none", 0), {c1, c3},
             Asks \ {Keyword(g, TRUE) : g \in FlagNames \ {f.flag}}, {}) :
        f \in {Keyword("sync", TRUE), Keyword("sync", FALSE), Keyword("asynchronous", FALSE)},
        w \in {"keyword", "required", "attribute", "inherited"}}

\* Each kind of member and default with each flag, on a loop or not.
Members ==
    {Program(Class("sync", "keyword", FALSE, m[1], d, m[2], def, 0), {u},
             {Plain, Keyword("sync", TRUE)}, Flags) :
        u \in {c1, c3}, d \in Modes, def \in Modes \cup {"none"},
        m \in {<<"function", TRUE>>, <<"property", TRUE>>, <<"method", TRUE>>, <<"method", FALSE>>}}

\* Few permits: enough, not enough for two, not enough for one.
Limited ==
    {Program(Class("sync", "attribute", FALSE, "method", "async", dec, "none", p), Callers,
             {Plain}, {Keyword("sync", TRUE)}) : dec \in BOOLEAN, p \in 1..3}

MCClasses == Flagged \cup Members \cup Limited
=============================================================================
