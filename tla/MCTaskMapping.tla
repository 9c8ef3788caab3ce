---------------------------- MODULE MCTaskMapping ----------------------------
(* Small instances of TaskMapping for TLC.                                 *)
EXTENDS TaskMapping, TLC

CONSTANTS k1, k2, c1, c2

Does(o1, p1, o2, p2) ==
    [c \in Consumers |-> IF c = c1 THEN [op |-> o1, pop |-> p1] ELSE [op |-> o2, pop |-> p2]]

\* A popping iteration beside one that keeps the mapping, or beside another
\* popping one, and two that keep it.
Keeping == Does("keys", FALSE, "map", FALSE)
PoppedKeys == Does("aiter", FALSE, "keys", TRUE)
Popping == Does("aiter", TRUE, "gather", FALSE)
TwoPopping == Does("map", TRUE, "aiter", TRUE)

MCUses == {Keeping, PoppedKeys, Popping, TwoPopping}

\* Keys are started again by __aiter__ in PoppedKeys, by the user and then the
\* loader in Popping, and by the user and map() in any order in TwoPopping.
MCStarts == (Popping :> 1) @@ (TwoPopping :> 2) @@ [u \in MCUses |-> 0]
=============================================================================
