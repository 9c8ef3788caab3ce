---------------------------- MODULE MCMultiQueue ----------------------------
(* Small instances of MultiQueue for TLC.                                  *)
EXTENDS MultiQueue, TLC

CONSTANTS c1, c2

\* Every operation is used, or all but those that lose or recount items.
SomeOrAll == {Operations, Operations \ {"get_multi", "get_multi_nowait"}}

OnlyMulti == {{"get_multi"}}

\* The consumers are interchangeable.
Symmetry == Permutations(Consumers)
=============================================================================
