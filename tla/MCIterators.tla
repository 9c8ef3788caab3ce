----------------------------- MODULE MCIterators -----------------------------
(* Small instances of Iterators for TLC.                                   *)
EXTENDS Iterators, TLC

CONSTANTS i1, i2, i3

\* Three iterators; one is empty.
MCSource == (i1 :> <<4, 1>>) @@ (i2 :> <<3, 2>>) @@ (i3 :> <<>>)
=============================================================================
