---------------------------- MODULE MCASyncFuture ----------------------------
(* Small instances of ASyncFuture for TLC.                                 *)
EXTENDS ASyncFuture, TLC

CONSTANTS t1, t2

Plans == {<<Call, <<1, Const>>, <<1, Const>>>>, <<Call, Call, <<2, 1>>>>, <<Call, <<1, Const>>, <<2, 1>>>>}

MCPrograms == [plan : Plans, callers : {{t1, t2}, {Main, t1}}]
=============================================================================
