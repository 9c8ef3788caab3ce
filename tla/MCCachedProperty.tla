-------------------------- MODULE MCCachedProperty --------------------------
(* Small instances of CachedProperty for TLC.                              *)
EXTENDS CachedProperty

CONSTANTS c1, c2, c3
=============================================================================
