------------------------- MODULE MCConnectionManager -------------------------
(* Small instances of ConnectionManager.                                   *)
EXTENDS ConnectionManager

CONSTANTS x, y, t1, t2
=============================================================================
