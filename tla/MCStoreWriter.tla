--------------------------- MODULE MCStoreWriter ---------------------------
(* TLC instances of StoreWriter: callers of each kind as model values.      *)
EXTENDS StoreWriter

CONSTANTS q1, q2, s1, p1
=============================================================================
