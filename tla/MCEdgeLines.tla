----------------------------- MODULE MCEdgeLines -----------------------------
(* TLC instances of EdgeLines: passes, rotations and underlyings as model     *)
(* values.                                                                    *)
EXTENDS EdgeLines

CONSTANTS p1, p2, r1, r2, u1
=============================================================================
