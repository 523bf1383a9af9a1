--------------------------- MODULE MCSweepControl ---------------------------
(* TLC instances of SweepControl: at most two tickers and two pages, and the *)
(* windows of the day a run may begin in.                                    *)
EXTENDS SweepControl, TLC

CONSTANTS t1, t2, o1, o2

Regular == {2}
Late == {3}
Symmetry == Permutations(Operators)
=============================================================================
