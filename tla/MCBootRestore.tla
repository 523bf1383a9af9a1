--------------------------- MODULE MCBootRestore ---------------------------
(* Model-checking instance of the boot restore. *)
EXTENDS BootRestore, TLC

Symmetry == Permutations(Unlisted)
=============================================================================
