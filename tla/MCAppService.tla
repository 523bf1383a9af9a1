---------------------------- MODULE MCAppService ----------------------------
(* Model-checking instance of the application service. *)
EXTENDS AppService, TLC

Symmetry == Permutations(Operators)
=============================================================================
