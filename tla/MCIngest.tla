------------------------------ MODULE MCIngest ------------------------------
(* Model-checking instance of the ingest core. *)
EXTENDS Ingest, TLC

Symmetry == Permutations(Conns) \cup Permutations(Identities)
            \cup Permutations(RealIds)
=============================================================================
