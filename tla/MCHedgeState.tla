---------------------------- MODULE MCHedgeState ----------------------------
(* Model-checking instance of the hedge module. *)
EXTENDS HedgeState

CONSTANTS a, b, c

\* The pair the command line names.
ASeed == <<a, b>>
=============================================================================
