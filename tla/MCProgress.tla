----------------------------- MODULE MCProgress -----------------------------
(* The instance of Progress for TLC. *)
EXTENDS ProgressRefinement, TLC
=============================================================================
