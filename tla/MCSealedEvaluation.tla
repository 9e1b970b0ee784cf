-------------------------- MODULE MCSealedEvaluation --------------------------
(* A small instance of SealedEvaluation. *)
EXTENDS SealedEvaluation, TLC

\* The calls of a kind are alike, and so are the plans.
=============================================================================
