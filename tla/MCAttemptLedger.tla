--------------------------- MODULE MCAttemptLedger ---------------------------
(* Two attempts and the parent that recovers for them. *)
EXTENDS AttemptLedger

CONSTANTS r1, r2, parent
=============================================================================
