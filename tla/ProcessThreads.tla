---------------------------- MODULE ProcessThreads ----------------------------
(* The threads of one process, shared by the modules of the bank service. *)
EXTENDS FiniteSets

CONSTANT Threads

ASSUME ThreadsAssumption == IsFiniteSet(Threads)
=============================================================================
