-------------------------- MODULE MCResourceObserver --------------------------
(* One launcher and one worker. *)
EXTENDS ResourceObserver
=============================================================================
