---------------------------- MODULE MCPrivateRun ----------------------------
(* Two runs: nested and handing over its pins, or rivals for one final name. *)
EXTENDS PrivateRun, TLC

CONSTANTS r1, r2, report, spool, done1, done2

\* r1 writes a report through a handle; in r2 a library writes a spool of its own.
MCMarker == r1 :> done1 @@ r2 :> done2
MCHome == report :> r1 @@ spool :> r2 @@ done1 :> r1 @@ done2 :> r2

\* enron_capacity.py around enron_preparation.py, with room for all files.
Capacity == [within |-> (r1 :> Nothing @@ r2 :> r1), shares |-> (r1 :> r1 @@ r2 :> r2),
             retains |-> {r1}, limit |-> 3]

\* Two runs into the same output directory, one descriptor short.
Rivals == [within |-> (r1 :> Nothing @@ r2 :> Nothing), shares |-> (r1 :> r1 @@ r2 :> r1),
           retains |-> {}, limit |-> 1]

MCLayouts == {Capacity, Rivals}
=============================================================================
