------------------------------ MODULE AttemptLog ------------------------------
(***************************************************************************)
(* What the ledger of capacity attempts promises its reader, without any   *)
(* lock, marker, temporary file or crash: a log to which every attempt     *)
(* adds at most one outcome, and from which nothing is ever taken back.    *)
(***************************************************************************)
EXTENDS Naturals

CONSTANTS
    Attempts, Outcomes,
    Numbers             \* of the entries, counted from one

VARIABLES log

Init == log = <<>>

\* Attempt a comes to its end: its outcome is the next entry.
Close(a) ==
    /\ \A i \in DOMAIN log : log[i].attempt # a
    /\ \E n \in Numbers, o \in Outcomes :
          /\ DOMAIN log = 1..(n - 1)
          /\ log' = [i \in 1..n |-> IF i = n THEN [attempt |-> a, outcome |-> o] ELSE log[i]]

Next == \E a \in Attempts : Close(a)

Spec == Init /\ [][Next]_log
=============================================================================
