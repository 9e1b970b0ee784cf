---------------------------- MODULE LeftmostFirst ----------------------------
(***************************************************************************)
(* What one scan of a bank promises: for every entity, the matches that    *)
(* one leftmost-first regex over all of the entity's patterns would report *)
(* (the matches of different entities may overlap), or an error and no     *)
(* match at all when there are more of them than the caller allows.        *)
(***************************************************************************)
EXTENDS Naturals, FiniteSets

CONSTANTS MaxMatches   \* the caller's limit on the matches of one scan

VARIABLES
    occurrences,   \* every place where a pattern matches the text
    found,         \* the matches reported so far
    status         \* "scanning", "complete" or "failed"

vars == <<occurrences, found, status>>

\* Leftmost first; of those that start together, the one listed first.
Precedes(o, p) == o.start < p.start \/ (o.start = p.start /\ o.order < p.order)

\* The occurrences an entity's cursor, the end of its last match, has not passed.
Ahead(entity) ==
    {o \in occurrences : o.entity = entity
                         /\ \A m \in found : m.entity = entity => m.end <= o.start}

IsNext(o) == /\ o \in Ahead(o.entity)
             /\ \A p \in Ahead(o.entity) : p # o => Precedes(o, p)

Init == found = {} /\ status = "scanning"

Report == /\ status = "scanning"
          /\ \E o \in occurrences : IsNext(o) /\ found' = found \cup {o}
          /\ Cardinality(found) < MaxMatches
          /\ UNCHANGED <<occurrences, status>>

Complete == /\ status = "scanning"
            /\ \A o \in occurrences : Ahead(o.entity) = {}
            /\ status' = "complete"
            /\ UNCHANGED <<occurrences, found>>

Refuse == /\ status = "scanning"
          /\ Cardinality(found) >= MaxMatches
          /\ \E o \in occurrences : IsNext(o)
          /\ found' = {}
          /\ status' = "failed"
          /\ UNCHANGED occurrences

Next == Report \/ Complete \/ Refuse

Spec == Init /\ [][Next]_vars
=============================================================================
