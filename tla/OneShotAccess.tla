---------------------------- MODULE OneShotAccess ----------------------------
(***************************************************************************)
(* What a one-shot access promises, in terms of what is durable: it is     *)
(* bound to a plan at most once, claimed at most once, concluded at most   *)
(* once, and in between at most one reader ever sees what it guards.  A    *)
(* reader sees it only under a durable claim without an outcome, and an    *)
(* access is completed only if it was read.                                *)
(***************************************************************************)
EXTENDS Integers

CONSTANTS Readers, Plans, None

VARIABLES
    status,   \* how far the transition has durably come
    plan,     \* the plan the access is bound to
    readers   \* who was ever given the guarded data

Rank == [open |-> 0, bound |-> 1, claimed |-> 2, completed |-> 3, failed |-> 3, aborted |-> 3]

Init == status = "open" /\ plan = None /\ readers = {}

\* Several receipts may become durable at once, never in the other order.
Advance ==
    /\ status' \in DOMAIN Rank /\ Rank[status'] > Rank[status]
    /\ plan' \in Plans \cup {None}
    /\ status # "open" => plan' = plan
    /\ status' = "completed" => readers # {}
    /\ UNCHANGED readers

Read ==
    /\ status = "claimed" /\ readers = {}
    /\ \E r \in Readers : readers' = {r}
    /\ UNCHANGED <<status, plan>>

Spec == Init /\ [][Advance \/ Read]_<<status, plan, readers>>
=============================================================================
