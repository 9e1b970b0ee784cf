---------------------------- MODULE VersionedStore ----------------------------
(***************************************************************************)
(* What the replacement-database files promise their clients, without any  *)
(* lock, temporary file or hash: every path is a register with optimistic  *)
(* concurrency control.  A client observes a register, and may replace its *)
(* content only while the register still holds what the client observed.   *)
(* The content of a valid database is replaced by the next version; a      *)
(* power loss may bring back an older content, never a newer or a torn one.*)
(***************************************************************************)
EXTENDS Naturals

CONSTANTS Clients, Keys, Values, Missing, Unreadable, Nothing

\* Values are records with a version; Missing and Unreadable are the other
\* contents of a register, Nothing is the observation of a client that has none.
VARIABLES store, seen

storeVars == <<store, seen>>

Init ==
    /\ store \in [Keys -> {v \in Values : v.version = 1} \cup {Missing, Unreadable}]
    /\ seen = [c \in Clients |-> Nothing]

\* Client c reads the register of key k.
Observe(c) ==
    /\ \E k \in Keys : seen' = [seen EXCEPT ![c] = [key |-> k, value |-> store[k]]]
    /\ UNCHANGED store

\* Client c gives up, or is done with, the register it observed.
Forget(c) ==
    /\ seen' = [seen EXCEPT ![c] = Nothing]
    /\ UNCHANGED store

\* The new content of a register follows the old one.
Follows(old, new) ==
    /\ new \in Values
    /\ old \in Values => new.version = old.version + 1

\* Client c replaces what it observed.
Replace(c) ==
    /\ \E k \in Keys :
          /\ seen[c] = [key |-> k, value |-> store[k]]
          /\ Follows(store[k], store'[k])
          /\ store' = [store EXCEPT ![k] = store'[k]]
    /\ UNCHANGED seen

\* Everything volatile is lost; a register may fall back to an older content.
PowerFails ==
    /\ seen' = [c \in Clients |-> Nothing]
    /\ store' = [k \in Keys |-> store'[k]]
    /\ \A k \in Keys :
          \/ store'[k] \in {store[k], Missing, Unreadable}
          \/ /\ store[k] \in Values /\ store'[k] \in Values
             /\ store'[k].version < store[k].version

Next == \/ \E c \in Clients : Observe(c) \/ Forget(c) \/ Replace(c)
        \/ PowerFails

Spec == Init /\ [][Next]_storeVars
=============================================================================
