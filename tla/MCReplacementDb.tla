--------------------------- MODULE MCReplacementDb ---------------------------
(***************************************************************************)
(* TLC instances of ReplacementDb.                                         *)
(***************************************************************************)
EXTENDS ReplacementDb, TLC

CONSTANTS a, b, f, g, n1, n2, e1

\* The clients are alike, and so are the originals.
ClientSymmetry == Permutations({a, b}) \cup Permutations({n1, n2})

\* A tool that copies to path g without a hash, until its save is over.
CopiesTo(p, g1) ==
    req[p].op = "tool_copy" /\ req[p].path = g1 /\ pc[p] \notin {"reload", "output"}

\* No other command saves to the destination of such a copy meanwhile: what
\* happens when one does is the run blind_copy.
CopiesAlone ==
    \A p, q \in Procs : p # q /\ pc[q] \notin {"idle", "reload", "output"} =>
        ~CopiesTo(p, req[q].path)

UndisturbedSpec ==
    Init /\ [][Next /\ CopiesAlone']_vars /\ \A p \in Procs : WF_vars(Advance(p))
=============================================================================
