---------------------------- MODULE MCDocuments ----------------------------
(***************************************************************************)
(* TLC instances of what is done to collections of documents: commands     *)
(* that anonymize them one after the other, and the preparation and the    *)
(* split of a corpus.  A behaviour is of either kind; the two have no      *)
(* state in common.                                                        *)
(***************************************************************************)
EXTENDS MCAnonymization, MCCorpusSplit

VARIABLE kind       \* "commands" or "corpus", for the whole behaviour

\* What a kind leaves alone has one value.
NoCommands == LET db == CHOOSE db \in SomeDatabases : db.sets = <<>> IN
    policy = db.policy /\ sets = db.sets
NoCorpus == corpus = CHOOSE c \in Ordinary : TRUE

DocumentsInit ==
    /\ AnonymizationInit /\ Init
    /\ \/ kind = "commands" /\ NoCorpus
       \/ kind = "corpus" /\ NoCommands

DocumentsNext ==
    \/ kind = "commands" /\ AnonymizationNext /\ UNCHANGED <<kind, vars>>
    \/ kind = "corpus" /\ Next /\ UNCHANGED <<kind, anonymizationVars>>

DocumentsSpec == DocumentsInit /\ [][DocumentsNext]_<<kind, anonymizationVars, vars>>
=============================================================================
