-------------------------- MODULE MCAnonymization --------------------------
(***************************************************************************)
(* TLC instance of Anonymization.                                          *)
(***************************************************************************)
EXTENDS Anonymization

\* "e" and "E" are one character in two normalization forms.
Composed(c) == IF c = "E" THEN "e" ELSE c

R(entity, name, canonical, start, end, priority) ==
    [entity |-> entity, name |-> name, canonical |-> canonical,
     start |-> start, end |-> end, priority |-> priority]

Doc(text, records, resolve) == [text |-> text, records |-> records, resolve |-> resolve]

TwoEntities ==
    Doc(<<"j", " ", "k">>, <<R("A", <<"john">>, <<"j">>, 0, 1, 0), R("B", <<"kim">>, <<"k">>, 2, 3, 0)>>, TRUE)
TwoForms == \* of one name, and natural text that looks like a pseudonym
    Doc(<<"e", " ", "E", " ", "m">>,
        <<R("A", <<"ed">>, <<"j">>, 0, 1, 0), R("A", <<"ed">>, <<"j">>, 2, 3, 0)>>, TRUE)
Chain == \* the first two overlap, and the last two
    Doc(<<"j", "k", "e", "E">>,
        <<R("A", <<"jk">>, <<"j", "k">>, 0, 2, 0), R("B", <<"kim">>, <<"k">>, 1, 3, 1),
          R("A", <<"ed">>, <<"e">>, 2, 4, 0)>>, TRUE)
Detector == \* of a configuration: no name ids; natural text that looks like a token
    Doc(<<"[", "A", "1", "]", "k">>, <<R("B", <<>>, <<"k">>, 4, 5, 0)>>, FALSE)
Clash == \* a configuration whose detectors overlap
    Doc(<<"j", "k">>, <<R("A", <<>>, <<"j", "k">>, 0, 2, 0), R("B", <<>>, <<"k">>, 1, 2, 0)>>, FALSE)

Q(document, mode, missing, limit) ==
    [document |-> document, mode |-> mode, missing |-> missing, limit |-> limit]

SomeRequests == {
    Q(TwoEntities, "entity_policy", "diagnostic", 1), Q(TwoEntities, "entity_policy", "skip", 1),
    Q(TwoEntities, "pseudonym", "diagnostic", 1), Q(TwoEntities, "redact", "skip", 1),
    Q(TwoForms, "entity_policy", "diagnostic", 1), Q(TwoForms, "pseudonym", "fail", 1),
    Q(TwoForms, "entity_policy", "skip", 0),
    Q(Chain, "entity_policy", "skip", 1), Q(Chain, "pseudonym", "diagnostic", 1),
    Q(Detector, "entity_policy", "diagnostic", 1), Q(Clash, "entity_policy", "diagnostic", 1)}

S(entity, mode, set, option, value) ==
    [entity |-> entity, mode |-> mode, set |-> set, option |-> option, value |-> value]

ClosedTemplate == <<"[", "entity", "ordinal", "]">>
SharedTemplate == <<"[", "A", "ordinal", "]">>

SomeSettings == {
    S("A", "redact", NoSet, "store", TRUE), S("A", "redact", NoSet, "store", FALSE),
    S("B", "redact", NoSet, "template", SharedTemplate), S("A", "pseudonym", "S", "none", FALSE),
    S("B", "pseudonym", NoSet, "allow", FALSE), S("A", "redact", "S", "scope", "surface"),
    S("A", "pseudonym", NoSet, "scope", "name"), S("B", "redact", NoSet, "allow", TRUE)}

SomeExtensions == {
    [set |-> "S", candidates |-> <<<<"m">>, <<"m", " ", "m">>>>, reuse |-> FALSE],
    [set |-> "S", candidates |-> <<<<"[", "A", "1", "]">>, <<"n">>>>, reuse |-> TRUE]}

\* The policies of a new database, and a set.
SomeDatabases ==
    {[policy |-> [e \in {"A", "B"} |-> [mode |-> "redact", scope |-> scope, template |-> ClosedTemplate,
                                        store |-> store, allow |-> TRUE, set |-> NoSet]],
      sets |-> IF pseudonyms THEN "S" :> [reuse |-> FALSE, candidates |-> <<<<"m">>, <<"m", " ", "m">>>>]
               ELSE <<>>] :
        scope \in {"name", "canonical", "surface"}, store \in BOOLEAN, pseudonyms \in BOOLEAN}

KeyHash(key) == IF key[1] = "A" THEN 1 ELSE 2
=============================================================================
