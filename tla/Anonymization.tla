--------------------------- MODULE Anonymization ---------------------------
(***************************************************************************)
(* Reversible anonymization (src/nerb/deanonymization.py, the validator of   *)
(* replacements.py, the overlap resolution of reports.py, and the commands   *)
(* set-entity, add-set, anonymize-* and deanonymize-* of cli.py): documents   *)
(* are anonymized one after the other against one replacement database whose *)
(* policies change in between, and every output that was handed out must     *)
(* stay restorable.  Commands run one at a time here: ReplacementDb has them *)
(* overlap.  A text is a sequence of characters; ids and hashes are replaced  *)
(* by what they stand for.                                                  *)
(***************************************************************************)
EXTENDS Integers, FiniteSets, SequencesExt

CONSTANTS
    AnonymizeRequests,       \* [document, mode, missing, limit] of anonymize-*; a document is
                    \* [text, records, resolve]: what a detector finds in a text
    Settings,       \* [entity, mode, set, option, value] of set-entity
    Extensions,     \* [set, candidates, reuse] of add-set
    Databases,      \* [policy, sets]: what earlier commands may have made
    Entities,
    Norm(_),        \* the Unicode normalization of a character
    WordCharacters,
    Hash(_),        \* of an assignment key; also the order of keys
    MaxReverse,     \* REVERSE_BANK_MAX_ENTITIES
    CommandLimit,
    NoSet

\* The records of a report are spans of the text, sorted by their start.
ASSUME DocumentsAssumption ==
    \A d \in {q.document : q \in AnonymizeRequests} :
        /\ d.records \in Seq(Range(d.records))
        /\ \A i \in DOMAIN d.records :
              /\ {d.records[i].start, d.records[i].end} \subseteq 0..Len(d.text)
              /\ d.records[i].start < d.records[i].end
              /\ \A j \in 1..i : d.records[j].start <= d.records[i].start
ASSUME RequestsAssumption == {q.missing : q \in AnonymizeRequests} \subseteq {"skip", "diagnostic", "fail"}
ASSUME CommandBoundsAssumption == {MaxReverse, CommandLimit} \subseteq Nat

VARIABLES
    policy,         \* the effective policy of each entity
    sets,           \* replacement sets: [reuse, candidates]
    assignments,    \* key -> [mode, value, ordinal, set, candidate, original]
    run,            \* the anonymization under way, or Idle
    handedOut,        \* what was handed out with its assignments saved
    commands

database == <<policy, sets, assignments>>
anonymizationVars == <<database, run, handedOut, commands>>

Nothing == <<>>      \* no original, no name, no key

Characters(text) == [i \in DOMAIN text |-> Norm(text[i])]
Matched(d, r) == SubSeq(d.text, r.start + 1, r.end)
Overlap(a, b) == a.start < b.end /\ b.start < a.end

-----------------------------------------------------------------------------
(* Validation of a database *)

\* [token of an ordinal: a template mixes characters with "entity" and "ordinal"]
Token(template, e, ordinal) ==
    [i \in DOMAIN template |-> CASE template[i] = "entity" -> e
                                 [] template[i] = "ordinal" -> ToString(ordinal)
                                 [] OTHER -> template[i]]

PoliciesValid(p, s) ==
    \A e \in Entities : /\ p[e].set = NoSet => p[e].mode # "pseudonym"
                        /\ p[e].set # NoSet => p[e].set \in DOMAIN s

SetsValid(s) ==
    \A id \in DOMAIN s : \A i, j \in DOMAIN s[id].candidates :
        s[id].candidates[i] = s[id].candidates[j] => i = j

\* Originals are stored exactly where the policy of today says so.
OriginalsValid(p, as) == \A k \in DOMAIN as : p[k[1]].store <=> as[k].original # Nothing

\* Mutant of ReplacementsValid: replacement values may collide.
ReplacementsCollide(p, s, as) ==
    \A k \in DOMAIN as : as[k].mode = "pseudonym" => as[k].set \in DOMAIN s

\* No two assignments share a value, tokens are what the template of today renders, pseudonyms are
\* their candidates.
ReplacementsValid(p, s, as) ==
    /\ \A k, l \in DOMAIN as : as[k].value = as[l].value => k = l
    /\ \A k \in DOMAIN as :
         LET a == as[k] IN
         /\ a.mode = "redact" => a.value = Token(p[k[1]].template, k[1], a.ordinal)
         /\ a.mode = "pseudonym" =>
              /\ a.set \in DOMAIN s /\ a.candidate \in DOMAIN s[a.set].candidates
              /\ a.value = s[a.set].candidates[a.candidate]

AssignmentsValid(p, s, as) == OriginalsValid(p, as) /\ ReplacementsValid(p, s, as)

Valid(p, s, as) == PoliciesValid(p, s) /\ SetsValid(s) /\ AssignmentsValid(p, s, as)

-----------------------------------------------------------------------------
(* Assignments *)

Identity(d, r, scope) ==
    CASE scope = "name" -> r.name
      [] scope = "canonical" -> Characters(r.canonical)
      [] scope = "surface" -> Characters(Matched(d, r))

Key(d, r) == <<r.entity, policy[r.entity].scope, Identity(d, r, policy[r.entity].scope)>>

\* What de-anonymization gives for an assignment of the record.
Original(d, r) ==
    IF policy[r.entity].scope = "surface" THEN Characters(Matched(d, r)) ELSE Characters(r.canonical)

OriginalPayload(d, r, limit) ==
    IF ~policy[r.entity].store \/ (policy[r.entity].scope = "surface" /\ limit = 0) THEN Nothing
    ELSE Original(d, r)

NextRedactionOrdinal(as, e) ==
    1 + Max({0} \cup {as[k].ordinal : k \in {l \in DOMAIN as : l[1] = e /\ as[l].mode = "redact"}})

\* The candidates of a set that may be given to a new key, and the one that is.
FreeCandidates(as, id) ==
    LET candidates == sets[id].candidates IN
    {i \in DOMAIN candidates :
        /\ sets[id].reuse \/ \A k \in DOMAIN as : <<as[k].set, as[k].candidate>> # <<id, i>>
        /\ \A k \in DOMAIN as : as[k].value # candidates[i]}

SelectCandidate(as, id, key) ==
    LET n == Len(sets[id].candidates)
        first == IF sets[id].reuse THEN Hash(key) % n ELSE 0
        turn(i) == (i - 1 + n - first) % n
    IN CHOOSE i \in FreeCandidates(as, id) : \A j \in FreeCandidates(as, id) : turn(i) <= turn(j)

NewAssignment(d, r, mode, limit, as) ==
    LET e == r.entity
        id == policy[e].set
        original == OriginalPayload(d, r, limit)
        ordinal == NextRedactionOrdinal(as, e)
        i == SelectCandidate(as, id, Key(d, r))
    IN IF mode = "redact"
       THEN [mode |-> mode, value |-> Token(policy[e].template, e, ordinal), ordinal |-> ordinal,
             set |-> NoSet, candidate |-> 0, original |-> original]
       ELSE [mode |-> mode, value |-> sets[id].candidates[i], ordinal |-> 0,
             set |-> id, candidate |-> i, original |-> original]

With(as, key, a) == [k \in DOMAIN as \cup {key} |-> IF k = key THEN a ELSE as[k]]

\* The ways an allocation ends for a record.
Outcome(d, r, mode, limit, as) ==
    LET p == policy[r.entity]
        wanted == IF mode = "entity_policy" THEN p.mode ELSE mode
        key == Key(d, r)
    IN CASE key[3] = Nothing -> "raise"
         [] key \in DOMAIN as /\ mode \notin {"entity_policy", as[key].mode} -> "mismatch"
         [] key \in DOMAIN as /\ mode \in {"entity_policy", as[key].mode} -> "reuse"
         [] key \notin DOMAIN as /\ ~p.allow -> "missing"
         [] key \notin DOMAIN as /\ p.allow ->
              IF wanted = "pseudonym" /\ (p.set = NoSet \/ FreeCandidates(as, p.set) = {}) THEN "exhausted"
              ELSE LET new == With(as, key, NewAssignment(d, r, wanted, limit, as)) IN
                   IF AssignmentsValid(policy, sets, new) THEN "create" ELSE "raise"

-----------------------------------------------------------------------------
(* Reports: which of the detected records are used *)

\* Overlapping records form a group with those that overlap them in turn.
Opens(d, i) == \A j \in 1..(i - 1) : d.records[j].end <= d.records[i].start
OverlapGroup(d, i) == Cardinality({j \in 1..i : Opens(d, j)})

Wins(d, i) ==
    LET r == d.records[i]
        rank(q) == <<q.priority, q.start - q.end, q.start>>
        before(x, y) == \/ x[1] < y[1]
                        \/ x[1] = y[1] /\ x[2] < y[2]
                        \/ x[1] = y[1] /\ x[2] = y[2] /\ x[3] < y[3]
    IN \A j \in DOMAIN d.records \ {i} : OverlapGroup(d, j) = OverlapGroup(d, i) =>
          \/ before(rank(r), rank(d.records[j]))
          \/ (~before(rank(d.records[j]), rank(r)) /\ i < j)

\* A report keeps the winner of each group; detector configurations keep everything.
ResolvedRecords(d) == {i \in DOMAIN d.records : ~d.resolve \/ Wins(d, i)}

-----------------------------------------------------------------------------
(* apply_byte_replacements: what an edited text consists of *)

Piece(key, mode, out, back) == [key |-> key, mode |-> mode, out |-> out, back |-> back]

\* What each character of the text becomes: itself, the replacement of what it begins, or nothing.
Pieces(text, edits) ==
    [p \in DOMAIN text |->
        IF \E e \in edits : e.start + 1 = p THEN (CHOOSE e \in edits : e.start + 1 = p).piece
        ELSE IF \E e \in edits : e.start < p /\ p <= e.end THEN Piece(Nothing, "none", <<>>, <<>>)
        ELSE Piece(Nothing, "none", <<text[p]>>, <<text[p]>>)]

Disjoint(edits) == \A e, f \in edits : e # f => ~Overlap(e, f)

Text(pieces) == FlattenSeq([i \in DOMAIN pieces |-> pieces[i].out])

-----------------------------------------------------------------------------
(* De-anonymization *)

RestoreOptions == [redact : BOOLEAN, pseudonym : BOOLEAN]

\* The literals searched for: assignments of an enabled mode that can be restored.
ReverseEntries(options) ==
    {k \in DOMAIN assignments : options[assignments[k].mode] /\ assignments[k].original # Nothing}

Matches(text, value, at) == at + Len(value) <= Len(text) /\ SubSeq(text, at + 1, at + Len(value)) = value

\* A literal is found leftmost, without overlapping itself.
Found(text, value) ==
    LET found[at \in 0..Len(text)] ==
            Matches(text, value, at) /\ \A b \in 0..(at - 1) : found[b] => b + Len(value) <= at
    IN {at \in 0..Len(text) : found[at]}

PseudonymAdjacencyAllowed(text, start, end) ==
    /\ text[start + 1] \in WordCharacters => start = 0 \/ text[start] \notin WordCharacters
    /\ text[end] \in WordCharacters => end = Len(text) \/ text[end + 1] \notin WordCharacters

ReverseCandidates(text, options) ==
    {c \in UNION {{[key |-> k, start |-> at, end |-> at + Len(assignments[k].value)] :
                        at \in Found(text, assignments[k].value)} : k \in ReverseEntries(options)} :
        assignments[c.key].mode = "pseudonym" => PseudonymAdjacencyAllowed(text, c.start, c.end)}

\* Mutant of ReversePriority: what starts first, the shorter first.
LeftmostPriority(c, d) == c.start < d.start \/ (c.start = d.start /\ c.end < d.end)

\* The longest first, a redaction before a pseudonym, then by key and place.
ReversePriority(c, d) ==
    LET rank(x) == <<x.start - x.end, IF assignments[x.key].mode = "redact" THEN 0 ELSE 1,
                     Hash(x.key), x.start>>
    IN \E i \in 1..4 : rank(c)[i] < rank(d)[i] /\ \A j \in 1..(i - 1) : rank(c)[j] = rank(d)[j]

ResolveReverseOverlaps(candidates) ==
    LET keep(kept, c) == IF \E k \in kept : Overlap(c, k) THEN kept ELSE kept \cup {c}
    IN FoldLeft(keep, {}, SetToSortSeq(candidates, ReversePriority))

\* An invalid database and too many entries end the command with diagnostics.
Restorable(options) ==
    Valid(policy, sets, assignments) /\ Cardinality(ReverseEntries(options)) <= MaxReverse

Deanonymize(text, options) ==
    LET selected == ResolveReverseOverlaps(ReverseCandidates(text, options))
        piece(c) == Piece(c.key, assignments[c.key].mode, assignments[c.key].original, Nothing)
    IN Text(Pieces(text, {[start |-> c.start, end |-> c.end, piece |-> piece(c)] : c \in selected}))

-----------------------------------------------------------------------------
Idle == [active |-> FALSE]      \* no anonymization is under way

AnonymizationInit ==
    /\ \E b \in Databases : policy = b.policy /\ sets = b.sets
    /\ assignments = <<>> /\ run = Idle /\ handedOut = {} /\ commands = 0

Command == ~run.active /\ commands < CommandLimit /\ commands' = commands + 1

\* A rejected save leaves the database as it was.
SaveChange(p, s) ==
    IF Valid(p, s, assignments)
    THEN policy' = p /\ sets' = s /\ UNCHANGED assignments
    ELSE UNCHANGED database

\* set-entity: always the mode, with or without a set, and at most one of the other options.
SetEntity(q) ==
    /\ Command
    /\ LET changed == [policy[q.entity] EXCEPT !.mode = q.mode,
                          !.set = IF q.set # NoSet THEN q.set ELSE IF q.mode = "redact" THEN NoSet ELSE @]
           p == IF q.option = "none" THEN changed ELSE [changed EXCEPT ![q.option] = q.value]
       IN SaveChange([policy EXCEPT ![q.entity] = p], sets)
    /\ UNCHANGED <<run, handedOut>>

\* add-set creates a set or extends it; a set that is reusable stays so.
AddSet(q) ==
    /\ Command
    /\ LET old == IF q.set \in DOMAIN sets THEN sets[q.set] ELSE [reuse |-> FALSE, candidates |-> <<>>]
           new == [reuse |-> old.reuse \/ q.reuse, candidates |-> old.candidates \o q.candidates]
       IN SaveChange(policy, With(sets, q.set, new))
    /\ UNCHANGED <<run, handedOut>>

\* anonymize-*: loads the database and takes the records of the report one by one.
Anonymize(q) ==
    /\ Command
    /\ run' = [active |-> TRUE, document |-> q.document, mode |-> q.mode, missing |-> q.missing,
                limit |-> q.limit, todo |-> ResolvedRecords(q.document), assignments |-> assignments,
                edits |-> {}, reported |-> {}]
    /\ UNCHANGED <<database, handedOut>>

Give(i, key, as) ==
    LET r == run.document.records[i]
        piece == Piece(key, as[key].mode, as[key].value,
                       IF as[key].original = Nothing THEN as[key].value ELSE Original(run.document, r))
    IN run' = [run EXCEPT !.todo = @ \ {i}, !.assignments = as,
                  !.edits = @ \cup {[start |-> r.start, end |-> r.end, record |-> i, piece |-> piece]}]

\* Mutant of Withhold: skip is silent about everything.
WithholdSilently(i, outcome) ==
    IF run.missing = "fail" THEN run' = Idle
    ELSE run' = [run EXCEPT !.todo = @ \ {i},
            !.reported = IF run.missing = "diagnostic" THEN @ \cup {i} ELSE @]

\* No replacement: skipped, reported, or the end of the command.
Withhold(i, outcome) ==
    IF run.missing = "fail" THEN run' = Idle
    ELSE run' = [run EXCEPT !.todo = @ \ {i},
            !.reported = IF run.missing = "diagnostic" \/ outcome # "missing" THEN @ \cup {i} ELSE @]

Allocate ==
    /\ run.active /\ run.todo # {}
    /\ LET i == Min(run.todo)
           d == run.document
           r == d.records[i]
           key == Key(d, r)
           wanted == IF run.mode = "entity_policy" THEN policy[r.entity].mode ELSE run.mode
           outcome == Outcome(d, r, run.mode, run.limit, run.assignments)
       IN \/ outcome = "raise" /\ run' = Idle
          \/ outcome = "reuse" /\ Give(i, key, run.assignments)
          \/ /\ outcome = "create"
             /\ Give(i, key, With(run.assignments, key,
                                NewAssignment(d, r, wanted, run.limit, run.assignments)))
          \/ outcome \in {"missing", "mismatch", "exhausted"} /\ Withhold(i, outcome)
    /\ UNCHANGED <<database, handedOut, commands>>

\* Edits that overlap end the command; else the assignments are saved and the text handed out.
FinishRun ==
    /\ run.active /\ run.todo = {} /\ run' = Idle
    /\ IF Disjoint(run.edits) /\ Valid(policy, sets, run.assignments)
       THEN /\ assignments' = run.assignments
            /\ LET d == run.document
                   replaced == {e.record : e \in run.edits}
                   silent == DOMAIN d.records \ (replaced \cup run.reported)
               IN handedOut' = handedOut \cup {
                     [pieces |-> Pieces(d.text, run.edits), document |-> d,
                      replaced |-> replaced, missing |-> run.missing,
                      silent |-> silent,
                      unknown |-> {i \in silent : Key(d, d.records[i]) \notin DOMAIN run.assignments}]}
       ELSE UNCHANGED <<assignments, handedOut>>
    /\ UNCHANGED <<policy, sets, commands>>

AnonymizationNext ==
    \/ \E q \in Settings : SetEntity(q)
    \/ \E q \in Extensions : AddSet(q)
    \/ \E q \in AnonymizeRequests : Anonymize(q)
    \/ Allocate
    \/ FinishRun

AnonymizationSpec == AnonymizationInit /\ [][AnonymizationNext]_anonymizationVars

-----------------------------------------------------------------------------
(* Properties *)

PieceStart(pieces, i) == Len(Text(SubSeq(pieces, 1, i - 1)))
PieceEnd(pieces, i) == PieceStart(pieces, i) + Len(pieces[i].out)

\* Only what was replaced looks like a replacement, and pseudonyms stand by themselves.
Clean(pieces, options) ==
    LET text == Text(pieces)
        given == {i \in DOMAIN pieces : pieces[i].key # Nothing}
    IN /\ \A k \in ReverseEntries(options), at \in 0..Len(text) :
            Matches(text, assignments[k].value, at) =>
                \E i \in given : /\ PieceStart(pieces, i) <= at
                                /\ at + Len(assignments[k].value) <= PieceEnd(pieces, i)
       /\ \A i \in given : pieces[i].mode = "pseudonym" /\ options.pseudonym =>
            PseudonymAdjacencyAllowed(text, PieceStart(pieces, i), PieceEnd(pieces, i))

Promised(pieces, options) ==
    FlattenSeq([i \in DOMAIN pieces |->
        IF pieces[i].key # Nothing /\ options[pieces[i].mode] THEN pieces[i].back ELSE pieces[i].out])

\* Whatever happened to the policies, the sets and the assignments since, every text that was handed
\* out is restored by the database of today: each replacement gives back the name, the canonical
\* form or the surface it stood for, and nothing else changes.
OutputsRestore ==
    ~run.active => \A o \in handedOut, options \in RestoreOptions :
        LET pieces == o.pieces IN
        Clean(pieces, options) /\ Cardinality(ReverseEntries(options)) <= MaxReverse =>
            Restorable(options) /\ Deanonymize(Text(pieces), options) = Promised(pieces, options)

\* In all texts ever handed out, one identity has one replacement and one replacement means one identity.
OneValuePerKey ==
    LET given == UNION {{o.pieces[i] : i \in DOMAIN o.pieces} : o \in handedOut}
    IN \A a, b \in given : a.key # Nothing /\ b.key # Nothing => (a.key = b.key <=> a.out = b.out)

\* A detected record stays readable without a word about it only in a command that was told to skip
\* unknown ones, or because it overlaps another detected record.
SilentOnlyWhenAsked ==
    \A o \in handedOut : \A i \in o.silent :
        \/ o.missing = "skip" /\ i \in o.unknown
        \/ \E j \in DOMAIN o.document.records \ {i} :
              Overlap(o.document.records[i], o.document.records[j])

=============================================================================
