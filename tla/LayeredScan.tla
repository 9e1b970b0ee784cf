----------------------------- MODULE LayeredScan -----------------------------
(***************************************************************************)
(* The production scan of the native engine (rust/src/engine.rs).  Each    *)
(* entity of a bank has its own shard.  The shard compiler sorts the       *)
(* entity's patterns into layers by how they can be searched: plain        *)
(* literals for Aho-Corasick, literals whose only regex part is `\s+`,     *)
(* searched in a copy of the text with every whitespace run collapsed, and *)
(* the rest in one or more regex layers.  The scan keeps the next          *)
(* candidate of every layer, takes the one that starts first (the lowest   *)
(* pattern order breaks ties), and searches again only the layers whose    *)
(* candidate starts inside the span it took.                               *)
(*                                                                         *)
(* A text is a sequence of cells, and an offset counts the cells before    *)
(* it.  The Kelvin sign is the one character here of two cells, "K" and    *)
(* "+": the simple case folding of an ASCII literal matches it, and        *)
(* folding it shortens the text, as collapsing whitespace does.  A         *)
(* pattern is the sequence of the literals around its `\s+`s, with its     *)
(* word boundaries and its IGNORECASE flag.                                *)
(***************************************************************************)
EXTENDS Naturals, Sequences, FiniteSets, FiniteSetsExt, SequencesExt

CONSTANTS
    EntityBanks,          \* banks: sequences of entities, each a sequence of patterns
    Haystacks,      \* the texts to scan
    MaxMatches,     \* NativeMatchBuffer.max_matches
    NoCandidate     \* the None of Option<LayerCandidate>

VARIABLES
    bank,         \* the compiled bank
    haystack,     \* the text
    occurrences,  \* every match of every pattern as the regex it is; no code, see below
    cuts,         \* where the size limits split the regex layers
    entity,       \* the entity whose shard is being scanned
    cursor,       \* the end of the last match taken in this shard
    candidates,   \* the next candidate of every layer of this shard
    buffer,       \* the matches pushed, which the final sort puts in order
    status        \* "scanning", "complete" or "failed"

mergeVars == <<bank, haystack, occurrences, cuts, entity, cursor, candidates, buffer, status>>

-----------------------------------------------------------------------------
(* Text.                                                                   *)

White == {"sp", "tab"}
WordCells == {"k", "x", "X", "K", "+"}
Cells == White \cup WordCells \cup {"-"}

Pattern == [parts : Seq(Seq(Cells)), left : BOOLEAN, right : BOOLEAN, ignoreCase : BOOLEAN]

Candidate == [order : Nat, start : Nat, end : Nat]

\* No entity has a pattern that may match the empty text: such an entity is left
\* to a single regex.
ASSUME ScanAssumption ==
    /\ EntityBanks \subseteq Seq(Seq(Pattern)) \ {<<>>}
    /\ \A b \in EntityBanks : \A e \in DOMAIN b : \A i \in DOMAIN b[e] :
         b[e][i].parts # <<>> /\ b[e][i].parts # << <<>> >>
    /\ Haystacks \subseteq Seq(Cells)
    /\ MaxMatches \in Nat
    /\ NoCandidate \notin Candidate

IsWhite(text, i) == text[i + 1] \in White

\* Does the text have a Unicode word boundary at this offset?
IsWordBoundary(text, at) ==
    (at > 0 /\ text[at] \in WordCells) # (at < Len(text) /\ text[at + 1] \in WordCells)

IsCharStart(text, at) == at = Len(text) \/ text[at + 1] # "+"

BoundariesMatch(pattern, text, start, end) ==
    /\ pattern.left => IsWordBoundary(text, start)
    /\ pattern.right => IsWordBoundary(text, end)

-----------------------------------------------------------------------------
(* What a pattern matches, as the regex it is (the reference).             *)

SameByte(ignoreCase, a, b) == a = b \/ (ignoreCase /\ {a, b} = {"x", "X"})

\* Offsets after one literal cell at `at`; the Kelvin sign folds to "k".
AfterCell(text, cell, ignoreCase, at) ==
    (IF at < Len(text) /\ SameByte(ignoreCase, text[at + 1], cell) THEN {at + 1} ELSE {})
    \cup (IF ignoreCase /\ cell = "k" /\ at + 1 < Len(text) /\ text[at + 1] = "K"
          THEN {at + 2} ELSE {})

AfterLiteral(text, literal, ignoreCase, offsets) ==
    FoldLeft(LAMBDA ats, cell : UNION {AfterCell(text, cell, ignoreCase, at) : at \in ats},
             offsets, literal)

\* Offsets after `\s+`.
AfterWhitespace(text, offsets) ==
    {e \in 1..Len(text) :
        \E at \in offsets : at < e /\ \A i \in at..(e - 1) : IsWhite(text, i)}

\* The offsets at which the regex can end when it starts at `start`.
Ends(pattern, text, start) ==
    LET First == AfterLiteral(text, Head(pattern.parts), pattern.ignoreCase, {start})
        Part(ats, literal) ==
            AfterLiteral(text, literal, pattern.ignoreCase, AfterWhitespace(text, ats))
    IN  {e \in FoldLeft(Part, First, Tail(pattern.parts)) :
            BoundariesMatch(pattern, text, start, e)}

\* Every occurrence of an entity's patterns; `\s+` is greedy.
EntityOccurrences(patterns, text, e) ==
    UNION {LET ends == Ends(patterns[order], text, start) IN
           IF ends = {} THEN {}
           ELSE {[entity |-> e, order |-> order, start |-> start, end |-> Max(ends)]} :
               order \in DOMAIN patterns, start \in 0..Len(text)}

AllOccurrences(b, text) == UNION {EntityOccurrences(b[e], text, e) : e \in DOMAIN b}

-----------------------------------------------------------------------------
(* Compilation: how each pattern will be searched.                         *)

\* `\s+`s become single spaces: the value of a normalized literal.
Value(pattern) ==
    FoldLeft(LAMBDA value, literal : value \o <<"sp">> \o literal,
             Head(pattern.parts), Tail(pattern.parts))

\* A plain literal; one bounded on the right only stays with the regexes.
IsLiteral(pattern) == Len(pattern.parts) = 1 /\ (pattern.right => pattern.left)

\* Only bounded patterns are recognized, and every literal part must be there.
IsNormalized(pattern) ==
    /\ Len(pattern.parts) > 1
    /\ pattern.left \/ pattern.right
    /\ \A i \in DOMAIN pattern.parts : pattern.parts[i] # <<>>

Kind(pattern) ==
    IF IsLiteral(pattern) THEN "literal" ELSE IF IsNormalized(pattern) THEN "normalized" ELSE "regex"

LiteralLayer(patterns, kind, ignoreCase, left) ==
    [kind |-> kind, ignoreCase |-> ignoreCase, left |-> left,
     orders |-> {i \in DOMAIN patterns :
                    /\ Kind(patterns[i]) = kind
                    /\ patterns[i].ignoreCase = ignoreCase
                    /\ patterns[i].left = left}]

\* The regex layers: runs of consecutive residual patterns, split at the cuts.
RegexLayers(patterns, at) ==
    LET residual == {i \in DOMAIN patterns : Kind(patterns[i]) = "regex"}
        Chunk(i) == {j \in residual : \A c \in at : (i < c) = (j < c)}
    IN  {[kind |-> "regex", ignoreCase |-> FALSE, left |-> FALSE, orders |-> Chunk(i)] : i \in residual}

\* compile_bounded_regex_layers cuts a run of residual patterns at 128 patterns
\* and halves it on a size or resource limit: any cut between two may be made.
CutPoints(b) ==
    UNION {{i \in DOMAIN b[e] : Kind(b[e][i]) = "regex"
                                /\ \E j \in 1..(i - 1) : Kind(b[e][j]) = "regex"} : e \in DOMAIN b}

Layers(patterns, at) ==
    {layer \in {LiteralLayer(patterns, kind, ic, left) :
                   kind \in {"literal", "normalized"}, ic \in BOOLEAN, left \in BOOLEAN}
                \cup RegexLayers(patterns, at) : layer.orders # {}}

-----------------------------------------------------------------------------
(* The mapped copy of the text and its offsets.                            *)

RequiresCasefoldMapping(text) == \E i \in DOMAIN text : text[i] = "K"

RequiresWhitespaceMapping(text) ==
    \E i \in DOMAIN text : /\ text[i] \in White
                           /\ text[i] # "sp" \/ (i > 1 /\ text[i - 1] \in White)

\* The original offsets at which the cells of the mapped copy start.
MappedStarts(text, whitespace, fold) ==
    LET starts == {i \in 0..(Len(text) - 1) :
                      /\ ~(whitespace /\ i > 0 /\ IsWhite(text, i - 1) /\ IsWhite(text, i))
                      /\ ~(fold /\ text[i + 1] = "+")}
    IN  [m \in 1..Cardinality(starts) |->
            CHOOSE i \in starts : Cardinality({j \in starts : j < i}) = m - 1]

MapHaystack(text, whitespace, fold) ==
    LET starts == MappedStarts(text, whitespace, fold)
        MappedCell(i) == CASE whitespace /\ IsWhite(text, i) -> "sp"
                           [] fold /\ text[i + 1] = "K" -> "k"
                           [] OTHER -> text[i + 1]
    IN  [cells |-> [m \in DOMAIN starts |-> MappedCell(starts[m])],
         boundaries |-> Append(starts, Len(text))]

OriginalBoundary(mapped, at) == mapped.boundaries[at + 1]

MappedBoundaryAtOrAfter(mapped, original) ==
    Min({at \in 0..Len(mapped.cells) : OriginalBoundary(mapped, at) >= original})

-----------------------------------------------------------------------------
(* The search of one literal layer.                                        *)

LiteralEnd(patterns, order, start) == start + Len(Value(patterns[order]))

\* Aho-Corasick compares bytes, with ASCII case folded where the layer asks.
LiteralAt(patterns, order, text, start) ==
    LET value == Value(patterns[order]) IN
    /\ start + Len(value) <= Len(text)
    /\ \A i \in DOMAIN value : SameByte(patterns[order].ignoreCase, value[i], text[start + i])

LiteralsAt(patterns, layer, text, start) ==
    {order \in layer.orders : LiteralAt(patterns, order, text, start)}

\* A mutant: equal literals are compacted whatever their boundaries.
RepresentativesByValue(patterns, layer) ==
    {order \in layer.orders :
        ~\E earlier \in layer.orders :
            earlier < order /\ Value(patterns[earlier]) = Value(patterns[order])}

\* The first of the equal literals with the same boundaries, as the prefix index keeps them.
Representatives(patterns, layer) ==
    {order \in layer.orders :
        ~\E earlier \in layer.orders :
            /\ earlier < order
            /\ Value(patterns[earlier]) = Value(patterns[order])
            /\ patterns[earlier].left = patterns[order].left
            /\ patterns[earlier].right = patterns[order].right}

\* The literals at this start whose word boundaries hold.
IndexedValidLiterals(patterns, layer, text, start) ==
    {order \in LiteralsAt(patterns, layer, text, start) \cap Representatives(patterns, layer) :
        BoundariesMatch(patterns[order], text, start, LiteralEnd(patterns, order, start))}

\* Where to search on after every literal at `start` failed its boundaries.
NextLiteralSearchStart(layer, text, start) ==
    Min({at \in (start + 1)..Len(text) :
            /\ IsCharStart(text, at)
            /\ layer.left => at = Len(text) \/ IsWordBoundary(text, at)})

\* The leftmost start with a literal, from an offset on; None if there is none.
NextLiteralCandidate(patterns, layer, text, from) ==
    LET Found(order, start) ==
            [order |-> order, start |-> start, end |-> LiteralEnd(patterns, order, start)]
        Find[at \in 0..Len(text)] ==
            LET starts == {s \in at..Len(text) : LiteralsAt(patterns, layer, text, s) # {}}
                start == Min(starts)
                first == Min(LiteralsAt(patterns, layer, text, start))
                valid == IndexedValidLiterals(patterns, layer, text, start)
            IN  CASE starts = {} -> NoCandidate
                  [] starts # {} /\ BoundariesMatch(patterns[first], text, start,
                                                    LiteralEnd(patterns, first, start)) ->
                         Found(first, start)
                  [] OTHER -> IF valid # {} THEN Found(Min(valid), start)
                              ELSE Find[NextLiteralSearchStart(layer, text, start)]
    IN  Find[from]

\* The same in the mapped copy, with the offsets mapped back.
NextMappedCandidate(patterns, layer, mapped, from) ==
    LET c == NextLiteralCandidate(patterns, layer, mapped.cells, MappedBoundaryAtOrAfter(mapped, from))
    IN  IF c = NoCandidate THEN NoCandidate
        ELSE [c EXCEPT !.start = OriginalBoundary(mapped, @), !.end = OriginalBoundary(mapped, @)]

\* Leftmost first; of those that start together, the one listed first.
Precedes(o, p) == o.start < p.start \/ (o.start = p.start /\ o.order <= p.order)

AsCandidate(o) == [order |-> o.order, start |-> o.start, end |-> o.end]

\* What a leftmost-first regex over a layer's patterns can find from an offset on.
LayerAhead(matches, e, layer, from) ==
    {o \in matches : o.entity = e /\ o.order \in layer.orders /\ o.start >= from}

\* A regex layer: regex-automata's leftmost-first search.
NextRegexCandidate(matches, e, layer, from) ==
    LET ahead == LayerAhead(matches, e, layer, from) IN
    IF ahead = {} THEN NoCandidate
    ELSE AsCandidate(CHOOSE o \in ahead : \A p \in ahead : Precedes(o, p))

\* One search of one layer, in the text or in the copy that the layer needs.
Search(b, text, matches, e, layer, from) ==
    LET whitespace == layer.kind = "normalized"
        needed == \/ whitespace /\ RequiresWhitespaceMapping(text)
                  \/ layer.ignoreCase /\ RequiresCasefoldMapping(text)
    IN  CASE layer.kind = "regex" -> NextRegexCandidate(matches, e, layer, from)
          [] layer.kind # "regex" /\ needed ->
                 NextMappedCandidate(b[e], layer, MapHaystack(text, whitespace, layer.ignoreCase), from)
          [] OTHER -> NextLiteralCandidate(b[e], layer, text, from)

-----------------------------------------------------------------------------
(* The scan.                                                               *)

\* The search of every layer of an entity's shard from one offset.
SearchAll(e, from) ==
    [layer \in Layers(bank[e], cuts) |-> Search(bank, haystack, occurrences, e, layer, from)]

\* A candidate that starts inside the span just taken.
PrecedesCursor(candidate, at) == candidate # NoCandidate /\ candidate.start < at

Refreshed(at) ==
    [layer \in DOMAIN candidates |->
        IF PrecedesCursor(candidates[layer], at)
        THEN SearchAll(entity, at)[layer]
        ELSE candidates[layer]]

\* A mutant: the pattern order does not break ties.
IsWinnerByStart(layer) ==
    /\ candidates[layer] # NoCandidate
    /\ \A other \in DOMAIN candidates :
         candidates[other] # NoCandidate => candidates[layer].start <= candidates[other].start

\* The candidate to take: leftmost, then the lowest pattern order.
IsWinner(layer) ==
    /\ candidates[layer] # NoCandidate
    /\ \A other \in DOMAIN candidates :
         candidates[other] # NoCandidate => Precedes(candidates[layer], candidates[other])

Match(c) == [entity |-> entity, order |-> c.order, start |-> c.start, end |-> c.end]

MergeInit == /\ bank \in EntityBanks
        /\ haystack \in Haystacks
        /\ occurrences = AllOccurrences(bank, haystack)
        /\ cuts \in SUBSET CutPoints(bank)
        /\ entity = 1
        /\ cursor = 0
        /\ candidates = SearchAll(1, 0)
        /\ buffer = {}
        /\ status = "scanning"

\* push_utf8_match, then the layers that the match overlaps are searched again.
Take == /\ status = "scanning"
        /\ Cardinality(buffer) < MaxMatches
        /\ \E layer \in DOMAIN candidates :
             /\ IsWinner(layer)
             /\ buffer' = buffer \cup {Match(candidates[layer])}
             /\ cursor' = candidates[layer].end
             /\ candidates' = Refreshed(candidates[layer].end)
        /\ UNCHANGED <<bank, haystack, occurrences, cuts, entity, status>>

\* The push fails; scan_bytes_into clears what was pushed before.
LimitExceeded == /\ status = "scanning"
                 /\ Cardinality(buffer) >= MaxMatches
                 /\ \E layer \in DOMAIN candidates : IsWinner(layer)
                 /\ buffer' = {}
                 /\ status' = "failed"
                 /\ UNCHANGED <<bank, haystack, occurrences, cuts, entity, cursor, candidates>>

ShardDone == \A layer \in DOMAIN candidates : candidates[layer] = NoCandidate

NextShard == /\ status = "scanning"
             /\ ShardDone
             /\ entity < Len(bank)
             /\ entity' = entity + 1
             /\ cursor' = 0
             /\ candidates' = SearchAll(entity + 1, 0)
             /\ UNCHANGED <<bank, haystack, occurrences, cuts, buffer, status>>

Sort == /\ status = "scanning"
        /\ ShardDone
        /\ entity = Len(bank)
        /\ status' = "complete"
        /\ UNCHANGED <<bank, haystack, occurrences, cuts, entity, cursor, candidates, buffer>>

MergeNext == Take \/ LimitExceeded \/ NextShard \/ Sort

MergeSpec == MergeInit /\ [][MergeNext]_mergeVars

-----------------------------------------------------------------------------
(* Properties.                                                             *)

\* What the regex library promises: matches are within the text and not empty.
MatchesAdvance(matches, text) ==
    \A o \in matches : o.start \in Nat /\ o.end \in 0..Len(text) /\ o.start < o.end

MergeTypeOK == /\ entity \in DOMAIN bank
          /\ cursor \in 0..Len(haystack)
          /\ DOMAIN candidates = Layers(bank[entity], cuts)
          /\ \A layer \in DOMAIN candidates : candidates[layer] \in Candidate \cup {NoCandidate}
          /\ MatchesAdvance(occurrences, haystack)
          /\ buffer \subseteq occurrences
          /\ status \in {"scanning", "complete", "failed"}

LF == INSTANCE LeftmostFirst WITH found <- buffer

\* The comment in scan_layered_shard ("Merging the layers by start and then
\* original pattern order reconstructs the same winner as one leftmost-first
\* regex over every entity pattern"): the layered scan implements LeftmostFirst.
ImplementsLeftmostFirst == LF!Spec

\* A candidate kept from an earlier cursor ("Keep a losing candidate when it
\* starts beyond the consumed span") is what a search from the cursor finds now.
CandidatesAreCurrent == status = "scanning" => candidates = SearchAll(entity, cursor)

\* "Each layer applies its own leftmost-first semantics": wherever it starts, the
\* search of a layer finds what one regex over the layer's patterns would find.
IsExact(b, text, matches, at, e) ==
    \A layer \in Layers(b[e], at), from \in 0..Len(text) :
        LET found == Search(b, text, matches, e, layer, from)
            ahead == LayerAhead(matches, e, layer, from)
        IN  IF found = NoCandidate THEN ahead = {}
            ELSE \E o \in ahead : found = AsCandidate(o) /\ \A p \in ahead : Precedes(o, p)

LayersAreExact == IsExact(bank, haystack, occurrences, cuts, entity)
=============================================================================
