------------------------------ MODULE NativeScanProofs ------------------------------
(***************************************************************************)
(* Proofs about the native scan and the service around it.  First the      *)
(* layered scan, for every bank, text and limit; then the scan limiter,    *)
(* the tables of the bank cache and the threads that use both, for any     *)
(* number of threads, sources, banks, table sizes and slots.               *)
(***************************************************************************)
EXTENDS LayeredScan, BankService, FiniteSetTheorems, TLAPS


\* What the merge relies on.  The searches of the single layers are exact, which
\* TLC checks as LayersAreExact, and matches are in the text and not empty.
SearchesAreSound ==
    \A b \in EntityBanks, text \in Haystacks :
        /\ MatchesAdvance(AllOccurrences(b, text), text)
        /\ \A e \in DOMAIN b, at \in SUBSET CutPoints(b) :
               IsExact(b, text, AllOccurrences(b, text), at, e)

\* A record of EntityOccurrences.
Occurrence(e, order, start, end) == [entity |-> e, order |-> order, start |-> start, end |-> end]

-----------------------------------------------------------------------------
(* The layers of an entity hold each of its patterns.                      *)

LEMMA LayersCover ==
    ASSUME NEW b \in EntityBanks, NEW e \in DOMAIN b, NEW at, NEW i \in DOMAIN b[e]
    PROVE  \E layer \in Layers(b[e], at) : i \in layer.orders
<1> DEFINE patterns == b[e]
<1>1. patterns \in Seq(Pattern)
  BY ScanAssumption
<1>2. patterns[i] \in Pattern
  BY <1>1
<1>3. patterns[i].ignoreCase \in BOOLEAN /\ patterns[i].left \in BOOLEAN
  BY <1>2 DEF Pattern
<1> HIDE DEF patterns
<1>4. CASE Kind(patterns[i]) \in {"literal", "normalized"}
  <2> DEFINE layer == LiteralLayer(patterns, Kind(patterns[i]), patterns[i].ignoreCase, patterns[i].left)
  <2>1. i \in layer.orders
    BY DEF LiteralLayer, patterns
  <2>2. layer \in Layers(patterns, at)
    BY <1>3, <1>4, <2>1 DEF Layers
  <2> QED
    BY <2>1, <2>2 DEF patterns
<1>5. CASE Kind(patterns[i]) \notin {"literal", "normalized"}
  <2>1. Kind(patterns[i]) = "regex"
    BY <1>5 DEF Kind
  <2> DEFINE residual == {j \in DOMAIN patterns : Kind(patterns[j]) = "regex"}
             chunk == {j \in residual : \A c \in at : (i < c) = (j < c)}
             layer == [kind |-> "regex", ignoreCase |-> FALSE, left |-> FALSE, orders |-> chunk]
  <2>2. layer \in RegexLayers(patterns, at) /\ i \in layer.orders
    <3>1. i \in residual
      BY <2>1 DEF patterns
    <3>2. i \in chunk
      BY <3>1
    <3> QED
      BY <3>1, <3>2, Zenon DEF RegexLayers
  <2>3. layer \in Layers(patterns, at)
    BY <2>2 DEF Layers
  <2> QED
    BY <2>2, <2>3 DEF patterns
<1> QED
  BY <1>4, <1>5

\* Occurrences are records, and start and order tell those of an entity apart.
LEMMA OccurrencesAreRecords ==
    ASSUME NEW b, NEW text, NEW o \in AllOccurrences(b, text)
    PROVE  /\ o.entity \in DOMAIN b
           /\ o.order \in DOMAIN b[o.entity]
           /\ o = Occurrence(o.entity, o.order, o.start, Max(Ends(b[o.entity][o.order], text, o.start)))
<1>1. PICK e \in DOMAIN b : o \in EntityOccurrences(b[e], text, e)
  BY DEF AllOccurrences
<1>2. PICK order \in DOMAIN b[e], start \in 0..Len(text) :
          o = Occurrence(e, order, start, Max(Ends(b[e][order], text, start)))
  BY <1>1 DEF EntityOccurrences, Occurrence
<1> QED
  BY <1>2 DEF Occurrence

LEMMA OccurrencesDiffer ==
    ASSUME NEW b, NEW text, NEW o \in AllOccurrences(b, text), NEW p \in AllOccurrences(b, text),
           o.entity = p.entity, o.order = p.order, o.start = p.start
    PROVE  o = p
  BY OccurrencesAreRecords DEF Occurrence

-----------------------------------------------------------------------------
(* The search of one layer, given that it is exact.                        *)

\* Where an occurrence lies and how it ranks are numbers.
LEMMA OccurrenceTypes ==
    ASSUME SearchesAreSound, NEW b \in EntityBanks, NEW text \in Haystacks,
           NEW o \in AllOccurrences(b, text)
    PROVE  /\ o.entity \in DOMAIN b /\ o.entity \in Nat
           /\ o.order \in DOMAIN b[o.entity] /\ o.order \in Nat
           /\ o.start \in Nat /\ o.end \in 0..Len(text) /\ o.start < o.end
           /\ o = Occurrence(o.entity, o.order, o.start, o.end)
<1>1. o.entity \in DOMAIN b /\ o.order \in DOMAIN b[o.entity]
  BY OccurrencesAreRecords
<1>2. b \in Seq(Seq(Pattern))
  BY ScanAssumption
<1>3. b[o.entity] \in Seq(Pattern)
  BY <1>1, <1>2
<1>4. o.entity \in Nat /\ o.order \in Nat
  BY <1>1, <1>2, <1>3
<1>5. MatchesAdvance(AllOccurrences(b, text), text)
  BY DEF SearchesAreSound
<1>6. o = Occurrence(o.entity, o.order, o.start, o.end)
  BY OccurrencesAreRecords DEF Occurrence
<1> QED
  BY <1>1, <1>4, <1>5, <1>6 DEF MatchesAdvance

\* What a search finds is the first of the occurrences ahead.
LEMMA SearchFinds ==
    ASSUME SearchesAreSound, NEW b \in EntityBanks, NEW text \in Haystacks,
           NEW e \in DOMAIN b, NEW at \in SUBSET CutPoints(b),
           NEW layer \in Layers(b[e], at), NEW from \in 0..Len(text)
    PROVE  LET matches == AllOccurrences(b, text)
               found == Search(b, text, matches, e, layer, from)
               ahead == LayerAhead(matches, e, layer, from)
           IN  /\ found = NoCandidate => ahead = {}
               /\ found # NoCandidate =>
                     \E o \in ahead : found = AsCandidate(o) /\ \A p \in ahead : Precedes(o, p)
  BY DEF SearchesAreSound, IsExact

\* A candidate found from one offset that still starts at or after a later one is
\* what a search from there finds; so is the lack of one.
LEMMA CandidateStaysCurrent ==
    ASSUME SearchesAreSound, NEW b \in EntityBanks, NEW text \in Haystacks,
           NEW e \in DOMAIN b, NEW at \in SUBSET CutPoints(b),
           NEW layer \in Layers(b[e], at), NEW from \in 0..Len(text), NEW to \in 0..Len(text),
           from <= to,
           ~PrecedesCursor(Search(b, text, AllOccurrences(b, text), e, layer, from), to)
    PROVE  Search(b, text, AllOccurrences(b, text), e, layer, from)
             = Search(b, text, AllOccurrences(b, text), e, layer, to)
<1> DEFINE matches == AllOccurrences(b, text)
           Found(x) == Search(b, text, matches, e, layer, x)
           Beyond(x) == LayerAhead(matches, e, layer, x)
<1>1. \A x \in {from, to} :
          /\ Found(x) = NoCandidate => Beyond(x) = {}
          /\ Found(x) # NoCandidate =>
                \E o \in Beyond(x) : Found(x) = AsCandidate(o) /\ \A p \in Beyond(x) : Precedes(o, p)
  BY SearchFinds
<1>2. \A o \in matches : o.start \in Nat /\ o.order \in Nat
  BY OccurrenceTypes
<1>3. from \in Nat /\ to \in Nat
  OBVIOUS
<1>4. \A x : Beyond(x) = {o \in matches : o.entity = e /\ o.order \in layer.orders /\ o.start >= x}
  BY DEF LayerAhead
<1>5. Beyond(to) \subseteq Beyond(from)
  BY <1>2, <1>3, <1>4
<1>6. ~PrecedesCursor(Found(from), to)
  OBVIOUS
<1>7. \A o, p \in matches : o.entity = p.entity /\ o.order = p.order /\ o.start = p.start => o = p
  BY OccurrencesDiffer
<1> SUFFICES Found(from) = Found(to)
  OBVIOUS
<1> HIDE DEF matches, Found, Beyond
<1>8. CASE Found(from) = NoCandidate
  BY <1>1, <1>5, <1>8
<1>9. CASE Found(from) # NoCandidate
  <2>1. PICK o \in Beyond(from) : Found(from) = AsCandidate(o) /\ \A p \in Beyond(from) : Precedes(o, p)
    BY <1>1, <1>9
  <2>2. o \in matches /\ o.entity = e /\ o.start >= to
    BY <1>2, <1>3, <1>4, <1>6, <1>9, <2>1 DEF PrecedesCursor, AsCandidate
  <2>3. o \in Beyond(to)
    BY <1>4, <2>1, <2>2
  <2>4. PICK q \in Beyond(to) : Found(to) = AsCandidate(q) /\ \A p \in Beyond(to) : Precedes(q, p)
    BY <1>1, <2>3
  <2>5. q \in matches /\ q.entity = e
    BY <1>4, <2>4
  <2>6. Precedes(o, q) /\ Precedes(q, o)
    BY <1>5, <2>1, <2>3, <2>4
  <2>7. o = q
    BY <1>2, <1>7, <2>2, <2>5, <2>6 DEF Precedes
  <2> QED
    BY <2>1, <2>4, <2>7
<1> QED
  BY <1>8, <1>9

-----------------------------------------------------------------------------
(* The inductive invariant.                                                *)

\* What is fixed, and where the scan is.
Frame == /\ bank \in EntityBanks
         /\ haystack \in Haystacks
         /\ occurrences = AllOccurrences(bank, haystack)
         /\ cuts \in SUBSET CutPoints(bank)
         /\ entity \in DOMAIN bank
         /\ cursor \in 0..Len(haystack)
         /\ status \in {"scanning", "complete", "failed"}

\* The shards before this one are done, this one is done up to the cursor, and the
\* cursor is the end of its last match.
Progress ==
    /\ \A m \in buffer : m.entity < entity \/ (m.entity = entity /\ m.end <= cursor)
    /\ cursor = 0 \/ \E m \in buffer : m.entity = entity /\ m.end = cursor
    /\ \A o \in occurrences : o.entity < entity =>
          \E m \in buffer : m.entity = o.entity /\ ~(m.end <= o.start)

ScanInv == /\ Frame
           /\ candidates = SearchAll(entity, cursor)
           /\ buffer \subseteq occurrences
           /\ status = "scanning" => Progress

-----------------------------------------------------------------------------
(* The two facts about one state that the steps rest on.                   *)

\* LeftmostFirst counts the matches as LayeredScan does.
LEMMA SameCardinality == Cardinality(buffer) = LF!Cardinality(buffer)
  BY Zenon DEF Cardinality, LF!Cardinality

\* What this entity may still report is what starts at or after the cursor.
LEMMA AheadIsBeyondCursor ==
    ASSUME SearchesAreSound, ScanInv, status = "scanning", NEW o \in occurrences, o.entity = entity
    PROVE  o \in LF!Ahead(entity) <=> o.start >= cursor
<1>1. /\ \A m \in occurrences : m.end \in Nat /\ m.start \in Nat /\ m.entity \in Nat
      /\ cursor \in Nat /\ entity \in Nat
  <2>1. bank \in EntityBanks /\ haystack \in Haystacks /\ occurrences = AllOccurrences(bank, haystack)
    BY DEF ScanInv, Frame
  <2>2. bank \in Seq(Seq(Pattern)) /\ entity \in DOMAIN bank /\ cursor \in Nat
    BY ScanAssumption DEF ScanInv, Frame
  <2>3. entity \in Nat
    BY <2>2
  <2> QED
    BY <2>1, <2>2, <2>3, OccurrenceTypes
<1>2. \A m \in buffer : m.entity = entity => m.end <= cursor
  BY <1>1 DEF ScanInv, Progress
<1>3. cursor = 0 \/ \E m \in buffer : m.entity = entity /\ m.end = cursor
  BY DEF ScanInv, Progress
<1>4. buffer \subseteq occurrences
  BY DEF ScanInv
<1> QED
  BY <1>1, <1>2, <1>3, <1>4 DEF LF!Ahead

\* The candidate that wins is the entity's next match.
LEMMA WinnerIsNext ==
    ASSUME SearchesAreSound, ScanInv, status = "scanning",
           NEW layer \in DOMAIN candidates, IsWinner(layer)
    PROVE  \E o \in occurrences : /\ LF!IsNext(o)
                                  /\ o = Match(candidates[layer])
                                  /\ o.entity = entity
                                  /\ o.end = candidates[layer].end
                                  /\ o.end \in 0..Len(haystack)
                                  /\ cursor <= o.start /\ o.start < o.end
<1>1. /\ bank \in EntityBanks /\ haystack \in Haystacks /\ occurrences = AllOccurrences(bank, haystack)
      /\ cuts \in SUBSET CutPoints(bank) /\ entity \in DOMAIN bank /\ cursor \in 0..Len(haystack)
      /\ candidates = SearchAll(entity, cursor)
  BY DEF ScanInv, Frame
<1>2. DOMAIN candidates = Layers(bank[entity], cuts)
  BY <1>1 DEF SearchAll
<1>3. \A l \in DOMAIN candidates :
         candidates[l] = Search(bank, haystack, occurrences, entity, l, cursor)
  BY <1>1 DEF SearchAll
<1> DEFINE Beyond(l) == LayerAhead(occurrences, entity, l, cursor)
<1>4. \A l \in DOMAIN candidates :
         /\ candidates[l] = NoCandidate => Beyond(l) = {}
         /\ candidates[l] # NoCandidate =>
               \E o \in Beyond(l) : candidates[l] = AsCandidate(o) /\ \A p \in Beyond(l) : Precedes(o, p)
  BY <1>1, <1>2, <1>3, SearchFinds
<1>5. \A l : Beyond(l) = {o \in occurrences : o.entity = entity /\ o.order \in l.orders /\ o.start >= cursor}
  BY DEF LayerAhead
<1>6. \A o \in occurrences :
         /\ o.start \in Nat /\ o.order \in Nat /\ o.end \in 0..Len(haystack) /\ o.start < o.end
         /\ o.order \in DOMAIN bank[o.entity]
         /\ o = Occurrence(o.entity, o.order, o.start, o.end)
  BY <1>1, OccurrenceTypes
<1>7. \A o, p \in occurrences : o.entity = p.entity /\ o.order = p.order /\ o.start = p.start => o = p
  BY <1>1, OccurrencesDiffer
<1> HIDE DEF Beyond
<1>8. PICK o \in Beyond(layer) : candidates[layer] = AsCandidate(o)
  BY <1>4 DEF IsWinner
<1>9. o \in occurrences /\ o.entity = entity /\ o.start >= cursor
  BY <1>5, <1>8
<1>10. o = Match(candidates[layer])
  BY <1>6, <1>8, <1>9 DEF Match, AsCandidate, Occurrence
<1>11. o \in LF!Ahead(entity)
  BY <1>9, AheadIsBeyondCursor
<1>12. ASSUME NEW p \in LF!Ahead(entity), p # o
       PROVE  LF!Precedes(o, p)
  <2>1. p \in occurrences /\ p.entity = entity
    BY DEF LF!Ahead
  <2>2. p.start >= cursor
    BY <2>1, AheadIsBeyondCursor
  <2>3. PICK other \in Layers(bank[entity], cuts) : p.order \in other.orders
    BY <1>1, <1>6, <2>1, LayersCover
  <2>4. p \in Beyond(other)
    BY <1>5, <2>1, <2>2, <2>3
  <2>5. candidates[other] # NoCandidate
    BY <1>2, <1>4, <2>3, <2>4
  <2>6. PICK q \in Beyond(other) : candidates[other] = AsCandidate(q) /\ Precedes(q, p)
    BY <1>2, <1>4, <2>3, <2>4, <2>5
  <2>7. Precedes(candidates[layer], candidates[other])
    BY <1>2, <2>3, <2>5 DEF IsWinner
  <2>8. Precedes(o, q)
    BY <1>8, <2>6, <2>7 DEF Precedes, AsCandidate
  <2>9. q \in occurrences
    BY <1>5, <2>6
  <2>10. ~(o.start = p.start /\ o.order = p.order)
    BY <1>7, <1>9, <1>12, <2>1
  <2> QED
    BY <1>6, <1>9, <2>1, <2>6, <2>8, <2>9, <2>10 DEF Precedes, LF!Precedes
<1>13. LF!IsNext(o)
  BY <1>9, <1>11, <1>12 DEF LF!IsNext
<1>14. candidates[layer].end = o.end
  BY <1>8 DEF AsCandidate
<1> QED
  BY <1>6, <1>9, <1>10, <1>13, <1>14

\* When no layer has a candidate, the entity has nothing more to report.
LEMMA DoneLeavesNothing ==
    ASSUME SearchesAreSound, ScanInv, ShardDone, NEW o \in occurrences, o.entity = entity
    PROVE  ~(o.start >= cursor)
<1>1. /\ bank \in EntityBanks /\ haystack \in Haystacks /\ occurrences = AllOccurrences(bank, haystack)
      /\ cuts \in SUBSET CutPoints(bank) /\ entity \in DOMAIN bank /\ cursor \in 0..Len(haystack)
      /\ candidates = SearchAll(entity, cursor)
  BY DEF ScanInv, Frame
<1>2. o.order \in DOMAIN bank[entity]
  BY <1>1, OccurrenceTypes
<1>3. PICK layer \in Layers(bank[entity], cuts) : o.order \in layer.orders
  BY <1>1, <1>2, LayersCover
<1>4. Search(bank, haystack, occurrences, entity, layer, cursor) = NoCandidate
  BY <1>1 DEF ShardDone, SearchAll
<1>5. LayerAhead(occurrences, entity, layer, cursor) = {}
  BY <1>1, <1>4, SearchFinds
<1> QED
  BY <1>3, <1>5 DEF LayerAhead

-----------------------------------------------------------------------------
(* The invariant is inductive.                                             *)

LEMMA InitScanInv ==
    ASSUME SearchesAreSound, MergeInit
    PROVE  ScanInv /\ LF!Init
<1>1. bank \in Seq(Seq(Pattern)) /\ bank # <<>> /\ haystack \in Seq(Cells)
  BY ScanAssumption DEF MergeInit
<1>2. 1 \in DOMAIN bank /\ 0 \in 0..Len(haystack)
  BY <1>1
<1>3. Frame
  BY <1>2 DEF MergeInit, Frame
<1>4. \A o \in occurrences : ~(o.entity < entity)
  <2> SUFFICES ASSUME NEW o \in occurrences PROVE ~(o.entity < entity)
    OBVIOUS
  <2>1. o.entity \in DOMAIN bank
    BY OccurrenceTypes DEF MergeInit
  <2>2. o.entity \in 1..Len(bank)
    BY <1>1, <2>1
  <2> QED
    BY <1>1, <2>2 DEF MergeInit
<1>5. Progress
  BY <1>4 DEF MergeInit, Progress
<1> QED
  BY <1>3, <1>5 DEF MergeInit, ScanInv, LF!Init

\* Taking the winner reports the entity's next match, and the candidates stay current.
LEMMA TakeStep ==
    ASSUME SearchesAreSound, ScanInv, Take
    PROVE  ScanInv' /\ LF!Report
<1>1. PICK layer \in DOMAIN candidates :
          /\ IsWinner(layer)
          /\ buffer' = buffer \cup {Match(candidates[layer])}
          /\ cursor' = candidates[layer].end
          /\ candidates' = Refreshed(candidates[layer].end)
  BY DEF Take
<1>2. /\ status = "scanning" /\ Cardinality(buffer) < MaxMatches
      /\ UNCHANGED <<bank, haystack, occurrences, cuts, entity, status>>
  BY DEF Take
<1>3. PICK o \in occurrences : /\ LF!IsNext(o)
                               /\ o = Match(candidates[layer])
                               /\ o.entity = entity
                               /\ o.end = candidates[layer].end
                               /\ o.end \in 0..Len(haystack)
                               /\ cursor <= o.start /\ o.start < o.end
  BY <1>1, <1>2, WinnerIsNext
<1>4. cursor' = o.end /\ buffer' = buffer \cup {o} /\ candidates' = Refreshed(o.end)
  BY <1>1, <1>3
<1>5. LF!Report
  BY <1>2, <1>3, <1>4, SameCardinality DEF LF!Report
<1>6. /\ bank \in EntityBanks /\ haystack \in Haystacks /\ occurrences = AllOccurrences(bank, haystack)
      /\ cuts \in SUBSET CutPoints(bank) /\ entity \in DOMAIN bank /\ cursor \in 0..Len(haystack)
      /\ candidates = SearchAll(entity, cursor)
  BY DEF ScanInv, Frame
<1>7. o.start \in Nat /\ cursor <= o.end
  <2>1. o.start \in Nat
    BY <1>6, OccurrenceTypes
  <2> QED
    BY <1>3, <1>6, <2>1
<1>8. Frame'
  BY <1>2, <1>3, <1>4 DEF ScanInv, Frame
<1>9. candidates' = SearchAll(entity, o.end)
  <2>1. DOMAIN candidates = Layers(bank[entity], cuts)
    BY <1>6 DEF SearchAll
  <2>2. ASSUME NEW l \in Layers(bank[entity], cuts)
        PROVE  Refreshed(o.end)[l] = SearchAll(entity, o.end)[l]
    <3>1. candidates[l] = Search(bank, haystack, occurrences, entity, l, cursor)
      BY <1>6 DEF SearchAll
    <3>2. SearchAll(entity, o.end)[l] = Search(bank, haystack, occurrences, entity, l, o.end)
      BY DEF SearchAll
    <3>3. ~PrecedesCursor(candidates[l], o.end) => candidates[l] = SearchAll(entity, o.end)[l]
      BY <1>3, <1>6, <1>7, <3>1, <3>2, CandidateStaysCurrent
    <3> QED
      BY <2>1, <3>3 DEF Refreshed
  <2>3. Refreshed(o.end) = [l \in Layers(bank[entity], cuts) |-> Refreshed(o.end)[l]]
    BY <2>1 DEF Refreshed
  <2>4. SearchAll(entity, o.end) = [l \in Layers(bank[entity], cuts) |-> SearchAll(entity, o.end)[l]]
    BY DEF SearchAll
  <2> QED
    BY <1>4, <2>2, <2>3, <2>4
<1>10. (candidates = SearchAll(entity, cursor))'
  BY <1>2, <1>4, <1>9 DEF SearchAll
<1>11. Progress'
  <2>1. Progress
    BY <1>2 DEF ScanInv
  <2>2. \A m \in occurrences : m.end \in Nat
    BY <1>6, OccurrenceTypes
  <2>3. buffer \subseteq occurrences
    BY DEF ScanInv
  <2>4. \A m \in buffer' : m.entity < entity \/ (m.entity = entity /\ m.end <= o.end)
    BY <1>3, <1>4, <1>6, <1>7, <2>1, <2>2, <2>3 DEF Progress
  <2> QED
    BY <1>2, <1>3, <1>4, <2>1, <2>4 DEF Progress
<1>12. (buffer \subseteq occurrences)'
  BY <1>2, <1>3, <1>4 DEF ScanInv
<1> QED
  BY <1>5, <1>8, <1>10, <1>11, <1>12 DEF ScanInv

\* The limit is met when there is one more match, and nothing is reported then.
LEMMA LimitExceededStep ==
    ASSUME SearchesAreSound, ScanInv, LimitExceeded
    PROVE  ScanInv' /\ LF!Refuse
<1>1. ScanInv'
  BY DEF LimitExceeded, ScanInv, Frame, SearchAll
<1>2. \E o \in occurrences : LF!IsNext(o)
  BY WinnerIsNext DEF LimitExceeded
<1> QED
  BY <1>1, <1>2, SameCardinality DEF LimitExceeded, LF!Refuse

\* A shard that is done hands on to the next; nothing the caller sees changes.
LEMMA NextShardStep ==
    ASSUME SearchesAreSound, ScanInv, NextShard
    PROVE  ScanInv' /\ UNCHANGED LF!vars
<1>1. /\ status = "scanning" /\ ShardDone /\ entity < Len(bank) /\ entity' = entity + 1 /\ cursor' = 0
      /\ candidates' = SearchAll(entity + 1, 0)
      /\ UNCHANGED <<bank, haystack, occurrences, cuts, buffer, status>>
  BY DEF NextShard
<1>2. /\ bank \in EntityBanks /\ haystack \in Haystacks /\ occurrences = AllOccurrences(bank, haystack)
      /\ entity \in DOMAIN bank /\ cursor \in Nat /\ buffer \subseteq occurrences
  BY DEF ScanInv, Frame
<1>3. bank \in Seq(Seq(Pattern)) /\ haystack \in Seq(Cells)
  BY <1>2, ScanAssumption
<1>4. entity \in Nat /\ entity + 1 \in DOMAIN bank /\ 0 \in 0..Len(haystack)
  BY <1>1, <1>2, <1>3
<1>5. Frame'
  BY <1>1, <1>4 DEF ScanInv, Frame
<1>6. (candidates = SearchAll(entity, cursor))'
  BY <1>1 DEF SearchAll
<1>7. Progress
  BY <1>1 DEF ScanInv
<1>8. \A o \in occurrences : o.entity \in Nat /\ o.start \in Nat /\ o.end \in Nat
  BY <1>2, OccurrenceTypes
<1>9. ASSUME NEW o \in occurrences, o.entity < entity + 1
      PROVE  \E m \in buffer : m.entity = o.entity /\ ~(m.end <= o.start)
  <2>1. CASE o.entity < entity
    BY <1>7, <2>1 DEF Progress
  <2>2. CASE o.entity = entity
    <3>1. ~(o.start >= cursor)
      BY <1>1, <2>2, DoneLeavesNothing
    <3>2. cursor # 0
      BY <1>8, <3>1
    <3> QED
      BY <1>2, <1>7, <1>8, <2>2, <3>1, <3>2 DEF Progress
  <2> QED
    BY <1>4, <1>8, <1>9, <2>1, <2>2
<1>10. \A m \in buffer : m.entity < entity + 1
  BY <1>2, <1>4, <1>7, <1>8 DEF Progress
<1>11. Progress'
  BY <1>1, <1>9, <1>10 DEF Progress
<1> QED
  BY <1>1, <1>2, <1>5, <1>6, <1>11 DEF ScanInv, LF!vars

\* When the last shard is done, no entity has anything left to report.
LEMMA SortStep ==
    ASSUME SearchesAreSound, ScanInv, Sort
    PROVE  ScanInv' /\ LF!Complete
<1>1. /\ status = "scanning" /\ ShardDone /\ entity = Len(bank) /\ status' = "complete"
      /\ UNCHANGED <<bank, haystack, occurrences, cuts, entity, cursor, candidates, buffer>>
  BY DEF Sort
<1>2. /\ bank \in EntityBanks /\ haystack \in Haystacks /\ occurrences = AllOccurrences(bank, haystack)
      /\ cursor \in Nat /\ buffer \subseteq occurrences /\ Progress
  BY <1>1 DEF ScanInv, Frame
<1>3. bank \in Seq(Seq(Pattern))
  BY <1>2, ScanAssumption
<1>4. ASSUME NEW o \in occurrences
      PROVE  LF!Ahead(o.entity) = {}
  <2> SUFFICES ASSUME NEW p \in LF!Ahead(o.entity) PROVE FALSE
    OBVIOUS
  <2>1. p \in occurrences /\ \A m \in buffer : m.entity = p.entity => m.end <= p.start
    BY DEF LF!Ahead
  <2>2. p.entity \in 1..Len(bank) /\ p.start \in Nat
    BY <1>2, <1>3, <2>1, OccurrenceTypes
  <2>3. CASE p.entity < entity
    BY <1>2, <2>1, <2>3 DEF Progress
  <2>4. CASE p.entity = entity
    <3>1. ~(p.start >= cursor)
      BY <1>1, <2>1, <2>4, DoneLeavesNothing
    <3>2. p \in LF!Ahead(entity)
      BY <2>1, <2>4 DEF LF!Ahead
    <3> QED
      BY <1>1, <2>1, <2>4, <3>1, <3>2, AheadIsBeyondCursor
  <2> QED
    BY <1>1, <1>3, <2>2, <2>3, <2>4
<1>5. ScanInv'
  BY <1>1 DEF ScanInv, Frame, SearchAll
<1> QED
  BY <1>1, <1>4, <1>5 DEF LF!Complete

LEMMA MergeStep ==
    ASSUME SearchesAreSound, ScanInv, [MergeNext]_mergeVars
    PROVE  ScanInv' /\ [LF!Next]_LF!vars
<1>1. CASE Take
  BY <1>1, TakeStep DEF LF!Next
<1>2. CASE LimitExceeded
  BY <1>2, LimitExceededStep DEF LF!Next
<1>3. CASE NextShard
  BY <1>3, NextShardStep
<1>4. CASE Sort
  BY <1>4, SortStep DEF LF!Next
<1>5. CASE UNCHANGED mergeVars
  <2>1. ScanInv'
    BY <1>5 DEF mergeVars, ScanInv, Frame, Progress, SearchAll
  <2> QED
    BY <1>5, <2>1 DEF mergeVars, LF!vars
<1> QED
  BY <1>1, <1>2, <1>3, <1>4, <1>5 DEF MergeNext

-----------------------------------------------------------------------------
(* The theorems.                                                           *)

\* A losing candidate that scan_layered_shard keeps is never stale: at every
\* cursor it is what a search from there would find.
THEOREM KeptCandidatesAreCurrent ==
    ASSUME SearchesAreSound
    PROVE  MergeSpec => []CandidatesAreCurrent
<1>1. MergeInit => ScanInv
  BY InitScanInv
<1>2. ScanInv /\ [MergeNext]_mergeVars => ScanInv'
  BY MergeStep
<1>3. ScanInv => CandidatesAreCurrent
  BY DEF ScanInv, CandidatesAreCurrent
<1> QED
  BY <1>1, <1>2, <1>3, PTL DEF MergeSpec

\* The cursor stays in the text, only occurrences are pushed, and every layer has
\* a candidate or none.
THEOREM ScanTypes ==
    ASSUME SearchesAreSound
    PROVE  MergeSpec => []MergeTypeOK
<1>1. MergeInit => ScanInv
  BY InitScanInv
<1>2. ScanInv /\ [MergeNext]_mergeVars => ScanInv'
  BY MergeStep
<1>3. ASSUME ScanInv
      PROVE  MergeTypeOK
  <2>1. /\ bank \in EntityBanks /\ haystack \in Haystacks /\ occurrences = AllOccurrences(bank, haystack)
        /\ cuts \in SUBSET CutPoints(bank) /\ entity \in DOMAIN bank /\ cursor \in 0..Len(haystack)
        /\ candidates = SearchAll(entity, cursor)
        /\ buffer \subseteq occurrences /\ status \in {"scanning", "complete", "failed"}
    BY <1>3 DEF ScanInv, Frame
  <2>2. MatchesAdvance(occurrences, haystack)
    BY <2>1 DEF SearchesAreSound
  <2>3. haystack \in Seq(Cells)
    BY <2>1, ScanAssumption
  <2>4. ASSUME NEW layer \in DOMAIN candidates, candidates[layer] # NoCandidate
        PROVE  candidates[layer] \in Candidate
    <3>1. layer \in Layers(bank[entity], cuts)
          /\ candidates[layer] = Search(bank, haystack, occurrences, entity, layer, cursor)
      BY <2>1 DEF SearchAll
    <3>2. PICK o \in LayerAhead(occurrences, entity, layer, cursor) : candidates[layer] = AsCandidate(o)
      BY <2>1, <2>4, <3>1, SearchFinds
    <3>3. o \in occurrences
      BY DEF LayerAhead
    <3>4. o.order \in Nat /\ o.start \in Nat /\ o.end \in Nat
      BY <2>1, <2>3, <3>3, OccurrenceTypes
    <3> QED
      BY <3>2, <3>4 DEF AsCandidate, Candidate
  <2>5. DOMAIN candidates = Layers(bank[entity], cuts)
    BY <2>1 DEF SearchAll
  <2> QED
    BY <2>1, <2>2, <2>4, <2>5 DEF MergeTypeOK
<1> QED
  BY <1>1, <1>2, <1>3, PTL DEF MergeSpec

\* Merging the layers by start and then pattern order reports what one
\* leftmost-first regex over all of an entity's patterns would.
THEOREM MergeIsLeftmostFirst ==
    ASSUME SearchesAreSound
    PROVE  MergeSpec => ImplementsLeftmostFirst
<1>1. MergeInit => ScanInv /\ LF!Init
  BY InitScanInv
<1>2. ScanInv /\ [MergeNext]_mergeVars => ScanInv' /\ [LF!Next]_LF!vars
  BY MergeStep
<1> QED
  BY <1>1, <1>2, PTL DEF MergeSpec, ImplementsLeftmostFirst, LF!Spec


LEMMA SlotsFinite ==
    ASSUME NEW T \in SUBSET Slots
    PROVE  IsFiniteSet(T) /\ Cardinality(T) \in Nat
<1>1. IsFiniteSet(Slots)
    BY FS_Interval, LimitAssumption DEF Slots
<1> QED
    BY <1>1, FS_Subset, FS_CardinalityType

-----------------------------------------------------------------------------
LEMMA InitTypes == LimiterInit => LimiterTypeOK
<1>1. 0 \in Slots /\ 0 \in 0..MaxSearches
    BY LimitAssumption DEF Slots
<1>2. NoScan \in Scans
    BY <1>1, SMT DEF NoScan, Scans, Stages
<1> QED
    BY <1>2, SMT DEF LimiterInit, LimiterTypeOK, NoScan

\* A record of a scan, one field of it changed.
LEMMA ScanFields ==
    ASSUME NEW r \in Scans
    PROVE  /\ \A g \in Stages : [r EXCEPT !.stage = g] \in Scans
                               /\ [r EXCEPT !.stage = g].stage = g
                               /\ [r EXCEPT !.stage = g].bank = r.bank
                               /\ [r EXCEPT !.stage = g].slot = r.slot
           /\ r.slot \in Slots /\ r.bank \in Banks \cup {Nobody} /\ r.left \in 0..MaxSearches
           /\ r.stage \in Stages
    BY SMT DEF Scans

LEMMA TypesStep == LimiterTypeOK /\ [LimiterNext]_limiterVars => LimiterTypeOK'
<1> SUFFICES ASSUME LimiterTypeOK, [LimiterNext]_limiterVars
             PROVE  LimiterTypeOK'
    OBVIOUS
<1> USE DEF LimiterTypeOK
<1>1. CASE UNCHANGED limiterVars
    BY <1>1 DEF limiterVars
<1>2. CASE LimiterNext
  <2> PICK t \in Threads : \/ \E b \in Banks : Enter(t, b)
                           \/ ScanStep(t) \/ WakeUnasked(t) \/ Panic(t)
    BY <1>2 DEF LimiterNext
  <2>0. scan[t] \in Scans
    OBVIOUS
  \* A step moves one thread (Notify: two), and the rest is sets of slots.
  <2>1. ASSUME NEW r \in Scans, scan' = [scan EXCEPT ![t] = r], r.stage # "idle" => r.bank \in Banks
        PROVE  /\ scan' \in [Threads -> Scans]
               /\ \A u \in Threads : scan'[u].stage # "idle" => scan'[u].bank \in Banks
    <3>1. scan' \in [Threads -> Scans]
        BY <2>1
    <3>2. \A u \in Threads : scan'[u] = IF u = t THEN r ELSE scan[u]
        BY <2>1
    <3> QED
        BY <3>1, <3>2, <2>1
  <2>2. ASSUME NEW g \in Stages, scan' = [scan EXCEPT ![t] = [@ EXCEPT !.stage = g]],
               scan[t].stage # "idle"
        PROVE  /\ scan' \in [Threads -> Scans]
               /\ \A u \in Threads : scan'[u].stage # "idle" => scan'[u].bank \in Banks
    <3> DEFINE r == [scan[t] EXCEPT !.stage = g]
    <3>1. r \in Scans /\ r.bank = scan[t].bank
        BY <2>0, ScanFields
    <3>2. scan' = [scan EXCEPT ![t] = r]
        BY <2>2
    <3> HIDE DEF r
    <3> QED
        BY <3>1, <3>2, <2>1, <2>2
  <2>3. ASSUME NEW b \in Banks, Enter(t, b)
        PROVE  LimiterTypeOK'
    <3> DEFINE r == [stage |-> "asking", bank |-> b, slot |-> 0, left |-> MaxSearches]
    <3>1. r \in Scans
        BY LimitAssumption DEF Scans, Stages, Slots
    <3>2. scan' = [scan EXCEPT ![t] = r]
        BY <2>3 DEF Enter
    <3>3. r.bank \in Banks
        OBVIOUS
    <3> HIDE DEF r
    <3> QED
        BY <3>1, <3>2, <3>3, <2>1, <2>3 DEF Enter
  <2>4. CASE Acquire(t)
    <3> PICK s \in FreeSlots(scan[t].bank) :
                /\ inUse' = [inUse EXCEPT ![scan[t].bank] = @ \cup {s}]
                /\ active' = [active EXCEPT ![scan[t].bank] = @ + 1]
                /\ scan' = [scan EXCEPT ![t] = [stage |-> "holding", bank |-> scan[t].bank,
                                                slot |-> s, left |-> scan[t].left]]
        BY <2>4 DEF Acquire
    <3> DEFINE r == [stage |-> "holding", bank |-> scan[t].bank, slot |-> s, left |-> scan[t].left]
    <3>0. s \in Slots /\ scan[t].bank \in Banks
        BY <2>4 DEF FreeSlots, Acquire
    <3>1. r \in Scans /\ r.bank = scan[t].bank
        BY <2>0, <3>0 DEF Scans, Stages
    <3>2. scan' = [scan EXCEPT ![t] = r]
        OBVIOUS
    <3> HIDE DEF r
    <3> QED
        BY <3>0, <3>1, <3>2, <2>1, <2>4 DEF Acquire
  <2>5. CASE Sleep(t)
    BY <2>2, <2>5 DEF Sleep, Stages
  <2>6. CASE WakeUnasked(t)
    BY <2>2, <2>6 DEF WakeUnasked, Stages
  <2>7. CASE LockCache(t)
    <3> DEFINE r == [stage |-> "searching", bank |-> scan[t].bank, slot |-> scan[t].slot,
                   left |-> scan[t].left - 1]
    <3>0. scan[t].bank \in Banks /\ scan[t].left > 0
        BY <2>7 DEF LockCache
    <3>1. r \in Scans /\ r.bank = scan[t].bank
      <4>1. scan[t].slot \in Slots /\ scan[t].left \in 0..MaxSearches
        BY <2>0, ScanFields
      <4>2. scan[t].left - 1 \in 0..MaxSearches
        BY <4>1, <3>0, LimitAssumption
      <4> QED
        BY <4>1, <4>2, <3>0 DEF Scans, Stages
    <3>2. scan' = [scan EXCEPT ![t] = r]
        BY <2>7 DEF LockCache
    <3> HIDE DEF r
    <3> QED
        BY <3>0, <3>1, <3>2, <2>1, <2>7 DEF LockCache
  <2>8. CASE UnlockCache(t)
    BY <2>2, <2>8 DEF UnlockCache, Stages
  <2>9. CASE PanicInSearch(t)
    <3>1. scan[t].slot \in Slots
        BY <2>0, ScanFields
    <3> QED
        BY <3>1, <2>2, <2>9 DEF PanicInSearch, Stages
  <2>10. CASE PanicOutside(t)
    BY <2>2, <2>10 DEF PanicOutside, Stages
  <2>11. CASE GiveBack(t)
    <3>1. scan[t].bank \in Banks
        BY <2>11 DEF GiveBack
    <3>2. active' \in [Banks -> Nat] /\ inUse' \in [Banks -> SUBSET Slots]
        BY <3>1, <2>11 DEF GiveBack
    <3> QED
        BY <3>2, <2>2, <2>11 DEF GiveBack, Stages
  <2>12. CASE Notify(t)
    <3>1. NoScan \in Scans /\ NoScan.stage = "idle"
        BY LimitAssumption DEF NoScan, Scans, Stages, Slots
    <3>2. CASE scan' = [scan EXCEPT ![t] = NoScan]
        BY <3>1, <3>2, <2>1, <2>12 DEF Notify
    <3>3. ASSUME NEW u \in At(scan[t].bank, {"asleep"}),
                 scan' = [scan EXCEPT ![t] = NoScan, ![u] = [scan[u] EXCEPT !.stage = "woken"]]
          PROVE  LimiterTypeOK'
      <4> DEFINE r == [scan[u] EXCEPT !.stage = "woken"]
      <4>1. u \in Threads /\ scan[u].stage = "asleep" /\ u # t
        BY <2>12 DEF At, Notify
      <4>2. r \in Scans /\ r.bank = scan[u].bank
      <5>1. scan[u] \in Scans
        BY <4>1
      <5> QED
        BY <5>1, ScanFields DEF Stages
      <4>3. scan' = [[scan EXCEPT ![t] = NoScan] EXCEPT ![u] = r]
        BY <3>3, <4>1
      <4> HIDE DEF r
      <4>4. scan' \in [Threads -> Scans]
        BY <4>2, <4>3, <3>1
      <4>5. \A v \in Threads : scan'[v] = IF v = u THEN r ELSE IF v = t THEN NoScan ELSE scan[v]
        BY <4>3, <4>1
      <4> QED
        BY <4>1, <4>2, <4>4, <4>5, <3>1, <2>12 DEF Notify
    <3> QED
        BY <3>2, <3>3, <2>12 DEF Notify
  <2> QED
    BY <2>3, <2>4, <2>5, <2>6, <2>7, <2>8, <2>9, <2>10, <2>11, <2>12 DEF ScanStep, Panic
<1> QED
    BY <1>1, <1>2

\* Every scan is in one of its stages, with a bank and a slot that exist
\* (engine.rs 44-120).
THEOREM LimiterTypes == LimiterSpec => []LimiterTypeOK
<1> QED
    BY InitTypes, TypesStep, PTL DEF LimiterSpec

-----------------------------------------------------------------------------
HolderStages == {"holding", "searching", "unwinding"}

\* What one bank's part of PermitsAreExact says.
PermitsOf(b) ==
    /\ active[b] = Cardinality(inUse[b])
    /\ inUse[b] = {scan[t].slot : t \in Holders(b)}
    /\ \A t, u \in Holders(b) : scan[t].slot = scan[u].slot => t = u

\* Permits are untouched when every thread is either no holder, before and
\* after, or a holder of one slot throughout.
LEMMA SameHolders ==
    ASSUME NEW b \in Banks, PermitsOf(b), active'[b] = active[b], inUse'[b] = inUse[b],
           \A u \in Threads :
                \/ scan[u].stage \notin HolderStages /\ scan'[u].stage \notin HolderStages
                \/ /\ scan[u].stage \in HolderStages /\ scan'[u].stage \in HolderStages
                   /\ scan'[u].bank = scan[u].bank /\ scan'[u].slot = scan[u].slot
    PROVE  PermitsOf(b)'
<1>1. Holders(b)' = Holders(b)
    BY SMT DEF Holders, At, HolderStages
<1>2. \A u \in Holders(b) : scan'[u].slot = scan[u].slot
    BY SMT DEF Holders, At, HolderStages
<1>3. {scan'[u].slot : u \in Holders(b)'} = {scan[u].slot : u \in Holders(b)}
    BY <1>1, <1>2
<1>4. \A u, v \in Holders(b)' : scan'[u].slot = scan'[v].slot => u = v
    BY <1>1, <1>2 DEF PermitsOf
<1> QED
    BY <1>3, <1>4 DEF PermitsOf

LEMMA PermitsStep ==
    LimiterTypeOK /\ PermitsAreExact /\ [LimiterNext]_limiterVars => PermitsAreExact'
<1> SUFFICES ASSUME LimiterTypeOK, PermitsAreExact, [LimiterNext]_limiterVars, NEW b \in Banks
             PROVE  PermitsOf(b)'
    BY DEF PermitsAreExact, PermitsOf
<1>0. PermitsOf(b)
    BY DEF PermitsAreExact, PermitsOf
<1>1. CASE UNCHANGED limiterVars
    BY <1>0, <1>1 DEF limiterVars, PermitsOf, Holders, At
<1>2. CASE LimiterNext
  <2> PICK t \in Threads : \/ \E c \in Banks : Enter(t, c)
                           \/ ScanStep(t) \/ WakeUnasked(t) \/ Panic(t)
    BY <1>2 DEF LimiterNext
  <2>0. /\ scan \in [Threads -> Scans] /\ scan[t] \in Scans
        /\ active \in [Banks -> Nat] /\ inUse \in [Banks -> SUBSET Slots]
        /\ \A u \in Threads : scan[u].stage # "idle" => scan[u].bank \in Banks
    BY DEF LimiterTypeOK
  \* Steps of one thread that neither take nor give back a permit.
  <2>1. ASSUME NEW r, scan' = [scan EXCEPT ![t] = r], UNCHANGED <<active, inUse>>,
               \/ scan[t].stage \notin HolderStages /\ r.stage \notin HolderStages
               \/ /\ scan[t].stage \in HolderStages /\ r.stage \in HolderStages
                  /\ r.bank = scan[t].bank /\ r.slot = scan[t].slot
        PROVE  PermitsOf(b)'
    <3>1. \A u \in Threads : scan'[u] = IF u = t THEN r ELSE scan[u]
        BY <2>1, <2>0
    <3> QED
        BY <3>1, <2>1, <1>0, SameHolders
  <2>2. ASSUME NEW g \in Stages, scan' = [scan EXCEPT ![t] = [@ EXCEPT !.stage = g]],
               UNCHANGED <<active, inUse>>,
               scan[t].stage \in HolderStages <=> g \in HolderStages
        PROVE  PermitsOf(b)'
    <3> DEFINE r == [scan[t] EXCEPT !.stage = g]
    <3>1. r.stage = g /\ r.bank = scan[t].bank /\ r.slot = scan[t].slot
        BY <2>0, ScanFields
    <3>2. scan' = [scan EXCEPT ![t] = r]
        BY <2>2
    <3> HIDE DEF r
    <3> QED
        BY <3>1, <3>2, <2>1, <2>2
  <2>3. ASSUME NEW c \in Banks, Enter(t, c)
        PROVE  PermitsOf(b)'
    <3> DEFINE r == [stage |-> "asking", bank |-> c, slot |-> 0, left |-> MaxSearches]
    <3>1. r.stage \notin HolderStages /\ scan[t].stage \notin HolderStages
        BY <2>3 DEF Enter, HolderStages
    <3>2. scan' = [scan EXCEPT ![t] = r]
        BY <2>3 DEF Enter
    <3> HIDE DEF r
    <3> QED
        BY <3>1, <3>2, <2>1, <2>3 DEF Enter
  <2>4. CASE Acquire(t)
    <3> DEFINE c == scan[t].bank
    <3> PICK s \in FreeSlots(c) :
                /\ inUse' = [inUse EXCEPT ![c] = @ \cup {s}]
                /\ active' = [active EXCEPT ![c] = @ + 1]
                /\ scan' = [scan EXCEPT ![t] = [stage |-> "holding", bank |-> c,
                                                slot |-> s, left |-> scan[t].left]]
        BY <2>4 DEF Acquire
    <3>1. /\ \A u \in Threads \ {t} : scan'[u] = scan[u]
          /\ scan'[t].stage = "holding" /\ scan'[t].bank = c /\ scan'[t].slot = s
          /\ scan[t].stage \notin HolderStages
        BY <2>0, <2>4 DEF Acquire, HolderStages
    <3>2. CASE b # c
      <4>1. Holders(b)' = Holders(b) /\ \A u \in Holders(b) : scan'[u] = scan[u]
        BY <3>1, <3>2 DEF Holders, At, HolderStages
      <4>2. active'[b] = active[b] /\ inUse'[b] = inUse[b]
        BY <3>2, <2>0
      <4>3. {scan'[u].slot : u \in Holders(b)'} = {scan[u].slot : u \in Holders(b)}
        BY <4>1
      <4>4. \A u, v \in Holders(b)' : scan'[u].slot = scan'[v].slot => u = v
        BY <4>1, <1>0 DEF PermitsOf
      <4> QED
        BY <4>2, <4>3, <4>4, <1>0 DEF PermitsOf
    <3>3. CASE b = c
      <4>1. s \in Slots /\ s \notin inUse[b]
        BY <3>3 DEF FreeSlots
      <4>2. inUse'[b] = inUse[b] \cup {s} /\ active'[b] = active[b] + 1
        BY <3>3, <2>0
      <4>3. Cardinality(inUse[b] \cup {s}) = Cardinality(inUse[b]) + 1
        BY <4>1, <2>0, SlotsFinite, FS_AddElement
      <4>4. Holders(b)' = Holders(b) \cup {t} /\ t \notin Holders(b)
        BY <3>1, <3>3 DEF Holders, At, HolderStages
      <4>5. \A u \in Holders(b) : scan'[u].slot = scan[u].slot /\ scan[u].slot \in inUse[b]
        BY <3>1, <4>4, <1>0 DEF PermitsOf, Holders, At
      <4>6. inUse'[b] = {scan'[u].slot : u \in Holders(b)'}
        BY <4>2, <4>4, <4>5, <3>1, <1>0 DEF PermitsOf
      <4>7. \A u, v \in Holders(b)' : scan'[u].slot = scan'[v].slot => u = v
        BY <4>1, <4>4, <4>5, <3>1, <1>0 DEF PermitsOf
      <4> QED
        BY <4>2, <4>3, <4>6, <4>7, <1>0 DEF PermitsOf
    <3> QED
        BY <3>2, <3>3
  <2>5. CASE Sleep(t)
    BY <2>2, <2>5 DEF Sleep, Stages, HolderStages
  <2>6. CASE WakeUnasked(t)
    BY <2>2, <2>6 DEF WakeUnasked, Stages, HolderStages
  <2>7. CASE LockCache(t)
    <3> DEFINE r == [stage |-> "searching", bank |-> scan[t].bank, slot |-> scan[t].slot,
                   left |-> scan[t].left - 1]
    <3>1. /\ r.stage \in HolderStages /\ scan[t].stage \in HolderStages
          /\ r.bank = scan[t].bank /\ r.slot = scan[t].slot
        BY <2>7 DEF LockCache, HolderStages
    <3>2. scan' = [scan EXCEPT ![t] = r]
        BY <2>7 DEF LockCache
    <3> HIDE DEF r
    <3> QED
        BY <3>1, <3>2, <2>1, <2>7 DEF LockCache
  <2>8. CASE UnlockCache(t)
    BY <2>2, <2>8 DEF UnlockCache, Stages, HolderStages
  <2>9. CASE PanicInSearch(t)
    BY <2>2, <2>9 DEF PanicInSearch, Stages, HolderStages
  <2>10. CASE PanicOutside(t)
    BY <2>2, <2>10 DEF PanicOutside, Stages, HolderStages
  <2>11. CASE GiveBack(t)
    <3> DEFINE c == scan[t].bank
               s == scan[t].slot
    <3>0. c \in Banks /\ scan[t].stage \in HolderStages /\ s \in Slots
        BY <2>0, <2>11, ScanFields DEF GiveBack, HolderStages
    <3>1. /\ \A u \in Threads \ {t} : scan'[u] = scan[u]
          /\ scan'[t].stage = "leaving"
        BY <2>0, <2>11, ScanFields DEF GiveBack, Stages
    <3>2. CASE b # c
      <4>1. Holders(b)' = Holders(b) /\ \A u \in Holders(b) : scan'[u] = scan[u]
        BY <3>1, <3>2 DEF Holders, At, HolderStages
      <4>2. active'[b] = active[b] /\ inUse'[b] = inUse[b]
        BY <3>2, <2>0, <2>11 DEF GiveBack
      <4> QED
        BY <4>1, <4>2, <1>0 DEF PermitsOf
    <3>3. CASE b = c
      <4>1. t \in Holders(b)
        BY <3>0, <3>3 DEF Holders, At, HolderStages
      <4>2. s \in inUse[b]
        BY <4>1, <1>0 DEF PermitsOf
      <4>3. /\ Cardinality(inUse[b] \ {s}) = Cardinality(inUse[b]) - 1
            /\ Cardinality(inUse[b]) \in Nat /\ Cardinality(inUse[b] \ {s}) \in Nat
        BY <4>2, <2>0, SlotsFinite, FS_RemoveElement
      <4>4. inUse'[b] = inUse[b] \ {s} /\ active'[b] = active[b] - 1
        BY <4>3, <3>3, <2>0, <2>11, <1>0 DEF GiveBack, PermitsOf
      <4>5. Holders(b)' = Holders(b) \ {t}
        BY <3>1, <3>3 DEF Holders, At, HolderStages
      <4>6. \A u \in Holders(b)' : scan'[u].slot = scan[u].slot
        BY <3>1, <4>5 DEF Holders, At
      <4>7. inUse'[b] = {scan'[u].slot : u \in Holders(b)'}
        BY <4>1, <4>4, <4>5, <4>6, <1>0 DEF PermitsOf
      <4>8. \A u, v \in Holders(b)' : scan'[u].slot = scan'[v].slot => u = v
        BY <4>5, <4>6, <1>0 DEF PermitsOf
      <4> QED
        BY <4>3, <4>4, <4>7, <4>8, <1>0 DEF PermitsOf
    <3> QED
        BY <3>2, <3>3
  <2>12. CASE Notify(t)
    <3>1. CASE scan' = [scan EXCEPT ![t] = NoScan]
        BY <3>1, <2>1, <2>12 DEF Notify, NoScan, HolderStages
    <3>2. ASSUME NEW u \in At(scan[t].bank, {"asleep"}),
                 scan' = [scan EXCEPT ![t] = NoScan, ![u] = [scan[u] EXCEPT !.stage = "woken"]]
          PROVE  PermitsOf(b)'
      <4>1. u \in Threads /\ scan[u].stage = "asleep" /\ scan[t].stage = "leaving"
        BY <2>12 DEF At, Notify
      <4>2. /\ scan'[u].stage = "woken" /\ scan'[t].stage = "idle"
            /\ \A v \in Threads \ {t, u} : scan'[v] = scan[v]
        <5>1. scan[u] \in Scans
          BY <2>0, <4>1
        <5>2. [scan[u] EXCEPT !.stage = "woken"].stage = "woken"
          BY <5>1, ScanFields DEF Stages
        <5> QED
          BY <5>2, <3>2, <4>1, <2>0 DEF NoScan
      <4> QED
        BY <4>1, <4>2, <1>0, <2>12, SameHolders DEF Notify, HolderStages
    <3> QED
        BY <3>1, <3>2, <2>12 DEF Notify
  <2> QED
    BY <2>3, <2>4, <2>5, <2>6, <2>7, <2>8, <2>9, <2>10, <2>11, <2>12 DEF ScanStep, Panic
<1> QED
    BY <1>1, <1>2

LEMMA InitPermits == LimiterInit => PermitsAreExact
<1> SUFFICES ASSUME LimiterInit, NEW b \in Banks PROVE PermitsOf(b)
    BY DEF PermitsAreExact, PermitsOf
<1>1. Holders(b) = {} /\ inUse[b] = {} /\ active[b] = 0
    BY DEF LimiterInit, Holders, At, NoScan
<1> QED
    BY <1>1, FS_EmptySet DEF PermitsOf

\* Slots are exclusive and the permit count is exact, whatever the number of
\* threads, panics included (engine.rs 64-120).
THEOREM PermitsExact == LimiterSpec => []PermitsAreExact
<1> QED
    BY InitTypes, TypesStep, InitPermits, PermitsStep, PTL DEF LimiterSpec

-----------------------------------------------------------------------------
Asleep(b) == At(b, {"asleep"})
Movers(b) == At(b, {"woken", "leaving"})

LEMMA MoversFinite ==
    ASSUME NEW b
    PROVE  /\ IsFiniteSet(Movers(b)) /\ Cardinality(Movers(b)) \in Nat
           /\ IsFiniteSet(Movers(b)') /\ Cardinality(Movers(b)') \in Nat
<1>1. Movers(b) \subseteq Threads /\ Movers(b)' \subseteq Threads
    BY DEF Movers, At
<1> QED
    BY <1>1, ThreadsAssumption, FS_Subset, FS_CardinalityType

\* What one bank's part of NoSleeperForgotten says.
Remembered(b) == Asleep(b) # {} => Limit - active[b] <= Cardinality(Movers(b))

\* One thread moves: the sleepers and the movers of a bank gain or lose it.
LEMMA OneMoves ==
    ASSUME LimiterTypeOK, NEW t \in Threads, NEW r, scan' = [scan EXCEPT ![t] = r], NEW b
    PROVE  /\ Asleep(b)' = IF r.bank = b /\ r.stage = "asleep"
                           THEN Asleep(b) \cup {t} ELSE Asleep(b) \ {t}
           /\ Movers(b)' = IF r.bank = b /\ r.stage \in {"woken", "leaving"}
                           THEN Movers(b) \cup {t} ELSE Movers(b) \ {t}
           /\ Cardinality(Movers(b) \cup {t}) =
                Cardinality(Movers(b)) + (IF t \in Movers(b) THEN 0 ELSE 1)
           /\ Cardinality(Movers(b) \ {t}) =
                Cardinality(Movers(b)) - (IF t \in Movers(b) THEN 1 ELSE 0)
           /\ Cardinality(Movers(b)) \in Nat
<1>1. \A u \in Threads : scan'[u] = IF u = t THEN r ELSE scan[u]
    BY DEF LimiterTypeOK
<1>2. Asleep(b)' = IF r.bank = b /\ r.stage = "asleep" THEN Asleep(b) \cup {t} ELSE Asleep(b) \ {t}
    BY <1>1, SMT DEF Asleep, At
<1>3. Movers(b)' = IF r.bank = b /\ r.stage \in {"woken", "leaving"}
                   THEN Movers(b) \cup {t} ELSE Movers(b) \ {t}
    BY <1>1, SMT DEF Movers, At
<1>4. IsFiniteSet(Movers(b)) /\ Cardinality(Movers(b)) \in Nat
    BY MoversFinite
<1>5. Cardinality(Movers(b) \cup {t}) = Cardinality(Movers(b)) + (IF t \in Movers(b) THEN 0 ELSE 1)
  <2>1. CASE t \in Movers(b)
    <3>1. Movers(b) \cup {t} = Movers(b)
      BY <2>1
    <3>2. Cardinality(Movers(b) \cup {t}) = Cardinality(Movers(b))
      BY <3>1
    <3> QED
      BY <3>2, <2>1, <1>4
  <2>2. CASE t \notin Movers(b)
    BY <2>2, <1>4, FS_AddElement
  <2> QED
    BY <2>1, <2>2
<1>6. Cardinality(Movers(b) \ {t}) = Cardinality(Movers(b)) - (IF t \in Movers(b) THEN 1 ELSE 0)
  <2>1. CASE t \in Movers(b)
    BY <2>1, <1>4, FS_RemoveElement
  <2>2. CASE t \notin Movers(b)
    <3>1. Movers(b) \ {t} = Movers(b)
      BY <2>2
    <3>2. Cardinality(Movers(b) \ {t}) = Cardinality(Movers(b))
      BY <3>1
    <3> QED
      BY <3>2, <2>2, <1>4
  <2> QED
    BY <2>1, <2>2
<1> QED
    BY <1>2, <1>3, <1>4, <1>5, <1>6

LEMMA SleepersStep ==
    /\ LimiterTypeOK /\ PermitsAreExact /\ NoSleeperForgotten
    /\ [LimiterNext]_limiterVars
    => NoSleeperForgotten'
<1> SUFFICES ASSUME LimiterTypeOK, PermitsAreExact, NoSleeperForgotten,
                    [LimiterNext]_limiterVars, NEW b \in Banks
             PROVE  Remembered(b)'
    BY DEF NoSleeperForgotten, Remembered, Asleep, Movers
<1>0. Remembered(b)
    BY DEF NoSleeperForgotten, Remembered, Asleep, Movers
<1>1. CASE UNCHANGED limiterVars
    BY <1>0, <1>1 DEF limiterVars, Remembered, Asleep, Movers, At
<1>2. CASE LimiterNext
  <2> PICK t \in Threads : \/ \E c \in Banks : Enter(t, c)
                           \/ ScanStep(t) \/ WakeUnasked(t) \/ Panic(t)
    BY <1>2 DEF LimiterNext
  <2>0. /\ scan \in [Threads -> Scans] /\ scan[t] \in Scans
        /\ active \in [Banks -> Nat] /\ active[b] \in Nat
        /\ scan[t].stage # "idle" => scan[t].bank \in Banks
        /\ Limit \in Nat
    BY LimitAssumption DEF LimiterTypeOK
  <2>m. /\ t \in Movers(b) <=> scan[t].bank = b /\ scan[t].stage \in {"woken", "leaving"}
        /\ t \in Asleep(b) <=> scan[t].bank = b /\ scan[t].stage = "asleep"
    BY DEF Movers, Asleep, At
  \* Neither before nor after is t asleep or on its way.
  <2>1. ASSUME NEW r, scan' = [scan EXCEPT ![t] = r], active' = active,
               scan[t].stage \notin {"asleep", "woken", "leaving"},
               r.stage \notin {"asleep", "woken", "leaving"}
        PROVE  Remembered(b)'
    <3>1. Asleep(b)' = Asleep(b) \ {t} /\ Movers(b)' = Movers(b) \ {t}
        BY <2>1, OneMoves
    <3>2. Asleep(b) \ {t} = Asleep(b) /\ Movers(b) \ {t} = Movers(b)
        BY <2>1, <2>m
    <3> QED
        BY <3>1, <3>2, <2>1, <1>0 DEF Remembered
  <2>2. ASSUME NEW g \in Stages, scan' = [scan EXCEPT ![t] = [@ EXCEPT !.stage = g]]
        PROVE  \E r : /\ scan' = [scan EXCEPT ![t] = r]
                      /\ r.stage = g /\ r.bank = scan[t].bank
    <3> DEFINE r == [scan[t] EXCEPT !.stage = g]
    <3>1. r.stage = g /\ r.bank = scan[t].bank
        BY <2>0, ScanFields
    <3>2. scan' = [scan EXCEPT ![t] = r]
        BY <2>2
    <3> HIDE DEF r
    <3> QED
        BY <3>1, <3>2
  <2>3. ASSUME NEW c \in Banks, Enter(t, c)
        PROVE  Remembered(b)'
    <3> DEFINE r == [stage |-> "asking", bank |-> c, slot |-> 0, left |-> MaxSearches]
    <3>1. /\ r.stage \notin {"asleep", "woken", "leaving"}
          /\ scan[t].stage \notin {"asleep", "woken", "leaving"}
        BY <2>3 DEF Enter
    <3>2. scan' = [scan EXCEPT ![t] = r]
        BY <2>3 DEF Enter
    <3> HIDE DEF r
    <3> QED
        BY <3>1, <3>2, <2>1, <2>3 DEF Enter
  <2>4. CASE Acquire(t)
    <3> DEFINE c == scan[t].bank
    <3> PICK s \in FreeSlots(c) :
                /\ active' = [active EXCEPT ![c] = @ + 1]
                /\ scan' = [scan EXCEPT ![t] = [stage |-> "holding", bank |-> c,
                                                slot |-> s, left |-> scan[t].left]]
        BY <2>4 DEF Acquire
    <3> DEFINE r == [stage |-> "holding", bank |-> c, slot |-> s, left |-> scan[t].left]
    <3>1. scan' = [scan EXCEPT ![t] = r] /\ r.stage = "holding"
        OBVIOUS
    <3>2. scan[t].stage \in {"asking", "woken"}
        BY <2>4 DEF Acquire
    <3> HIDE DEF r
    <3>3. Asleep(b)' = Asleep(b) \ {t} /\ Movers(b)' = Movers(b) \ {t}
        BY <3>1, OneMoves
    <3>4. /\ Cardinality(Movers(b) \ {t}) =
                Cardinality(Movers(b)) - (IF t \in Movers(b) THEN 1 ELSE 0)
          /\ Cardinality(Movers(b)) \in Nat
        BY <3>1, OneMoves
    <3>5. active'[b] = active[b] + (IF b = c THEN 1 ELSE 0)
        BY <2>0
    <3>6. t \in Movers(b) => b = c
        BY <2>m
    <3>7. Asleep(b) \ {t} = Asleep(b)
        BY <3>2, <2>m
    <3> HIDE DEF c
    <3> QED
        BY <3>3, <3>4, <3>5, <3>6, <3>7, <2>0, <1>0 DEF Remembered
  <2>5. CASE Sleep(t)
    <3>1. PICK r : scan' = [scan EXCEPT ![t] = r] /\ r.stage = "asleep" /\ r.bank = scan[t].bank
        BY <2>2, <2>5, ZenonT(60) DEF Sleep, Stages
    <3>2. active' = active
        BY <2>5 DEF Sleep
    <3>3. CASE scan[t].bank = b
      <4>1. active[b] >= Limit
        BY <3>3, <2>5 DEF Sleep, MustWait
      <4>2. Cardinality(Movers(b)') \in Nat
        BY MoversFinite
      <4> QED
        BY <4>1, <4>2, <3>2, <2>0 DEF Remembered
    <3>4. CASE scan[t].bank # b
      <4>1. Asleep(b)' = Asleep(b) \ {t} /\ Movers(b)' = Movers(b) \ {t}
        BY <3>1, <3>4, OneMoves, ZenonT(60)
      <4>2. Asleep(b) \ {t} = Asleep(b) /\ Movers(b) \ {t} = Movers(b)
        BY <3>4, <2>m
      <4> QED
        BY <4>1, <4>2, <3>2, <1>0 DEF Remembered
    <3> QED
        BY <3>3, <3>4
  <2>6. CASE WakeUnasked(t)
    <3>1. PICK r : scan' = [scan EXCEPT ![t] = r] /\ r.stage = "woken" /\ r.bank = scan[t].bank
        BY <2>2, <2>6, ZenonT(60) DEF WakeUnasked, Stages
    <3>2. active' = active /\ scan[t].stage = "asleep"
        BY <2>6 DEF WakeUnasked
    <3>3. Asleep(b)' = Asleep(b) \ {t}
        BY <3>1, OneMoves
    <3>4. Cardinality(Movers(b)') >= Cardinality(Movers(b)) /\ Cardinality(Movers(b)) \in Nat
      <4>1. t \notin Movers(b)
        BY <3>2, <2>m
      <4>2. Movers(b) \ {t} = Movers(b)
        BY <4>1
      <4>3. Movers(b)' = Movers(b) \cup {t} \/ Movers(b)' = Movers(b)
        BY <4>2, <3>1, OneMoves
      <4>4. /\ Cardinality(Movers(b) \cup {t}) = Cardinality(Movers(b)) + 1
            /\ Cardinality(Movers(b)) \in Nat
        BY <4>1, <3>1, OneMoves
      <4>5. CASE Movers(b)' = Movers(b) \cup {t}
        BY <4>4, <4>5
      <4>6. CASE Movers(b)' = Movers(b)
        BY <4>4, <4>6
      <4> QED
        BY <4>3, <4>5, <4>6
    <3>5. Cardinality(Movers(b)') \in Nat
        BY MoversFinite
    <3> QED
        BY <3>2, <3>3, <3>4, <3>5, <2>0, <1>0 DEF Remembered
  <2>7. CASE LockCache(t)
    <3> DEFINE r == [stage |-> "searching", bank |-> scan[t].bank, slot |-> scan[t].slot,
                     left |-> scan[t].left - 1]
    <3>1. /\ r.stage \notin {"asleep", "woken", "leaving"}
          /\ scan[t].stage \notin {"asleep", "woken", "leaving"}
        BY <2>7 DEF LockCache
    <3>2. scan' = [scan EXCEPT ![t] = r] /\ active' = active
        BY <2>7 DEF LockCache
    <3> HIDE DEF r
    <3> QED
        BY <3>1, <3>2, <2>1
  <2>8. ASSUME UnlockCache(t) \/ PanicInSearch(t) \/ PanicOutside(t)
        PROVE  Remembered(b)'
    <3>1. PICK g \in {"holding", "unwinding"} :
                scan' = [scan EXCEPT ![t] = [@ EXCEPT !.stage = g]]
        BY <2>8 DEF UnlockCache, PanicInSearch, PanicOutside
    <3>0. g \in Stages
        BY DEF Stages
    <3>2. PICK r : scan' = [scan EXCEPT ![t] = r] /\ r.stage = g /\ r.bank = scan[t].bank
        BY <3>0, <3>1, <2>2
    <3>3. active' = active /\ scan[t].stage \in {"searching", "holding"}
        BY <2>8 DEF UnlockCache, PanicInSearch, PanicOutside
    <3> QED
        BY <3>1, <3>2, <3>3, <2>1
  <2>9. CASE GiveBack(t)
    <3> DEFINE c == scan[t].bank
    <3>1. PICK r : scan' = [scan EXCEPT ![t] = r] /\ r.stage = "leaving" /\ r.bank = c
        BY <2>2, <2>9, ZenonT(60) DEF GiveBack, Stages
    <3>2. c \in Banks /\ scan[t].stage \in {"holding", "unwinding"}
        BY <2>0, <2>9 DEF GiveBack
    <3>3. Asleep(b)' = Asleep(b) \ {t} /\ Asleep(b) \ {t} = Asleep(b)
        BY <3>1, <3>2, <2>m, OneMoves, ZenonT(60)
    <3>4. active'[b] = active[b] - (IF b = c THEN 1 ELSE 0)
      <4>1. active' = [active EXCEPT ![c] = IF @ > 0 THEN @ - 1 ELSE @]
        BY <2>9 DEF GiveBack
      <4>2. active[c] > 0
        <5>1. PermitsOf(c)
          BY <3>2 DEF PermitsAreExact, PermitsOf
        <5>2. t \in Holders(c)
          BY <3>2 DEF Holders, At
        <5>3. inUse[c] # {} /\ inUse[c] \in SUBSET Slots
          BY <5>1, <5>2, <3>2 DEF PermitsOf, LimiterTypeOK
        <5> QED
          BY <5>1, <5>3, SlotsFinite, FS_EmptySet DEF PermitsOf
      <4> QED
        BY <4>1, <4>2, <3>2, <2>0
    <3>5. /\ Cardinality(Movers(b)') = Cardinality(Movers(b)) + (IF b = c THEN 1 ELSE 0)
          /\ Cardinality(Movers(b)) \in Nat
      <4>1. t \notin Movers(b)
        BY <3>2, <2>m
      <4>2. Movers(b) \ {t} = Movers(b)
        BY <4>1
      <4>3. Movers(b)' = IF b = c THEN Movers(b) \cup {t} ELSE Movers(b)
        BY <4>2, <3>1, OneMoves
      <4>4. /\ Cardinality(Movers(b) \cup {t}) = Cardinality(Movers(b)) + 1
            /\ Cardinality(Movers(b)) \in Nat
        BY <4>1, <3>1, OneMoves
      <4> QED
        BY <4>3, <4>4
    <3> HIDE DEF c
    <3> QED
        BY <3>3, <3>4, <3>5, <2>0, <1>0 DEF Remembered
  <2>10. CASE Notify(t)
    <3> DEFINE c == scan[t].bank
    <3>0. active' = active /\ scan[t].stage = "leaving"
        BY <2>10 DEF Notify
    <3>1. CASE Asleep(c) = {} /\ scan' = [scan EXCEPT ![t] = NoScan]
      <4>0. NoScan.stage = "idle"
        BY DEF NoScan
      <4>1. Asleep(b)' = Asleep(b) \ {t} /\ Movers(b)' = Movers(b) \ {t}
        BY <3>1, <4>0, OneMoves
      <4>2. CASE b = c
        BY <4>1, <4>2, <3>1 DEF Remembered
      <4>3. CASE b # c
        <5>1. Movers(b) \ {t} = Movers(b)
          BY <4>3, <2>m
        <5> QED
          BY <5>1, <4>1, <3>0, <1>0 DEF Remembered
      <4> QED
        BY <4>2, <4>3
    <3>2. ASSUME NEW u \in Asleep(c),
                 scan' = [scan EXCEPT ![t] = NoScan, ![u] = [scan[u] EXCEPT !.stage = "woken"]]
          PROVE  Remembered(b)'
      <4>1. u \in Threads /\ scan[u].stage = "asleep" /\ scan[u].bank = c /\ u # t
        BY <3>0, <3>2 DEF At, Asleep
      <4>2. /\ scan'[u].stage = "woken" /\ scan'[u].bank = c /\ scan'[t].stage = "idle"
            /\ \A v \in Threads \ {t, u} : scan'[v] = scan[v]
        <5>1. scan[u] \in Scans
          BY <2>0, <4>1
        <5>2. /\ [scan[u] EXCEPT !.stage = "woken"].stage = "woken"
              /\ [scan[u] EXCEPT !.stage = "woken"].bank = c
          BY <5>1, <4>1, ScanFields DEF Stages
        <5> QED
          BY <5>2, <3>2, <4>1, <2>0 DEF NoScan
      <4>3. Asleep(b)' \subseteq Asleep(b)
        BY <4>1, <4>2 DEF Asleep, At
      <4>4. Cardinality(Movers(b)') = Cardinality(Movers(b))
        <5>1. CASE b # c
          <6>1. Movers(b)' = Movers(b)
            BY <5>1, <4>1, <4>2 DEF Movers, At
          <6> QED
            BY <6>1
        <5>2. CASE b = c
          <6>1. Movers(b)' = (Movers(b) \ {t}) \cup {u} /\ t \in Movers(b) /\ u \notin Movers(b)
            BY <5>2, <4>1, <4>2, <3>0 DEF Movers, At
          <6>2. IsFiniteSet(Movers(b)) /\ Cardinality(Movers(b)) \in Nat
            BY MoversFinite
          <6>3. /\ IsFiniteSet(Movers(b) \ {t})
                /\ Cardinality(Movers(b) \ {t}) = Cardinality(Movers(b)) - 1
            BY <6>1, <6>2, FS_RemoveElement
          <6>4. Cardinality((Movers(b) \ {t}) \cup {u}) = Cardinality(Movers(b) \ {t}) + 1
            BY <6>1, <6>3, FS_AddElement
          <6> QED
            BY <6>1, <6>2, <6>3, <6>4
        <5> QED
          BY <5>1, <5>2
      <4> QED
        BY <4>3, <4>4, <3>0, <1>0 DEF Remembered
    <3> QED
        BY <3>1, <3>2, <2>10 DEF Notify, Asleep
  <2> QED
    BY <2>3, <2>4, <2>5, <2>6, <2>7, <2>8, <2>9, <2>10 DEF ScanStep, Panic
<1> QED
    BY <1>1, <1>2

LEMMA InitSleepers == LimiterInit => NoSleeperForgotten
    BY DEF LimiterInit, NoSleeperForgotten, At, NoScan

\* No wake-up is lost: as long as a thread sleeps, every free slot has a thread
\* that was woken or is about to notify (engine.rs 67-72, 108-120).
THEOREM SleepersRemembered == LimiterSpec => []NoSleeperForgotten
<1> QED
    BY InitTypes, TypesStep, InitPermits, PermitsStep, InitSleepers, SleepersStep, PTL
       DEF LimiterSpec

-----------------------------------------------------------------------------
\* What one bank's part of SearchesUseSoundCaches says.
CachesSound(b) ==
    /\ torn[b] \subseteq poisoned[b]
    /\ \A t \in At(b, {"searching"}) : scan[t].slot \notin torn[b] \cup poisoned[b]

LEMMA CachesStep ==
    /\ LimiterTypeOK /\ PermitsAreExact /\ SearchesUseSoundCaches
    /\ [LimiterNext]_limiterVars
    => SearchesUseSoundCaches'
<1> SUFFICES ASSUME LimiterTypeOK, PermitsAreExact, SearchesUseSoundCaches,
                    [LimiterNext]_limiterVars, NEW b \in Banks
             PROVE  CachesSound(b)'
    BY DEF SearchesUseSoundCaches, CachesSound
<1>0. CachesSound(b)
    BY DEF SearchesUseSoundCaches, CachesSound
<1>1. CASE UNCHANGED limiterVars
    BY <1>0, <1>1 DEF limiterVars, CachesSound, At
<1>2. CASE LimiterNext
  <2> PICK t \in Threads : \/ \E c \in Banks : Enter(t, c)
                           \/ ScanStep(t) \/ WakeUnasked(t) \/ Panic(t)
    BY <1>2 DEF LimiterNext
  <2>0. /\ scan \in [Threads -> Scans] /\ scan[t] \in Scans
        /\ torn \in [Banks -> SUBSET Slots] /\ poisoned \in [Banks -> SUBSET Slots]
        /\ scan[t].stage # "idle" => scan[t].bank \in Banks
    BY DEF LimiterTypeOK
  \* Nobody starts to search and the caches stay as they are.
  <2>1. ASSUME \A u \in Threads : scan'[u].stage = "searching" => scan'[u] = scan[u],
               torn' = torn, poisoned' = poisoned
        PROVE  CachesSound(b)'
    BY <2>1, <1>0 DEF CachesSound, At
  <2>2. ASSUME NEW g \in Stages, g # "searching",
               scan' = [scan EXCEPT ![t] = [@ EXCEPT !.stage = g]]
        PROVE  \A u \in Threads : scan'[u].stage = "searching" => scan'[u] = scan[u]
    <3>1. [scan[t] EXCEPT !.stage = g].stage = g
        BY <2>0, ScanFields
    <3> QED
        BY <3>1, <2>2, <2>0
  <2>3. ASSUME NEW c \in Banks, Enter(t, c)
        PROVE  CachesSound(b)'
    BY <2>0, <2>1, <2>3 DEF Enter
  <2>4. CASE Acquire(t)
    <3>1. \A u \in Threads : scan'[u].stage = "searching" => scan'[u] = scan[u]
      <4> PICK s \in FreeSlots(scan[t].bank) :
                scan' = [scan EXCEPT ![t] = [stage |-> "holding", bank |-> scan[t].bank,
                                             slot |-> s, left |-> scan[t].left]]
        BY <2>4 DEF Acquire
      <4> QED
        BY <2>0
    <3> QED
        BY <3>1, <2>1, <2>4 DEF Acquire
  <2>5. CASE Sleep(t)
    BY <2>1, <2>2, <2>5 DEF Sleep, Stages
  <2>6. CASE WakeUnasked(t)
    BY <2>1, <2>2, <2>6 DEF WakeUnasked, Stages
  <2>7. CASE LockCache(t)
    <3> DEFINE c == scan[t].bank
               s == scan[t].slot
    <3>1. /\ c \in Banks
          /\ torn' = [torn EXCEPT ![c] = IF s \in poisoned[c] THEN @ \ {s} ELSE @]
          /\ poisoned' = [poisoned EXCEPT ![c] = @ \ {s}]
          /\ scan' = [scan EXCEPT ![t] = [stage |-> "searching", bank |-> c, slot |-> s,
                                          left |-> scan[t].left - 1]]
        BY <2>0, <2>7 DEF LockCache
    <3>2. \A u \in Threads \ {t} : scan'[u] = scan[u]
        BY <3>1, <2>0
    <3>3. scan'[t].stage = "searching" /\ scan'[t].bank = c /\ scan'[t].slot = s
        BY <3>1, <2>0
    <3>4. CASE b # c
        BY <3>1, <3>2, <3>3, <3>4, <2>0, <1>0 DEF CachesSound, At
    <3>5. CASE b = c
      <4>1. torn'[b] = IF s \in poisoned[b] THEN torn[b] \ {s} ELSE torn[b]
        BY <3>1, <3>5, <2>0
      <4>2. poisoned'[b] = poisoned[b] \ {s}
        BY <3>1, <3>5, <2>0
      <4> QED
        BY <4>1, <4>2, <3>2, <3>3, <3>5, <1>0 DEF CachesSound, At
    <3> QED
        BY <3>4, <3>5
  <2>8. CASE UnlockCache(t)
    BY <2>1, <2>2, <2>8 DEF UnlockCache, Stages
  <2>9. CASE PanicInSearch(t)
    <3> DEFINE c == scan[t].bank
               s == scan[t].slot
    <3>1. /\ c \in Banks /\ scan[t].stage = "searching"
          /\ torn' = [torn EXCEPT ![c] = @ \cup {s}]
          /\ poisoned' = [poisoned EXCEPT ![c] = @ \cup {s}]
          /\ scan' = [scan EXCEPT ![t] = [@ EXCEPT !.stage = "unwinding"]]
        BY <2>0, <2>9 DEF PanicInSearch
    <3>2. \A u \in Threads : scan'[u].stage = "searching" => scan'[u] = scan[u] /\ u # t
      <4>1. [scan[t] EXCEPT !.stage = "unwinding"].stage = "unwinding"
        BY <2>0, ScanFields DEF Stages
      <4> QED
        BY <4>1, <3>1, <2>0
    <3>3. CASE b # c
        BY <3>1, <3>2, <3>3, <2>0, <1>0 DEF CachesSound, At
    <3>4. CASE b = c
      <4>1. torn'[b] = torn[b] \cup {s} /\ poisoned'[b] = poisoned[b] \cup {s}
        BY <3>1, <3>4, <2>0
      <4>2. \A u \in At(b, {"searching"}) : u # t => scan[u].slot # s
        BY <3>1, <3>4 DEF PermitsAreExact, Holders, At
      <4>3. ASSUME NEW u \in Threads, scan'[u].bank = b, scan'[u].stage = "searching"
            PROVE  scan'[u].slot \notin torn'[b] \cup poisoned'[b]
        <5>1. u \in At(b, {"searching"}) /\ u # t /\ scan'[u].slot = scan[u].slot
          BY <4>3, <3>2 DEF At
        <5> QED
          BY <5>1, <4>1, <4>2, <1>0 DEF CachesSound
      <4>4. torn'[b] \subseteq poisoned'[b]
        BY <4>1, <1>0 DEF CachesSound
      <4> QED
        BY <4>3, <4>4 DEF CachesSound, At
    <3> QED
        BY <3>3, <3>4
  <2>10. CASE PanicOutside(t)
    BY <2>1, <2>2, <2>10 DEF PanicOutside, Stages
  <2>11. CASE GiveBack(t)
    BY <2>1, <2>2, <2>11 DEF GiveBack, Stages
  <2>12. CASE Notify(t)
    <3>1. CASE scan' = [scan EXCEPT ![t] = NoScan]
        BY <3>1, <2>0, <2>1, <2>12 DEF Notify, NoScan
    <3>2. ASSUME NEW u \in At(scan[t].bank, {"asleep"}),
                 scan' = [scan EXCEPT ![t] = NoScan, ![u] = [scan[u] EXCEPT !.stage = "woken"]]
          PROVE  CachesSound(b)'
      <4>1. u \in Threads /\ scan[u].stage = "asleep" /\ u # t
        BY <2>12, <3>2 DEF At, Notify
      <4>2. [scan[u] EXCEPT !.stage = "woken"].stage = "woken"
        <5>1. scan[u] \in Scans
          BY <2>0, <4>1
        <5> QED
          BY <5>1, ScanFields DEF Stages
      <4>3. \A v \in Threads : scan'[v].stage = "searching" => scan'[v] = scan[v]
        BY <4>1, <4>2, <3>2, <2>0 DEF NoScan
      <4> QED
        BY <4>3, <2>1, <2>12 DEF Notify
    <3> QED
        BY <3>1, <3>2, <2>12 DEF Notify
  <2> QED
    BY <2>3, <2>4, <2>5, <2>6, <2>7, <2>8, <2>9, <2>10, <2>11, <2>12 DEF ScanStep, Panic
<1> QED
    BY <1>1, <1>2

LEMMA InitCaches == LimiterInit => SearchesUseSoundCaches
    BY DEF LimiterInit, SearchesUseSoundCaches, At, NoScan

\* No search uses a cache that a panic left half updated (engine.rs 585-599).
THEOREM CachesAreSound == LimiterSpec => []SearchesUseSoundCaches
<1> QED
    BY InitTypes, TypesStep, InitPermits, PermitsStep, InitCaches, CachesStep, PTL
       DEF LimiterSpec
-----------------------------------------------------------------------------
(* The tables of the bank cache: sequences that keep some of their entries *)

\* The j-th of some places is well defined, and every one of them is the j-th for some j.
LEMMA Ranks ==
    ASSUME NEW S \in SUBSET Nat, IsFiniteSet(S)
    PROVE  /\ Cardinality(S) \in Nat
           /\ \A n \in S : Cardinality({h \in S : h <= n}) \in 1..Cardinality(S)
           /\ \A n, m \in S :
                 Cardinality({h \in S : h <= n}) = Cardinality({h \in S : h <= m}) => n = m
           /\ \A j \in 1..Cardinality(S) : \E n \in S : Cardinality({h \in S : h <= n}) = j
  <1> DEFINE upTo(n) == {h \in S : h <= n}
             rank == [n \in S |-> Cardinality(upTo(n))]
  <1>1. Cardinality(S) \in Nat
    BY FS_CardinalityType
  <1>2. \A n \in S : IsFiniteSet(upTo(n)) /\ upTo(n) \in SUBSET S
    BY FS_Subset
  <1>3. \A n \in S : rank[n] \in 1..Cardinality(S)
    <2> SUFFICES ASSUME NEW n \in S PROVE Cardinality(upTo(n)) \in 1..Cardinality(S)
      OBVIOUS
    <2>1. Cardinality(upTo(n)) \in Nat /\ Cardinality(upTo(n)) <= Cardinality(S)
      BY <1>2, FS_CardinalityType, FS_Subset
    <2>2. n \in upTo(n)
      OBVIOUS
    <2>3. Cardinality(upTo(n)) # 0
      BY <1>2, <2>2, FS_EmptySet
    <2> QED
      BY <1>1, <2>1, <2>3
  <1>4. \A n, m \in S : n < m => rank[n] < rank[m]
    <2> SUFFICES ASSUME NEW n \in S, NEW m \in S, n < m
                 PROVE  Cardinality(upTo(n)) < Cardinality(upTo(m))
      OBVIOUS
    <2>1. upTo(n) \in SUBSET upTo(m) /\ m \in upTo(m) /\ m \notin upTo(n)
      <3>1. n \in Nat /\ m \in Nat
        OBVIOUS
      <3>2. \A k \in upTo(n) : k \in S /\ k \in Nat /\ k <= n
        OBVIOUS
      <3>3. \A k \in upTo(n) : k <= m
        BY <3>1, <3>2
      <3>4. \A k \in upTo(n) : k \in upTo(m)
        BY <3>2, <3>3
      <3>5. m \in upTo(m) /\ ~(m <= n)
        BY <3>1
      <3> QED
        BY <3>4, <3>5
    <2>2. Cardinality(upTo(n)) <= Cardinality(upTo(m)) /\ Cardinality(upTo(n)) # Cardinality(upTo(m))
      BY <1>2, <2>1, FS_Subset
    <2>3. Cardinality(upTo(n)) \in Nat /\ Cardinality(upTo(m)) \in Nat
      BY <1>2, FS_CardinalityType
    <2> QED
      BY <2>2, <2>3
  <1>5. \A n, m \in S : rank[n] = rank[m] => n = m
    <2> SUFFICES ASSUME NEW n \in S, NEW m \in S, n # m PROVE rank[n] # rank[m]
      OBVIOUS
    <2>1. n < m \/ m < n
      OBVIOUS
    <2>2. rank[n] < rank[m] \/ rank[m] < rank[n]
      BY <1>4, <2>1
    <2>3. rank[n] \in Nat /\ rank[m] \in Nat
      BY <1>3, <1>1
    <2> HIDE DEF rank
    <2> QED
      BY <2>2, <2>3
  <1>6. rank \in Surjection(S, 1..Cardinality(S))
    <2>1. rank \in [S -> 1..Cardinality(S)]
      BY <1>3
    <2>2. IsFiniteSet(1..Cardinality(S)) /\ Cardinality(1..Cardinality(S)) = Cardinality(S)
      BY <1>1, FS_Interval
    <2> HIDE DEF rank
    <2>3. rank \in Injection(S, 1..Cardinality(S))
      BY <1>5, <2>1 DEF Injection, IsInjective
    <2> QED
      BY <2>2, <2>3, FS_Injection
  <1>7. \A j \in 1..Cardinality(S) : \E n \in S : rank[n] = j
    <2> HIDE DEF rank
    <2> QED
      BY <1>6 DEF Surjection
  <1>8. \A n \in S : rank[n] = Cardinality({h \in S : h <= n})
    OBVIOUS
  <1> HIDE DEF rank
  <1> QED
    BY <1>1, <1>3, <1>5, <1>7, <1>8

\* place says where in q the entries of r come from.
Comes(r, q, places, place) ==
    /\ place \in [1..Cardinality(places) -> places]
    /\ \A j, k \in 1..Cardinality(places) : place[j] = place[k] => j = k
    /\ \A i \in places : \E j \in 1..Cardinality(places) : place[j] = i
    /\ \A j \in 1..Cardinality(places) : r[j] = q[place[j]]

\* What is kept is kept once, and nothing else is there.
LEMMA KeptEntries ==
    ASSUME NEW T, NEW q \in Seq(T), NEW places \in SUBSET (1..Len(q))
    PROVE  /\ Kept(q, places) \in Seq(T) /\ Cardinality(places) \in Nat
           /\ Len(Kept(q, places)) = Cardinality(places)
           /\ \E place : Comes(Kept(q, places), q, places, place)
  <1> DEFINE rank(n) == Cardinality({h \in places : h <= n})
             size == Cardinality(places)
             place == [j \in 1..size |-> CHOOSE i \in places : rank(i) = j]
  <1>1. IsFiniteSet(places) /\ places \in SUBSET Nat
    <2>1. Len(q) \in Nat /\ 1 \in Int /\ Len(q) \in Int
      OBVIOUS
    <2>2. IsFiniteSet(1..Len(q))
      BY <2>1, FS_Interval
    <2>3. \A i \in 1..Len(q) : i \in Nat
      BY <2>1
    <2> QED
      BY <2>2, <2>3, FS_Subset
  <1>2. /\ size \in Nat
        /\ \A n \in places : rank(n) \in 1..size
        /\ \A n, m \in places : rank(n) = rank(m) => n = m
        /\ \A j \in 1..size : \E n \in places : rank(n) = j
    BY <1>1, Ranks
  <1>3. Kept(q, places) = [j \in 1..size |-> q[CHOOSE i \in places : rank(i) = j]]
    BY DEF Kept
  <1> HIDE DEF rank, size
  <1>4. \A j \in 1..size : place[j] \in places /\ rank(place[j]) = j
    BY <1>2
  <1>5. place \in [1..size -> places]
    BY <1>4
  <1>6. \A j \in 1..size : Kept(q, places)[j] = q[place[j]]
    BY <1>3
  <1>7. Kept(q, places) = [j \in 1..size |-> q[place[j]]]
    BY <1>3
  <1> HIDE DEF place
  <1>8. \A j, k \in 1..size : place[j] = place[k] => j = k
    BY <1>4
  <1>9. \A i \in places : \E j \in 1..size : place[j] = i
    BY <1>2, <1>4
  <1>10. \A j \in 1..size : q[place[j]] \in T
    <2>1. \A i \in 1..Len(q) : q[i] \in T
      OBVIOUS
    <2>2. \A j \in 1..size : place[j] \in 1..Len(q)
      BY <1>4
    <2> QED
      BY <2>1, <2>2
  <1>11. Kept(q, places) \in Seq(T) /\ Len(Kept(q, places)) = size
    BY <1>2, <1>7, <1>10
  <1>12. Comes(Kept(q, places), q, places, place)
    BY <1>5, <1>6, <1>8, <1>9 DEF Comes, size
  <1> QED
    BY <1>2, <1>11, <1>12 DEF size

Unique(bs) == \A i, j \in 1..Len(bs) : bs[i].key = bs[j].key => i = j

\* A table of entries without those at some places.
LEMMA KeptTable ==
    ASSUME NEW T, NEW q \in Seq(T), NEW places \in SUBSET (1..Len(q))
    PROVE  /\ Kept(q, places) \in Seq(T) /\ Cardinality(places) \in Nat
           /\ Len(Kept(q, places)) = Cardinality(places)
           /\ ToSet(Kept(q, places)) = {q[i] : i \in places}
           /\ Unique(q) => Unique(Kept(q, places))
  <1> DEFINE r == Kept(q, places)
             size == Cardinality(places)
  <1>1. r \in Seq(T) /\ size \in Nat /\ Len(r) = size
    BY KeptEntries
  <1>2. PICK place : Comes(r, q, places, place)
    BY KeptEntries
  <1>3. /\ place \in [1..size -> places]
        /\ \A j, k \in 1..size : place[j] = place[k] => j = k
        /\ \A i \in places : \E j \in 1..size : place[j] = i
        /\ \A j \in 1..size : r[j] = q[place[j]]
    BY <1>2 DEF Comes
  <1> HIDE DEF r, size
  <1>4. ToSet(r) = {r[j] : j \in 1..size}
    BY <1>1 DEF ToSet
  <1>5. {r[j] : j \in 1..size} = {q[i] : i \in places}
    <2>1. \A j \in 1..size : place[j] \in places
      BY <1>3
    <2>2. ASSUME NEW j \in 1..size
          PROVE  r[j] \in {q[i] : i \in places}
      <3>1. place[j] \in places /\ r[j] = q[place[j]]
        BY <1>3
      <3> QED
        BY <3>1, Zenon
    <2>3. \A i \in places : q[i] \in {r[j] : j \in 1..size}
      BY <1>3
    <2> QED
      BY <2>2, <2>3
  <1>6. ASSUME Unique(q)
        PROVE  Unique(r)
    <2> SUFFICES ASSUME NEW j \in 1..size, NEW k \in 1..size, r[j].key = r[k].key
                 PROVE  j = k
      BY <1>1 DEF Unique
    <2>1. place[j] \in 1..Len(q) /\ place[k] \in 1..Len(q)
      BY <1>3
    <2>2. q[place[j]].key = q[place[k]].key
      BY <1>3
    <2>3. place[j] = place[k]
      BY <1>6, <2>1, <2>2 DEF Unique
    <2> QED
      BY <1>3, <2>3
  <1> QED
    BY <1>1, <1>4, <1>5, <1>6 DEF r, size

LEMMA LastEntries ==
    ASSUME NEW T, NEW q \in Seq(T), NEW n \in Nat
    PROVE  /\ LastOf(q, n) \in Seq(T)
           /\ Len(LastOf(q, n)) <= n /\ Len(LastOf(q, n)) <= Len(q)
           /\ ToSet(LastOf(q, n)) \subseteq ToSet(q)
           /\ Unique(q) => Unique(LastOf(q, n))
  <1>1. CASE Len(q) > n
    <2> DEFINE r == LastOf(q, n)
               skipped == Len(q) - n
    <2>1. skipped \in Nat /\ skipped + n = Len(q) /\ r = SubSeq(q, skipped + 1, Len(q))
      BY <1>1 DEF LastOf
    <2>2. r \in Seq(T) /\ Len(r) = n /\ \A i \in 1..n : r[i] = q[skipped + i]
      BY <2>1
    <2> HIDE DEF r, skipped
    <2>3. \A i \in 1..n : skipped + i \in 1..Len(q)
      BY <2>1
    <2>4. ToSet(r) = {r[i] : i \in 1..n} /\ ToSet(q) = {q[i] : i \in 1..Len(q)}
      BY <2>2 DEF ToSet
    <2>5. \A i \in 1..n : r[i] \in ToSet(q)
      BY <2>2, <2>3, <2>4
    <2>6. Unique(q) => Unique(r)
      <3> SUFFICES ASSUME Unique(q), NEW i \in 1..n, NEW j \in 1..n, r[i].key = r[j].key
                   PROVE  i = j
        BY <2>2 DEF Unique
      <3>1. skipped + i = skipped + j
        BY <2>2, <2>3 DEF Unique
      <3> QED
        BY <2>1, <3>1
    <2>7. n <= Len(q)
      BY <1>1
    <2> QED
      BY <2>2, <2>4, <2>5, <2>6, <2>7 DEF r
  <1>2. CASE ~(Len(q) > n)
    BY <1>2 DEF LastOf
  <1> QED
    BY <1>1, <1>2

LEMMA UpTo ==
    ASSUME NEW n \in Nat
    PROVE  IsFiniteSet(1..n) /\ Cardinality(1..n) = n
  <1>1. 1 \in Int /\ n \in Int
    OBVIOUS
  <1>2. IsFiniteSet(1..n) /\ Cardinality(1..n) = IF 1 > n THEN 0 ELSE n - 1 + 1
    BY <1>1, FS_Interval
  <1> QED
    BY <1>2

LEMMA AppendTable ==
    ASSUME NEW T, NEW q \in Seq(T), NEW e \in T
    PROVE  /\ Append(q, e) \in Seq(T) /\ Len(Append(q, e)) = Len(q) + 1
           /\ ToSet(Append(q, e)) = ToSet(q) \cup {e}
           /\ Unique(q) /\ (\A d \in ToSet(q) : d.key # e.key) => Unique(Append(q, e))
  <1> DEFINE r == Append(q, e)
  <1>1. /\ r \in Seq(T) /\ Len(r) = Len(q) + 1 /\ Len(q) \in Nat
        /\ \A i \in 1..Len(q) : r[i] = q[i]
        /\ r[Len(q) + 1] = e
    OBVIOUS
  <1> HIDE DEF r
  <1>2. ToSet(r) = {r[i] : i \in 1..Len(r)} /\ ToSet(q) = {q[i] : i \in 1..Len(q)}
    BY <1>1 DEF ToSet
  <1>3. \A i : i \in 1..Len(r) <=> i \in 1..Len(q) \/ i = Len(q) + 1
    BY <1>1
  <1>4. ToSet(r) = ToSet(q) \cup {e}
    <2>1. ASSUME NEW i \in 1..Len(r)
          PROVE  r[i] \in ToSet(q) \cup {e}
      BY <1>1, <1>2, <1>3
    <2>2. ASSUME NEW i \in 1..Len(q)
          PROVE  q[i] \in ToSet(r)
      BY <1>1, <1>2, <1>3
    <2>3. e \in ToSet(r)
      BY <1>1, <1>2, <1>3
    <2> QED
      BY <1>2, <2>1, <2>2, <2>3
  <1>5. ASSUME Unique(q), \A d \in ToSet(q) : d.key # e.key
        PROVE  Unique(r)
    <2> SUFFICES ASSUME NEW i \in 1..Len(r), NEW j \in 1..Len(r), r[i].key = r[j].key
                 PROVE  i = j
      BY DEF Unique
    <2>1. \A k \in 1..Len(q) : q[k].key # e.key
      BY <1>2, <1>5
    <2>2. CASE i \in 1..Len(q) /\ j \in 1..Len(q)
      BY <1>1, <1>5, <2>2 DEF Unique
    <2>3. CASE i = Len(q) + 1 \/ j = Len(q) + 1
      BY <1>1, <1>3, <2>1, <2>3
    <2> QED
      BY <1>3, <2>2, <2>3
  <1> QED
    BY <1>1, <1>4, <1>5 DEF r

Keys == {KeyOf[s] : s \in Sources}

LEMMA Projections ==
    ASSUME NEW T, NEW q \in Seq(T)
    PROVE  /\ KeysIn(q) = {e.key : e \in ToSet(q)} /\ BanksIn(q) = {e.bank : e \in ToSet(q)}
           /\ DOMAIN q = 1..Len(q) /\ Len(q) \in Nat
  BY DEF KeysIn, BanksIn, ToSet

\* move_to_end changes the order of the banks and nothing else.
LEMMA BankMoved ==
    ASSUME banks \in Seq(BankEntries), Unique(banks), NEW k \in KeysIn(banks)
    PROVE  LET n == BankFor(banks, k)
               bs == BankLast(banks, k, n)
           IN  /\ [key |-> k, bank |-> n] \in ToSet(banks)
               /\ bs \in Seq(BankEntries) /\ Unique(bs)
               /\ Len(bs) = Len(banks) /\ ToSet(bs) = ToSet(banks)
  <1> DEFINE n == BankFor(banks, k)
             entry == [key |-> k, bank |-> n]
             places == {i \in DOMAIN banks : banks[i].key \notin {k}}
             rest == Kept(banks, places)
  <1>1. \A i \in 1..Len(banks) : banks[i] \in BankEntries
    OBVIOUS
  <1>2. DOMAIN banks = 1..Len(banks) /\ Len(banks) \in Nat /\ ToSet(banks) = {banks[i] : i \in 1..Len(banks)}
    BY DEF ToSet
  <1>3. PICK p \in 1..Len(banks) : banks[p].key = k
    BY <1>2 DEF KeysIn
  <1>4. \E e \in ToSet(banks) : e.key = k
    BY <1>2, <1>3
  <1>5. PICK e \in ToSet(banks) : e.key = k /\ n = e.bank
    BY <1>4 DEF BankFor
  <1>6. e = banks[p]
    BY <1>2, <1>3, <1>5 DEF Unique
  <1>7. banks[p] = entry /\ entry \in BankEntries
    BY <1>1, <1>5, <1>6 DEF BankEntries
  <1> HIDE DEF n
  <1>8. \A i \in 1..Len(banks) : i # p => banks[i].key # k
    BY <1>3 DEF Unique
  <1>9. places = (1..Len(banks)) \ {p}
    BY <1>2, <1>3, <1>8
  <1>10. Cardinality(places) = Len(banks) - 1
    <2>1. IsFiniteSet(1..Len(banks)) /\ Cardinality(1..Len(banks)) = Len(banks)
      BY <1>2, UpTo
    <2>2. Cardinality((1..Len(banks)) \ {p}) = Cardinality(1..Len(banks)) - 1
      BY <2>1, FS_RemoveElement
    <2> HIDE DEF places
    <2> QED
      BY <1>9, <2>1, <2>2
  <1>11. places \in SUBSET (1..Len(banks))
    BY <1>9
  <1> HIDE DEF places
  <1>12. /\ rest \in Seq(BankEntries) /\ Len(rest) = Len(banks) - 1 /\ Unique(rest)
         /\ ToSet(rest) = {banks[i] : i \in places}
    BY <1>10, <1>11, KeptTable
  <1> HIDE DEF rest
  <1>13. \A d \in ToSet(rest) : d.key # k
    BY <1>8, <1>9, <1>12
  <1>14. ToSet(rest) \cup {entry} = ToSet(banks)
    BY <1>2, <1>7, <1>9, <1>12
  <1>15. entry.key = k
    OBVIOUS
  <1>16. entry \in ToSet(banks)
    BY <1>14
  <1>17. BankLast(banks, k, n) = Append(rest, entry)
    BY DEF BankLast, WithoutKeys, rest, places
  <1> HIDE DEF entry
  <1>18. /\ Append(rest, entry) \in Seq(BankEntries) /\ Len(Append(rest, entry)) = Len(banks)
         /\ ToSet(Append(rest, entry)) = ToSet(banks) /\ Unique(Append(rest, entry))
    <2>1. /\ Append(rest, entry) \in Seq(BankEntries) /\ Len(Append(rest, entry)) = Len(rest) + 1
          /\ ToSet(Append(rest, entry)) = ToSet(rest) \cup {entry}
          /\ Unique(rest) /\ (\A d \in ToSet(rest) : d.key # entry.key) => Unique(Append(rest, entry))
      BY <1>7, <1>12, AppendTable
    <2>2. \A d \in ToSet(rest) : d.key # entry.key
      BY <1>13, <1>15
    <2>3. Len(rest) + 1 = Len(banks)
      BY <1>2, <1>12
    <2> QED
      BY <1>12, <1>14, <2>1, <2>2, <2>3
  <1> QED
    BY <1>16, <1>17, <1>18 DEF n, entry

\* A bank that was not there is added to the others.
LEMMA BankEntered ==
    ASSUME banks \in Seq(BankEntries), Unique(banks), NEW k \in Keys \ KeysIn(banks),
           NEW n \in NativeBanks
    PROVE  LET bs == BankLast(banks, k, n)
           IN  /\ bs \in Seq(BankEntries) /\ Unique(bs) /\ Len(bs) = Len(banks) + 1
               /\ ToSet(bs) = ToSet(banks) \cup {[key |-> k, bank |-> n]}
  <1> DEFINE entry == [key |-> k, bank |-> n]
             places == {i \in DOMAIN banks : banks[i].key \notin {k}}
             rest == Kept(banks, places)
  <1>1. DOMAIN banks = 1..Len(banks) /\ Len(banks) \in Nat /\ ToSet(banks) = {banks[i] : i \in 1..Len(banks)}
    BY DEF ToSet
  <1>2. \A i \in 1..Len(banks) : banks[i].key # k
    BY <1>1 DEF KeysIn
  <1>3. places = 1..Len(banks)
    BY <1>1, <1>2
  <1>4. Cardinality(places) = Len(banks)
    BY <1>1, <1>3, UpTo
  <1>5. entry \in BankEntries /\ entry.key = k
    BY DEF BankEntries, Keys
  <1>6. places \in SUBSET (1..Len(banks))
    BY <1>3
  <1> HIDE DEF places, entry
  <1>7. /\ rest \in Seq(BankEntries) /\ Len(rest) = Len(banks) /\ Unique(rest)
        /\ ToSet(rest) = {banks[i] : i \in places}
    BY <1>4, <1>6, KeptTable
  <1> HIDE DEF rest
  <1>8. ToSet(rest) = ToSet(banks)
    BY <1>1, <1>3, <1>7
  <1>9. \A d \in ToSet(rest) : d.key # entry.key
    BY <1>1, <1>2, <1>5, <1>8
  <1>10. /\ Append(rest, entry) \in Seq(BankEntries) /\ Len(Append(rest, entry)) = Len(rest) + 1
         /\ ToSet(Append(rest, entry)) = ToSet(rest) \cup {entry}
         /\ Unique(rest) /\ (\A d \in ToSet(rest) : d.key # entry.key) => Unique(Append(rest, entry))
    BY <1>5, <1>7, AppendTable
  <1>11. BankLast(banks, k, n) = Append(rest, entry)
    BY DEF BankLast, WithoutKeys, rest, places, entry
  <1> QED
    BY <1>7, <1>8, <1>9, <1>10, <1>11 DEF entry

\* What is left of the source keys when those of a source, or of evicted banks, go.
LEMMA SourcesLeft ==
    ASSUME NEW ss \in Seq(SourceKeyEntries)
    PROVE  /\ \A s : /\ WithoutSource(ss, s) \in Seq(SourceKeyEntries)
                     /\ Len(WithoutSource(ss, s)) <= Len(ss)
                     /\ ToSet(WithoutSource(ss, s)) \subseteq ToSet(ss)
                     /\ (\E e \in ToSet(ss) : e.source = s) => Len(WithoutSource(ss, s)) < Len(ss)
           /\ \A keys : /\ WithoutKeys(ss, keys) \in Seq(SourceKeyEntries)
                        /\ ToSet(WithoutKeys(ss, keys)) = {e \in ToSet(ss) : e.key \notin keys}
  <1>1. DOMAIN ss = 1..Len(ss) /\ Len(ss) \in Nat /\ ToSet(ss) = {ss[i] : i \in 1..Len(ss)}
    BY DEF ToSet
  <1>2. ASSUME NEW s
        PROVE  /\ WithoutSource(ss, s) \in Seq(SourceKeyEntries)
               /\ Len(WithoutSource(ss, s)) <= Len(ss)
               /\ ToSet(WithoutSource(ss, s)) \subseteq ToSet(ss)
               /\ (\E e \in ToSet(ss) : e.source = s) => Len(WithoutSource(ss, s)) < Len(ss)
    <2> DEFINE places == {i \in DOMAIN ss : ss[i].source # s}
    <2>1. places \in SUBSET (1..Len(ss))
      BY <1>1
    <2>2. {ss[i] : i \in places} = {e \in ToSet(ss) : e.source # s}
      BY <1>1
    <2>3. /\ Cardinality(places) <= Len(ss)
          /\ (\E e \in ToSet(ss) : e.source = s) => Cardinality(places) < Len(ss)
      <3>1. IsFiniteSet(1..Len(ss)) /\ Cardinality(1..Len(ss)) = Len(ss)
        BY <1>1, UpTo
      <3>2. Cardinality(places) <= Len(ss) /\ Cardinality(places) \in Nat
            /\ (Cardinality(places) = Len(ss) => places = 1..Len(ss))
        BY <2>1, <3>1, FS_Subset, FS_CardinalityType
      <3>3. (\E e \in ToSet(ss) : e.source = s) => places # 1..Len(ss)
        BY <1>1
      <3> QED
        BY <1>1, <3>2, <3>3
    <2>4. WithoutSource(ss, s) = Kept(ss, places)
      BY DEF WithoutSource
    <2> HIDE DEF places
    <2>5. /\ Kept(ss, places) \in Seq(SourceKeyEntries) /\ Len(Kept(ss, places)) = Cardinality(places)
          /\ ToSet(Kept(ss, places)) = {ss[i] : i \in places}
      BY <2>1, KeptTable
    <2>6. ToSet(WithoutSource(ss, s)) \subseteq ToSet(ss)
      BY <2>2, <2>4, <2>5
    <2> QED
      BY <2>3, <2>4, <2>5, <2>6
  <1>3. ASSUME NEW keys
        PROVE  /\ WithoutKeys(ss, keys) \in Seq(SourceKeyEntries)
               /\ ToSet(WithoutKeys(ss, keys)) = {e \in ToSet(ss) : e.key \notin keys}
    <2> DEFINE places == {i \in DOMAIN ss : ss[i].key \notin keys}
    <2>1. places \in SUBSET (1..Len(ss))
      BY <1>1
    <2>2. {ss[i] : i \in places} = {e \in ToSet(ss) : e.key \notin keys}
      BY <1>1
    <2>3. WithoutKeys(ss, keys) = Kept(ss, places)
      BY DEF WithoutKeys
    <2> HIDE DEF places
    <2>4. /\ Kept(ss, places) \in Seq(SourceKeyEntries)
          /\ ToSet(Kept(ss, places)) = {ss[i] : i \in places}
      BY <2>1, KeptTable
    <2> QED
      BY <2>2, <2>3, <2>4
  <1> QED
    BY <1>2, <1>3

LEMMA SourceEntered ==
    ASSUME NEW ss \in Seq(SourceKeyEntries), NEW s \in Sources, NEW k \in Keys
    PROVE  /\ SourceLast(ss, s, k) \in Seq(SourceKeyEntries)
           /\ ToSet(SourceLast(ss, s, k)) \subseteq ToSet(ss) \cup {[source |-> s, key |-> k]}
           /\ (\E e \in ToSet(ss) : e.source = s) => Len(SourceLast(ss, s, k)) <= Len(ss)
  <1> DEFINE entry == [source |-> s, key |-> k]
             left == WithoutSource(ss, s)
  <1>1. entry \in SourceKeyEntries
    BY DEF SourceKeyEntries, Keys
  <1> HIDE DEF entry
  <1>2. /\ left \in Seq(SourceKeyEntries) /\ ToSet(left) \subseteq ToSet(ss)
        /\ (\E e \in ToSet(ss) : e.source = s) => Len(left) < Len(ss)
    BY SourcesLeft
  <1> HIDE DEF left
  <1>3. /\ Append(left, entry) \in Seq(SourceKeyEntries) /\ Len(Append(left, entry)) = Len(left) + 1
        /\ ToSet(Append(left, entry)) = ToSet(left) \cup {entry}
    BY <1>1, <1>2, AppendTable
  <1>4. SourceLast(ss, s, k) = Append(left, entry)
    BY DEF SourceLast, left, entry
  <1>5. Len(left) \in Nat /\ Len(ss) \in Nat
    BY <1>2
  <1> QED
    BY <1>2, <1>3, <1>4, <1>5 DEF entry

\* _evict_bank_cache_if_needed takes the source keys of the banks it evicts with them.
LEMMA Stored ==
    ASSUME NEW bs \in Seq(BankEntries), Unique(bs), NEW ss \in Seq(SourceKeyEntries), Store(bs, ss)
    PROVE  /\ banks' \in Seq(BankEntries) /\ Len(banks') <= MaxEntries /\ Len(banks') <= Len(bs)
           /\ Unique(banks') /\ ToSet(banks') \subseteq ToSet(bs)
           /\ sources' \in Seq(SourceKeyEntries) /\ Len(sources') <= MaxSourceKeys
           /\ \A e \in ToSet(sources') :
                 e \in ToSet(ss) /\ (e.key \in KeysIn(bs) => e.key \in KeysIn(banks)')
           /\ BanksIn(bs) \subseteq BanksIn(banks)' \cup retired'
           /\ retired' \subseteq retired \cup BanksIn(bs)
  <1>1. MaxEntries \in Nat /\ MaxSourceKeys \in Nat
    BY CapacityAssumption
  <1>2. /\ banks' \in Seq(BankEntries) /\ Len(banks') <= MaxEntries /\ Len(banks') <= Len(bs)
        /\ ToSet(banks') \subseteq ToSet(bs) /\ Unique(banks')
    BY <1>1, LastEntries DEF Store
  <1> DEFINE left == WithoutKeys(ss, KeysIn(bs) \ KeysIn(banks'))
  <1>3. left \in Seq(SourceKeyEntries) /\ ToSet(left) = {e \in ToSet(ss) : e.key \notin KeysIn(bs) \ KeysIn(banks')}
    BY SourcesLeft
  <1>4. sources' = LastOf(left, MaxSourceKeys)
    BY DEF Store
  <1> HIDE DEF left
  <1>5. /\ sources' \in Seq(SourceKeyEntries) /\ Len(sources') <= MaxSourceKeys
        /\ ToSet(sources') \subseteq ToSet(left)
    BY <1>1, <1>3, <1>4, LastEntries
  <1>6. \A e \in ToSet(sources') :
            e \in ToSet(ss) /\ (e.key \in KeysIn(bs) => e.key \in KeysIn(banks'))
    BY <1>3, <1>5
  <1>7. retired' = retired \cup (BanksIn(bs) \ BanksIn(banks'))
    BY DEF Store
  <1> QED
    BY <1>2, <1>5, <1>6, <1>7

-----------------------------------------------------------------------------
(* The cache under any calls, evictions and clearings *)

Callers(c, stages) == {t \in Threads : c[t].stage \in stages}

\* Every compilation and every count belongs to a call that is no longer under way.
Counted ==
    /\ Len(made) + Cardinality(Callers(call, {"compiling"})) <= calls
    /\ hits + misses + Cardinality(Callers(call, {"compiling", "compiled"})) <= calls

\* What the tables say is true, and no source key is without its bank.
TablesFit ==
    /\ Unique(banks) /\ Len(banks) <= misses
    /\ \A e \in ToSet(banks) : e.bank \in 1..Len(made) /\ made[e.bank] = e.key
    /\ \A e \in ToSet(sources) : e.key = KeyOf[e.source] /\ e.key \in KeysIn(banks)

\* What a caller has at each point of its call.
CallFits(t) ==
    /\ call[t].stage # "idle" => call[t].source \in Sources
    /\ call[t].stage = "compiled" => call[t].cached
    /\ call[t].stage \in {"compiled", "ready"} =>
          call[t].bank \in 1..Len(made) /\ made[call[t].bank] = KeyOf[call[t].source]
    /\ call[t].stage = "ready" /\ call[t].cached => call[t].bank \in BanksIn(banks) \cup retired

CacheInv == CacheTypeOK /\ Counted /\ TablesFit /\ \A t \in Threads : CallFits(t)

CacheNext ==
    \/ \E t \in Threads :
        \/ CacheStep(t) \/ Release(t)
        \/ \E s \in Sources, useCache \in BOOLEAN : Lookup(t, s) \/ Miss(t, s, useCache)
    \/ Clear

LEMMA CallersFinite ==
    ASSUME NEW c, NEW stages
    PROVE  IsFiniteSet(Callers(c, stages)) /\ Cardinality(Callers(c, stages)) \in Nat
  <1>1. Callers(c, stages) \subseteq Threads
    BY DEF Callers
  <1> QED
    BY <1>1, ThreadsAssumption, FS_Subset, FS_CardinalityType

\* One caller moves.
LEMMA CallerMoves ==
    ASSUME NEW t \in Threads, \A u \in Threads \ {t} : call'[u] = call[u], NEW stages
    PROVE  /\ call[t].stage \notin stages /\ call'[t].stage \in stages =>
                Cardinality(Callers(call', stages)) = Cardinality(Callers(call, stages)) + 1
           /\ call[t].stage \in stages /\ call'[t].stage \notin stages =>
                Cardinality(Callers(call', stages)) = Cardinality(Callers(call, stages)) - 1
           /\ (call[t].stage \in stages <=> call'[t].stage \in stages) =>
                Cardinality(Callers(call', stages)) = Cardinality(Callers(call, stages))
  <1> DEFINE C == Callers(call, stages)
             D == Callers(call', stages)
  <1>1. IsFiniteSet(C) /\ IsFiniteSet(D)
    BY CallersFinite
  <1>2. \A u \in Threads \ {t} : u \in C <=> u \in D
    BY DEF Callers
  <1>3. C \subseteq Threads /\ D \subseteq Threads
    BY DEF Callers
  <1>4. (t \in C <=> call[t].stage \in stages) /\ (t \in D <=> call'[t].stage \in stages)
    BY DEF Callers
  <1> HIDE DEF C, D
  <1>5. ASSUME t \notin C, t \in D
        PROVE  Cardinality(D) = Cardinality(C) + 1
    <2>1. D = C \cup {t}
      BY <1>2, <1>3, <1>5
    <2> QED
      BY <1>1, <1>5, <2>1, FS_AddElement
  <1>6. ASSUME t \in C, t \notin D
        PROVE  Cardinality(D) = Cardinality(C) - 1
    <2>1. D = C \ {t}
      BY <1>2, <1>3, <1>6
    <2> QED
      BY <1>1, <1>6, <2>1, FS_RemoveElement
  <1>7. ASSUME t \in C <=> t \in D
        PROVE  Cardinality(D) = Cardinality(C)
    <2>1. D = C
      BY <1>2, <1>3, <1>7
    <2> QED
      BY <2>1
  <1> QED
    BY <1>4, <1>5, <1>6, <1>7 DEF C, D

LEMMA CacheInitInv == CacheInit => CacheInv
  <1> SUFFICES ASSUME CacheInit PROVE CacheInv
    OBVIOUS
  <1>1. /\ banks = <<>> /\ sources = <<>> /\ hits = 0 /\ misses = 0 /\ calls = 0 /\ made = <<>>
        /\ retired = {} /\ call = [t \in Threads |-> NoCall]
    BY DEF CacheInit
  <1>2. ToSet(<<>>) = {}
    BY DEF ToSet
  <1>3. \A t \in Threads : call[t].stage = "idle"
    BY <1>1 DEF NoCall
  <1>4. Callers(call, {"compiling"}) = {} /\ Callers(call, {"compiling", "compiled"}) = {}
    BY <1>3 DEF Callers
  <1>5. Cardinality({}) = 0
    BY FS_EmptySet
  <1>6. CacheTypeOK
    BY <1>1, CapacityAssumption, CallsAssumption DEF CacheTypeOK, NoCall, NativeBanks
  <1>7. Counted
    <2>1. Len(made) = 0 /\ hits = 0 /\ misses = 0 /\ calls = 0
      BY <1>1
    <2>2. Cardinality(Callers(call, {"compiling"})) = 0
          /\ Cardinality(Callers(call, {"compiling", "compiled"})) = 0
      BY <1>4, <1>5
    <2> QED
      BY <2>1, <2>2 DEF Counted
  <1>8. TablesFit
    BY <1>1, <1>2 DEF TablesFit, Unique
  <1>9. \A t \in Threads : CallFits(t)
    BY <1>3 DEF CallFits
  <1> QED
    BY <1>6, <1>7, <1>8, <1>9 DEF CacheInv

CallRecords ==
    [stage : {"idle", "compiling", "compiled", "ready"}, source : Sources \cup {NoSource},
     bank : 0..MaxCalls, cached : BOOLEAN]

\* A step of one caller.
LEMMA CallStep ==
    ASSUME CacheTypeOK, NEW t \in Threads, NEW r \in CallRecords, call' = [call EXCEPT ![t] = r]
    PROVE  /\ call' \in [Threads -> CallRecords]
           /\ call'[t] = r /\ \A u \in Threads \ {t} : call'[u] = call[u]
           /\ call[t] \in CallRecords
           /\ \A stages :
                /\ Cardinality(Callers(call, stages)) \in Nat
                /\ Cardinality(Callers(call, stages)') \in Nat
                /\ call[t].stage \notin stages /\ r.stage \in stages =>
                     Cardinality(Callers(call, stages)') = Cardinality(Callers(call, stages)) + 1
                /\ call[t].stage \in stages /\ r.stage \notin stages =>
                     Cardinality(Callers(call, stages)') = Cardinality(Callers(call, stages)) - 1
                /\ (call[t].stage \in stages <=> r.stage \in stages) =>
                     Cardinality(Callers(call, stages)') = Cardinality(Callers(call, stages))
  <1>1. call \in [Threads -> CallRecords]
    BY DEF CacheTypeOK, CallRecords
  <1>2. call' \in [Threads -> CallRecords] /\ call'[t] = r /\ call[t] \in CallRecords
    BY <1>1
  <1>3. \A u \in Threads \ {t} : call'[u] = call[u]
    BY <1>1
  <1>4. ASSUME NEW stages
        PROVE  /\ Cardinality(Callers(call, stages)) \in Nat
               /\ Cardinality(Callers(call', stages)) \in Nat
               /\ call[t].stage \notin stages /\ r.stage \in stages =>
                    Cardinality(Callers(call', stages)) = Cardinality(Callers(call, stages)) + 1
               /\ call[t].stage \in stages /\ r.stage \notin stages =>
                    Cardinality(Callers(call', stages)) = Cardinality(Callers(call, stages)) - 1
               /\ (call[t].stage \in stages <=> r.stage \in stages) =>
                    Cardinality(Callers(call', stages)) = Cardinality(Callers(call, stages))
    <2>1. /\ Cardinality(Callers(call, stages)) \in Nat
          /\ Cardinality(Callers(call', stages)) \in Nat
      BY CallersFinite
    <2>2. /\ call[t].stage \notin stages /\ call'[t].stage \in stages =>
               Cardinality(Callers(call', stages)) = Cardinality(Callers(call, stages)) + 1
          /\ call[t].stage \in stages /\ call'[t].stage \notin stages =>
               Cardinality(Callers(call', stages)) = Cardinality(Callers(call, stages)) - 1
          /\ (call[t].stage \in stages <=> call'[t].stage \in stages) =>
               Cardinality(Callers(call', stages)) = Cardinality(Callers(call, stages))
      BY <1>3, CallerMoves
    <2> QED
      BY <1>2, <2>1, <2>2
  <1> QED
    BY <1>2, <1>3, <1>4

\* What CacheTypeOK says, one part at a time.
LEMMA CacheTypes ==
    ASSUME CacheTypeOK
    PROVE  /\ banks \in Seq(BankEntries) /\ Len(banks) \in Nat /\ Len(banks) <= MaxEntries
           /\ sources \in Seq(SourceKeyEntries) /\ Len(sources) \in Nat /\ Len(sources) <= MaxSourceKeys
           /\ hits \in Nat /\ misses \in Nat /\ calls \in 0..MaxCalls /\ MaxCalls \in Nat
           /\ call \in [Threads -> CallRecords]
           /\ made \in Seq(Keys) /\ Len(made) \in Nat /\ Len(made) <= calls
           /\ retired \subseteq NativeBanks
           /\ \A e \in ToSet(banks) : e \in BankEntries
           /\ \A e \in ToSet(sources) : e \in SourceKeyEntries
           /\ KeysIn(banks) = {e.key : e \in ToSet(banks)}
           /\ BanksIn(banks) = {e.bank : e \in ToSet(banks)}
  <1>1. /\ banks \in Seq(BankEntries) /\ Len(banks) <= MaxEntries
        /\ sources \in Seq(SourceKeyEntries) /\ Len(sources) <= MaxSourceKeys
        /\ made \in Seq(Keys) /\ Len(made) <= calls /\ retired \subseteq NativeBanks
    BY DEF CacheTypeOK, Keys
  <1>2. hits \in Nat /\ misses \in Nat /\ calls \in 0..MaxCalls /\ MaxCalls \in Nat
    BY CallsAssumption DEF CacheTypeOK
  <1>3. call \in [Threads -> CallRecords]
    BY DEF CacheTypeOK, CallRecords
  <1>4. Len(banks) \in Nat /\ Len(sources) \in Nat /\ Len(made) \in Nat
    BY <1>1
  <1>5. \A e \in ToSet(banks) : e \in BankEntries
    BY <1>1 DEF ToSet
  <1>6. \A e \in ToSet(sources) : e \in SourceKeyEntries
    BY <1>1 DEF ToSet
  <1>7. /\ KeysIn(banks) = {e.key : e \in ToSet(banks)}
        /\ BanksIn(banks) = {e.bank : e \in ToSet(banks)}
    BY <1>1, Projections
  <1> QED
    BY <1>1, <1>2, <1>3, <1>4, <1>5, <1>6, <1>7

LEMMA LookupStep ==
    ASSUME CacheInv, NEW t \in Threads, NEW s \in Sources, Lookup(t, s)
    PROVE  CacheInv'
  <1>1. CacheTypeOK /\ Counted /\ TablesFit /\ \A u \in Threads : CallFits(u)
    BY DEF CacheInv
  <1>2. PICK e \in SourceEntries(sources, s) :
            /\ e.key \in KeysIn(banks)
            /\ banks' = BankLast(banks, e.key, BankFor(banks, e.key))
            /\ sources' = SourceLast(sources, s, e.key)
            /\ call' = [call EXCEPT ![t] = [stage |-> "ready", source |-> s, cached |-> TRUE,
                                            bank |-> BankFor(banks, e.key)]]
    BY DEF Lookup
  <1> DEFINE k == e.key
             n == BankFor(banks, k)
             r == [stage |-> "ready", source |-> s, cached |-> TRUE, bank |-> n]
  <1>3. /\ call[t].stage = "idle" /\ calls < MaxCalls /\ calls' = calls + 1 /\ hits' = hits + 1
        /\ UNCHANGED <<misses, made, retired>>
    BY DEF Lookup
  <1>4. e \in ToSet(sources) /\ e.source = s /\ k = KeyOf[s] /\ k \in Keys
    BY <1>1, <1>2 DEF SourceEntries, TablesFit, Keys
  <1>5. /\ [key |-> k, bank |-> n] \in ToSet(banks)
        /\ banks' \in Seq(BankEntries) /\ Unique(banks')
        /\ Len(banks') = Len(banks) /\ ToSet(banks') = ToSet(banks)
    BY <1>1, <1>2, CacheTypes, BankMoved DEF TablesFit
  <1>6. n \in 1..Len(made) /\ made[n] = k /\ n \in BanksIn(banks)
    <2>1. [key |-> k, bank |-> n].bank = n /\ [key |-> k, bank |-> n].key = k
      OBVIOUS
    <2>2. /\ [key |-> k, bank |-> n].bank \in 1..Len(made)
          /\ made[[key |-> k, bank |-> n].bank] = [key |-> k, bank |-> n].key
      BY <1>1, <1>5, Zenon DEF TablesFit
    <2>3. [key |-> k, bank |-> n].bank \in BanksIn(banks)
      BY <1>1, <1>5, CacheTypes
    <2> QED
      BY <2>1, <2>2, <2>3
  <1>7. BanksIn(banks') = BanksIn(banks) /\ KeysIn(banks') = KeysIn(banks)
    BY <1>1, <1>5, CacheTypes, Projections
  <1>8. /\ sources' \in Seq(SourceKeyEntries) /\ Len(sources') <= Len(sources)
        /\ ToSet(sources') \subseteq ToSet(sources) \cup {[source |-> s, key |-> k]}
    BY <1>1, <1>2, <1>4, CacheTypes, SourceEntered
  <1> HIDE DEF k, n
  <1>9. r \in CallRecords
    BY <1>1, <1>6, CacheTypes DEF CallRecords
  <1>10. r.stage = "ready" /\ r.source = s /\ r.cached = TRUE /\ r.bank = n
    OBVIOUS
  <1>11. call' = [call EXCEPT ![t] = r]
    BY <1>2 DEF n, k
  <1> HIDE DEF r
  <1>12. Counted'
    <2>1. /\ Cardinality(Callers(call, {"compiling"})') = Cardinality(Callers(call, {"compiling"}))
          /\ Cardinality(Callers(call, {"compiling", "compiled"})')
                = Cardinality(Callers(call, {"compiling", "compiled"}))
          /\ Cardinality(Callers(call, {"compiling"})) \in Nat
          /\ Cardinality(Callers(call, {"compiling", "compiled"})) \in Nat
      BY <1>1, <1>3, <1>9, <1>10, <1>11, CallStep
    <2> QED
      BY <1>1, <1>3, <2>1, CacheTypes, SMTT(30) DEF Counted
  <1>13. /\ hits' \in 0..MaxCalls /\ misses' \in 0..MaxCalls /\ calls' \in 0..MaxCalls
         /\ Len(made') <= calls'
    <2>1. /\ Cardinality(Callers(call, {"compiling"})') \in Nat
          /\ Cardinality(Callers(call, {"compiling", "compiled"})') \in Nat
      BY <1>1, <1>9, <1>11, CallStep
    <2> QED
      BY <1>1, <1>3, <1>12, <2>1, CacheTypes, SMTT(30) DEF Counted
  <1>14. call' \in [Threads -> CallRecords] /\ call'[t] = r
         /\ \A u \in Threads \ {t} : call'[u] = call[u]
    BY <1>1, <1>9, <1>11, CallStep
  <1>15. CacheTypeOK'
    <2>1. /\ Len(banks') <= MaxEntries /\ Len(sources') <= MaxSourceKeys
          /\ made' \in Seq(Keys) /\ retired' \subseteq NativeBanks
      BY <1>1, <1>3, <1>5, <1>8, CacheTypes, CapacityAssumption
    <2> QED
      BY <1>5, <1>8, <1>13, <1>14, <2>1 DEF CacheTypeOK, CallRecords, Keys
  <1>16. TablesFit'
    <2>1. Unique(banks)' /\ Len(banks)' <= misses'
      BY <1>1, <1>3, <1>5 DEF TablesFit
    <2>2. \A b \in ToSet(banks)' : b.bank \in 1..Len(made)' /\ made'[b.bank] = b.key
      BY <1>1, <1>3, <1>5 DEF TablesFit
    <2>3. \A b \in ToSet(sources)' : b.key = KeyOf[b.source] /\ b.key \in KeysIn(banks)'
      <3>1. \A b \in ToSet(sources) : b.key = KeyOf[b.source] /\ b.key \in KeysIn(banks')
        BY <1>1, <1>7 DEF TablesFit
      <3>2. [source |-> s, key |-> k].key = KeyOf[[source |-> s, key |-> k].source]
            /\ [source |-> s, key |-> k].key \in KeysIn(banks')
        BY <1>2, <1>4, <1>7 DEF k
      <3> QED
        BY <1>8, <3>1, <3>2
    <2> QED
      BY <2>1, <2>2, <2>3 DEF TablesFit
  <1>17. ASSUME NEW u \in Threads
         PROVE  CallFits(u)'
    <2>1. CASE u = t
      BY <1>3, <1>4, <1>6, <1>7, <1>10, <1>14, <2>1 DEF CallFits
    <2>2. CASE u # t
      <3>1. call'[u] = call[u] /\ CallFits(u)
        BY <1>1, <1>14, <2>2
      <3> QED
        BY <1>3, <1>7, <3>1 DEF CallFits
    <2> QED
      BY <2>1, <2>2
  <1> QED
    BY <1>12, <1>15, <1>16, <1>17 DEF CacheInv


LEMMA MissStep ==
    ASSUME CacheInv, NEW t \in Threads, NEW s \in Sources, NEW useCache \in BOOLEAN,
           Miss(t, s, useCache)
    PROVE  CacheInv'
  <1>1. CacheTypeOK /\ Counted /\ TablesFit /\ \A u \in Threads : CallFits(u)
    BY DEF CacheInv
  <1> DEFINE r == [stage |-> "compiling", source |-> s, cached |-> useCache, bank |-> 0]
  <1>2. /\ call[t].stage = "idle" /\ calls < MaxCalls /\ calls' = calls + 1
        /\ UNCHANGED <<banks, hits, misses, made, retired>>
        /\ call' = [call EXCEPT ![t] = r]
        /\ sources' = sources \/ sources' = WithoutSource(sources, s)
    BY DEF Miss
  <1>3. /\ sources' \in Seq(SourceKeyEntries) /\ Len(sources') <= Len(sources)
        /\ ToSet(sources') \subseteq ToSet(sources)
    BY <1>1, <1>2, CacheTypes, SourcesLeft
  <1>4. r \in CallRecords
    BY <1>1, CacheTypes DEF CallRecords
  <1>5. r.stage = "compiling" /\ r.source = s
    OBVIOUS
  <1>6. /\ call' = [call EXCEPT ![t] = r] /\ call[t].stage = "idle" /\ calls < MaxCalls
        /\ calls' = calls + 1
    BY <1>2
  <1> HIDE DEF r
  <1>7. call' \in [Threads -> CallRecords] /\ call'[t] = r
        /\ \A u \in Threads \ {t} : call'[u] = call[u]
    BY <1>1, <1>4, <1>6, CallStep
  <1>8. /\ Cardinality(Callers(call, {"compiling"})') = Cardinality(Callers(call, {"compiling"})) + 1
        /\ Cardinality(Callers(call, {"compiling", "compiled"})')
              = Cardinality(Callers(call, {"compiling", "compiled"})) + 1
        /\ Cardinality(Callers(call, {"compiling"})) \in Nat
        /\ Cardinality(Callers(call, {"compiling", "compiled"})) \in Nat
    BY <1>1, <1>4, <1>5, <1>6, CallStep
  <1>9. Counted' /\ calls' \in 0..MaxCalls /\ Len(made') <= calls'
    BY <1>1, <1>2, <1>8, CacheTypes, SMTT(30) DEF Counted
  <1>10. CacheTypeOK'
    <2>1. /\ banks' \in Seq(BankEntries) /\ Len(banks') <= MaxEntries /\ Len(sources') <= MaxSourceKeys
          /\ made' \in Seq(Keys) /\ retired' \subseteq NativeBanks
          /\ hits' \in 0..MaxCalls /\ misses' \in 0..MaxCalls
      <3>1. hits \in 0..MaxCalls /\ misses \in 0..MaxCalls
        BY <1>1 DEF CacheTypeOK
      <3>2. Len(sources') \in Nat /\ MaxSourceKeys \in Nat
        BY <1>3, CapacityAssumption
      <3> QED
        BY <1>1, <1>2, <1>3, <3>1, <3>2, CacheTypes
    <2> QED
      BY <1>3, <1>7, <1>9, <2>1 DEF CacheTypeOK, CallRecords, Keys
  <1>11. TablesFit'
    BY <1>1, <1>2, <1>3 DEF TablesFit, Unique, KeysIn
  <1>12. ASSUME NEW u \in Threads
         PROVE  CallFits(u)'
    <2>1. CASE u = t
      BY <1>5, <1>7, <2>1 DEF CallFits
    <2>2. CASE u # t
      <3>1. call'[u] = call[u] /\ CallFits(u)
        BY <1>1, <1>7, <2>2
      <3> QED
        BY <1>2, <3>1 DEF CallFits, BanksIn
    <2> QED
      BY <2>1, <2>2
  <1> QED
    BY <1>9, <1>10, <1>11, <1>12 DEF CacheInv

LEMMA CompileStep ==
    ASSUME CacheInv, NEW t \in Threads, Compile(t)
    PROVE  CacheInv'
  <1>1. CacheTypeOK /\ Counted /\ TablesFit /\ \A u \in Threads : CallFits(u)
    BY DEF CacheInv
  <1> DEFINE key == KeyOf[call[t].source]
             r == [call[t] EXCEPT !.bank = Len(made'),
                                  !.stage = IF call[t].cached THEN "compiled" ELSE "ready"]
  <1>2. call[t].stage = "compiling" /\ made' = Append(made, key)
        /\ UNCHANGED <<banks, sources, hits, misses, calls, retired>>
        /\ call' = [call EXCEPT ![t] = r]
    BY DEF Compile
  <1>3. call[t] \in CallRecords /\ call[t].source \in Sources /\ call[t].cached \in BOOLEAN
    BY <1>1, <1>2, CacheTypes DEF CallFits, CallRecords
  <1>4. key \in Keys
    BY <1>3 DEF Keys
  <1> HIDE DEF key
  <1>5. made' \in Seq(Keys) /\ Len(made') = Len(made) + 1 /\ made'[Len(made')] = key
        /\ \A i \in 1..Len(made) : made'[i] = made[i] /\ i \in 1..Len(made')
    BY <1>1, <1>2, <1>4, CacheTypes
  <1>6. /\ Cardinality(Callers(call, {"compiling"})) \in Nat /\ Callers(call, {"compiling"}) # {}
        /\ IsFiniteSet(Callers(call, {"compiling"}))
    BY <1>2, CallersFinite DEF Callers
  <1>7. Cardinality(Callers(call, {"compiling"})) > 0
    BY <1>6, FS_EmptySet
  <1>8. Len(made') \in 1..MaxCalls
    BY <1>1, <1>5, <1>6, <1>7, CacheTypes DEF Counted
  <1>9. r \in CallRecords
    <2> DEFINE n == Len(made')
               stage == IF call[t].cached THEN "compiled" ELSE "ready"
    <2>1. n \in 0..MaxCalls /\ stage \in {"idle", "compiling", "compiled", "ready"}
      BY <1>8
    <2> HIDE DEF n, stage
    <2>2. [call[t] EXCEPT !.bank = n, !.stage = stage] \in CallRecords
      BY <1>3, <2>1 DEF CallRecords
    <2> QED
      BY <2>2 DEF n, stage
  <1>10. /\ r.stage = (IF call[t].cached THEN "compiled" ELSE "ready")
         /\ r.source = call[t].source /\ r.bank = Len(made') /\ r.cached = call[t].cached
    BY <1>3 DEF CallRecords
  <1>11. call' = [call EXCEPT ![t] = r]
    BY <1>2
  <1> HIDE DEF r
  <1>12. call' \in [Threads -> CallRecords] /\ call'[t] = r
         /\ \A u \in Threads \ {t} : call'[u] = call[u]
    BY <1>1, <1>9, <1>11, CallStep
  <1>13. /\ Cardinality(Callers(call, {"compiling"})') = Cardinality(Callers(call, {"compiling"})) - 1
         /\ Cardinality(Callers(call, {"compiling", "compiled"})')
               <= Cardinality(Callers(call, {"compiling", "compiled"}))
         /\ Cardinality(Callers(call, {"compiling", "compiled"})) \in Nat
         /\ Cardinality(Callers(call, {"compiling", "compiled"})') \in Nat
    <2>1. Cardinality(Callers(call, {"compiling"})') = Cardinality(Callers(call, {"compiling"})) - 1
      <3>1. call[t].stage \in {"compiling"} /\ r.stage \notin {"compiling"}
        BY <1>2, <1>10
      <3> QED
        BY <1>1, <1>9, <1>11, <3>1, CallStep
    <2> DEFINE both == {"compiling", "compiled"}
    <2>2. call[t].stage \in both
      BY <1>2
    <2> HIDE DEF both
    <2>3. /\ Cardinality(Callers(call, both)) \in Nat
          /\ Cardinality(Callers(call, both)') \in Nat
          /\ call[t].stage \in both /\ r.stage \notin both =>
               Cardinality(Callers(call, both)') = Cardinality(Callers(call, both)) - 1
          /\ (call[t].stage \in both <=> r.stage \in both) =>
               Cardinality(Callers(call, both)') = Cardinality(Callers(call, both))
      BY <1>1, <1>9, <1>11, CallStep
    <2>4. /\ Cardinality(Callers(call, both)') <= Cardinality(Callers(call, both))
          /\ Cardinality(Callers(call, both)) \in Nat /\ Cardinality(Callers(call, both)') \in Nat
      BY <2>2, <2>3
    <2> QED
      BY <2>1, <2>4 DEF both
  <1>14. Counted'
    BY <1>1, <1>2, <1>5, <1>6, <1>13, CacheTypes DEF Counted
  <1>15. CacheTypeOK'
    <2>1. Len(made') <= calls'
      BY <1>1, <1>2, <1>5, <1>6, <1>7, CacheTypes DEF Counted
    <2> QED
      BY <1>1, <1>2, <1>5, <1>12, <2>1 DEF CacheTypeOK, CallRecords, Keys
  <1>16. TablesFit'
    BY <1>1, <1>2, <1>5, SMTT(30) DEF TablesFit, Unique, KeysIn
  <1>17. ASSUME NEW u \in Threads
         PROVE  CallFits(u)'
    <2>1. CASE u = t
      BY <1>3, <1>5, <1>8, <1>10, <1>12, <2>1 DEF CallFits, key
    <2>2. CASE u # t
      <3>1. call'[u] = call[u] /\ CallFits(u)
        BY <1>1, <1>12, <2>2
      <3> QED
        BY <1>2, <1>5, <3>1 DEF CallFits, BanksIn
    <2> QED
      BY <2>1, <2>2
  <1> QED
    BY <1>14, <1>15, <1>16, <1>17 DEF CacheInv

\* A caller lets go of its bank, or gets none.
LEMMA IdleStep ==
    ASSUME CacheInv, NEW t \in Threads, CompileFails(t) \/ Release(t)
    PROVE  CacheInv'
  <1>1. CacheTypeOK /\ Counted /\ TablesFit /\ \A u \in Threads : CallFits(u)
    BY DEF CacheInv
  <1>2. /\ UNCHANGED <<banks, sources, hits, misses, calls, made, retired>>
        /\ call' = [call EXCEPT ![t] = NoCall]
    BY DEF CompileFails, Release
  <1>3. NoCall \in CallRecords /\ NoCall.stage = "idle"
    BY <1>1, CacheTypes DEF CallRecords, NoCall
  <1>4. call' \in [Threads -> CallRecords] /\ call'[t] = NoCall
        /\ \A u \in Threads \ {t} : call'[u] = call[u]
    BY <1>1, <1>2, <1>3, CallStep
  <1>5. ASSUME NEW stages, "idle" \notin stages
        PROVE  /\ Cardinality(Callers(call, stages)') <= Cardinality(Callers(call, stages))
               /\ Cardinality(Callers(call, stages)) \in Nat
               /\ Cardinality(Callers(call, stages)') \in Nat
    <2>1. /\ Cardinality(Callers(call, stages)) \in Nat
          /\ Cardinality(Callers(call, stages)') \in Nat
          /\ call[t].stage \in stages /\ NoCall.stage \notin stages =>
               Cardinality(Callers(call, stages)') = Cardinality(Callers(call, stages)) - 1
          /\ (call[t].stage \in stages <=> NoCall.stage \in stages) =>
               Cardinality(Callers(call, stages)') = Cardinality(Callers(call, stages))
      BY <1>1, <1>2, <1>3, CallStep
    <2>2. NoCall.stage \notin stages
      BY <1>3, <1>5
    <2> QED
      BY <2>1, <2>2
  <1>6. /\ Cardinality(Callers(call, {"compiling"})') <= Cardinality(Callers(call, {"compiling"}))
        /\ Cardinality(Callers(call, {"compiling", "compiled"})')
              <= Cardinality(Callers(call, {"compiling", "compiled"}))
        /\ Cardinality(Callers(call, {"compiling"})) \in Nat
        /\ Cardinality(Callers(call, {"compiling"})') \in Nat
        /\ Cardinality(Callers(call, {"compiling", "compiled"})) \in Nat
        /\ Cardinality(Callers(call, {"compiling", "compiled"})') \in Nat
    BY <1>5
  <1>7. Counted'
    BY <1>1, <1>2, <1>6, CacheTypes, SMTT(30) DEF Counted
  <1>8. CacheTypeOK'
    BY <1>1, <1>2, <1>4 DEF CacheTypeOK, CallRecords
  <1>9. TablesFit'
    BY <1>1, <1>2 DEF TablesFit, Unique, KeysIn
  <1>10. ASSUME NEW u \in Threads
         PROVE  CallFits(u)'
    <2>1. CASE u = t
      BY <1>3, <1>4, <2>1 DEF CallFits
    <2>2. CASE u # t
      <3>1. call'[u] = call[u] /\ CallFits(u)
        BY <1>1, <1>4, <2>2
      <3> QED
        BY <1>2, <3>1 DEF CallFits, BanksIn
    <2> QED
      BY <2>1, <2>2
  <1> QED
    BY <1>7, <1>8, <1>9, <1>10 DEF CacheInv

LEMMA ClearStep ==
    ASSUME CacheInv, Clear
    PROVE  CacheInv'
  <1>1. CacheTypeOK /\ Counted /\ TablesFit /\ \A u \in Threads : CallFits(u)
    BY DEF CacheInv
  <1>2. /\ banks' = <<>> /\ sources' = <<>> /\ hits' = 0 /\ misses' = 0
        /\ retired' = retired \cup BanksIn(banks) /\ UNCHANGED <<call, calls, made>>
    BY DEF Clear
  <1>3. ToSet(<<>>) = {}
    BY DEF ToSet
  <1>4. retired' \subseteq NativeBanks
    BY <1>1, <1>2, CacheTypes DEF BankEntries
  <1>5. CacheTypeOK'
    BY <1>1, <1>2, <1>4, CapacityAssumption, CallsAssumption DEF CacheTypeOK
  <1>6. Counted'
    <2>1. /\ Cardinality(Callers(call, {"compiling", "compiled"})) \in Nat
          /\ Callers(call', {"compiling"}) = Callers(call, {"compiling"})
          /\ Callers(call', {"compiling", "compiled"}) = Callers(call, {"compiling", "compiled"})
      BY <1>2, CallersFinite
    <2> QED
      BY <1>1, <1>2, <2>1, CacheTypes DEF Counted
  <1>7. TablesFit'
    BY <1>2, <1>3 DEF TablesFit, Unique
  <1>8. ASSUME NEW u \in Threads
        PROVE  CallFits(u)'
    <2>1. call'[u] = call[u] /\ CallFits(u)
      BY <1>1, <1>2
    <2> QED
      BY <1>2, <2>1 DEF CallFits
  <1> QED
    BY <1>5, <1>6, <1>7, <1>8 DEF CacheInv

\* A call that is counted is no longer under way.
LEMMA OneCounted ==
    ASSUME NEW h \in Nat, NEW m \in Nat, NEW g \in Nat, NEW c \in Nat, NEW d \in Nat,
           NEW l \in Nat, NEW i \in Nat, NEW j \in Nat,
           h + m + g <= c, j = g - 1, l + i = h + m + 1, c <= d
    PROVE  l + i + j <= c /\ l <= d /\ i <= d
  OBVIOUS

\* The second locked section, whichever way it goes: bs is the table before the eviction, n the
\* bank that is returned.
LEMMA EnterStep ==
    ASSUME CacheInv, NEW t \in Threads, call[t].stage = "compiled",
           NEW bs \in Seq(BankEntries), Unique(bs), Len(bs) <= misses',
           \A b \in ToSet(bs) : b.bank \in 1..Len(made) /\ made[b.bank] = b.key,
           BanksIn(banks) \subseteq BanksIn(bs), KeysIn(banks) \subseteq KeysIn(bs),
           NEW n \in BanksIn(bs), made[n] = KeyOf[call[t].source], made[n] \in KeysIn(bs),
           hits' \in Nat, misses' \in Nat, hits' + misses' = hits + misses + 1,
           Store(bs, SourceLast(sources, call[t].source, made[n])), Given(t, n),
           UNCHANGED <<calls, made>>
    PROVE  CacheInv'
  <1>1. CacheTypeOK /\ Counted /\ TablesFit /\ \A u \in Threads : CallFits(u)
    BY DEF CacheInv
  <1> DEFINE s == call[t].source
             k == made[n]
             ss == SourceLast(sources, s, k)
             r == [call[t] EXCEPT !.stage = "ready", !.bank = n]
  <1>2. call[t] \in CallRecords /\ s \in Sources /\ k = KeyOf[s] /\ k \in Keys
    BY <1>1, CacheTypes DEF CallFits, Keys
  <1>3. BanksIn(bs) = {b.bank : b \in ToSet(bs)} /\ KeysIn(bs) = {b.key : b \in ToSet(bs)}
    BY Projections
  <1>4. n \in 1..Len(made)
    BY <1>3
  <1>5. n \in 1..MaxCalls
    BY <1>1, <1>4, CacheTypes
  <1>6. /\ ss \in Seq(SourceKeyEntries)
        /\ ToSet(ss) \subseteq ToSet(sources) \cup {[source |-> s, key |-> k]}
    BY <1>1, <1>2, CacheTypes, SourceEntered
  <1>7. Store(bs, ss)
    OBVIOUS
  <1>8. call' = [call EXCEPT ![t] = r]
    BY DEF Given
  <1>9. r \in CallRecords
    <2>1. n \in 0..MaxCalls
      BY <1>1, <1>5, CacheTypes
    <2>2. \A m \in 0..MaxCalls : [call[t] EXCEPT !.stage = "ready", !.bank = m] \in CallRecords
      <3>1. call[t] \in CallRecords
        BY <1>2
      <3> QED
        BY ONLY <3>1 DEF CallRecords
    <2> QED
      BY <2>1, <2>2
  <1>10. r.stage = "ready" /\ r.source = s /\ r.bank = n /\ r.cached = call[t].cached
    BY <1>2 DEF CallRecords
  <1> HIDE DEF ss, r
  <1>11. /\ banks' \in Seq(BankEntries) /\ Len(banks') <= MaxEntries /\ Len(banks') <= Len(bs)
         /\ Unique(banks') /\ ToSet(banks') \subseteq ToSet(bs)
         /\ sources' \in Seq(SourceKeyEntries) /\ Len(sources') <= MaxSourceKeys
         /\ \A e \in ToSet(sources') :
               e \in ToSet(ss) /\ (e.key \in KeysIn(bs) => e.key \in KeysIn(banks)')
         /\ BanksIn(bs) \subseteq BanksIn(banks)' \cup retired'
         /\ retired' \subseteq retired \cup BanksIn(bs)
    BY <1>6, <1>7, Stored
  <1>12. call' \in [Threads -> CallRecords] /\ call'[t] = r
         /\ \A u \in Threads \ {t} : call'[u] = call[u]
    BY <1>1, <1>8, <1>9, CallStep
  <1>13. /\ Cardinality(Callers(call, {"compiling"})') = Cardinality(Callers(call, {"compiling"}))
         /\ Cardinality(Callers(call, {"compiling", "compiled"})')
               = Cardinality(Callers(call, {"compiling", "compiled"})) - 1
         /\ Cardinality(Callers(call, {"compiling"})) \in Nat
         /\ Cardinality(Callers(call, {"compiling", "compiled"})) \in Nat
         /\ Cardinality(Callers(call, {"compiling", "compiled"})') \in Nat
    <2>1. call[t].stage \notin {"compiling"} /\ r.stage \notin {"compiling"}
      BY <1>10
    <2>2. call[t].stage \in {"compiling", "compiled"} /\ r.stage \notin {"compiling", "compiled"}
      BY <1>10
    <2>3. /\ Cardinality(Callers(call, {"compiling"})') = Cardinality(Callers(call, {"compiling"}))
          /\ Cardinality(Callers(call, {"compiling"})) \in Nat
      BY <1>1, <1>8, <1>9, <2>1, CallStep
    <2>4. /\ Cardinality(Callers(call, {"compiling", "compiled"})')
                = Cardinality(Callers(call, {"compiling", "compiled"})) - 1
          /\ Cardinality(Callers(call, {"compiling", "compiled"})) \in Nat
          /\ Cardinality(Callers(call, {"compiling", "compiled"})') \in Nat
      BY <1>1, <1>8, <1>9, <2>2, CallStep
    <2> QED
      BY <2>3, <2>4
  <1>14. Counted' /\ hits' \in 0..MaxCalls /\ misses' \in 0..MaxCalls
    <2>1. PICK f, g, j :
            /\ f = Cardinality(Callers(call, {"compiling"}))
            /\ g = Cardinality(Callers(call, {"compiling", "compiled"}))
            /\ j = Cardinality(Callers(call, {"compiling", "compiled"})')
      OBVIOUS
    <2>2. /\ f = Cardinality(Callers(call, {"compiling"})') /\ j = g - 1
          /\ f \in Nat /\ g \in Nat /\ j \in Nat
      BY <1>13, <2>1
    <2>3. Len(made) + f <= calls /\ hits + misses + g <= calls
      BY <1>1, <2>1 DEF Counted
    <2>4. /\ hits \in Nat /\ misses \in Nat /\ calls \in Nat /\ MaxCalls \in Nat
          /\ calls <= MaxCalls /\ made' = made /\ calls' = calls
      BY <1>1, CacheTypes
    <2>5. hits' \in Nat /\ misses' \in Nat /\ hits' + misses' = hits + misses + 1
      OBVIOUS
    <2>6. hits' + misses' + j <= calls /\ hits' <= MaxCalls /\ misses' <= MaxCalls
      <3>1. PICK h, m : h = hits' /\ m = misses'
        OBVIOUS
      <3>2. h \in Nat /\ m \in Nat /\ h + m = hits + misses + 1
        BY <2>5, <3>1
      <3>3. h + m + j <= calls /\ h <= MaxCalls /\ m <= MaxCalls
        BY ONLY <2>2, <2>3, <2>4, <3>2, OneCounted
      <3> QED
        BY <3>1, <3>3
    <2>7. Len(made') + f <= calls' /\ hits' + misses' + j <= calls'
      BY <2>3, <2>4, <2>6
    <2>8. Counted'
      BY <2>1, <2>2, <2>7 DEF Counted
    <2>9. hits' \in 0..MaxCalls /\ misses' \in 0..MaxCalls
      BY ONLY <2>4, <2>5, <2>6
    <2> QED
      BY <2>8, <2>9
  <1>15. CacheTypeOK'
    <2>1. retired' \subseteq NativeBanks
      <3>1. Len(made) \in Nat /\ Len(made) <= calls /\ calls \in 0..MaxCalls /\ MaxCalls \in Nat
        BY <1>1, CacheTypes
      <3>2. 1..Len(made) \subseteq NativeBanks
        BY <3>1 DEF NativeBanks
      <3>3. BanksIn(bs) \subseteq NativeBanks
        BY <1>3, <3>2
      <3>4. retired \subseteq NativeBanks
        BY <1>1, CacheTypes
      <3> QED
        BY <1>11, <3>3, <3>4
    <2>2. calls' \in 0..MaxCalls /\ made' \in Seq(Keys) /\ Len(made') <= calls'
      BY <1>1, CacheTypes
    <2> QED
      BY <1>11, <1>12, <1>14, <2>1, <2>2 DEF CacheTypeOK, CallRecords, Keys
  <1>16. TablesFit'
    <2>1. Unique(banks)' /\ Len(banks)' <= misses'
      <3>1. Len(banks') \in Nat /\ Len(bs) \in Nat
        BY <1>11
      <3> QED
        BY <1>11, <3>1
    <2>2. \A b \in ToSet(banks)' : b.bank \in 1..Len(made)' /\ made'[b.bank] = b.key
      BY <1>11
    <2>3. ASSUME NEW e \in ToSet(sources)'
          PROVE  e.key = KeyOf[e.source] /\ e.key \in KeysIn(banks)'
      <3>1. e \in ToSet(sources) \/ e = [source |-> s, key |-> k]
        BY <1>6, <1>11
      <3>2. e.key = KeyOf[e.source] /\ e.key \in KeysIn(bs)
        <4>1. CASE e \in ToSet(sources)
          BY <1>1, <4>1 DEF TablesFit
        <4>2. CASE e = [source |-> s, key |-> k]
          BY <1>2, <4>2
        <4> QED
          BY <3>1, <4>1, <4>2
      <3> QED
        BY <1>11, <3>2
    <2> QED
      BY <2>1, <2>2, <2>3 DEF TablesFit
  <1>17. ASSUME NEW u \in Threads
         PROVE  CallFits(u)'
    <2>1. CASE u = t
      BY <1>2, <1>4, <1>10, <1>11, <1>12, <2>1 DEF CallFits
    <2>2. CASE u # t
      <3>1. call'[u] = call[u] /\ CallFits(u)
        BY <1>1, <1>12, <2>2
      <3>2. BanksIn(banks) \cup retired \subseteq BanksIn(banks)' \cup retired'
        BY <1>7, <1>11 DEF Store
      <3> QED
        BY <3>1, <3>2 DEF CallFits
    <2> QED
      BY <2>1, <2>2
  <1> QED
    BY <1>14, <1>15, <1>16, <1>17 DEF CacheInv

\* Another thread was faster: its bank is returned, and moves to the end.
LEMMA ReuseStep ==
    ASSUME CacheInv, NEW t \in Threads, Reuse(t)
    PROVE  CacheInv'
  <1>1. CacheTypeOK /\ Counted /\ TablesFit /\ CallFits(t)
    BY DEF CacheInv
  <1> DEFINE k == made[call[t].bank]
             n == BankFor(banks, k)
             bs == BankLast(banks, k, n)
  <1>2. /\ call[t].stage = "compiled" /\ k \in KeysIn(banks)
        /\ Store(bs, SourceLast(sources, call[t].source, k)) /\ Given(t, n)
        /\ hits' = hits + 1 /\ UNCHANGED <<misses, calls, made>>
    BY DEF Reuse
  <1>3. k = KeyOf[call[t].source]
    BY <1>1, <1>2 DEF CallFits
  <1> HIDE DEF k
  <1>4. /\ [key |-> k, bank |-> n] \in ToSet(banks)
        /\ bs \in Seq(BankEntries) /\ Unique(bs)
        /\ Len(bs) = Len(banks) /\ ToSet(bs) = ToSet(banks)
    BY <1>1, <1>2, CacheTypes, BankMoved DEF TablesFit
  <1>5. BanksIn(bs) = BanksIn(banks) /\ KeysIn(bs) = KeysIn(banks)
    BY <1>1, <1>4, CacheTypes, Projections
  <1> HIDE DEF n, bs
  <1>6. made[n] = k /\ n \in BanksIn(bs)
    <2>1. [key |-> k, bank |-> n].bank = n /\ [key |-> k, bank |-> n].key = k
      OBVIOUS
    <2>2. made[[key |-> k, bank |-> n].bank] = [key |-> k, bank |-> n].key
      BY <1>1, <1>4, Zenon DEF TablesFit
    <2>3. [key |-> k, bank |-> n].bank \in BanksIn(banks)
      BY <1>1, <1>4, CacheTypes
    <2> QED
      BY <1>5, <2>1, <2>2, <2>3
  <1>7. \A b \in ToSet(bs) : b.bank \in 1..Len(made) /\ made[b.bank] = b.key
    BY <1>1, <1>4 DEF TablesFit
  <1>8. hits' \in Nat /\ misses' \in Nat /\ hits' + misses' = hits + misses + 1 /\ Len(bs) <= misses'
    BY <1>1, <1>2, <1>4, CacheTypes DEF TablesFit
  <1> QED
    BY <1>2, <1>3, <1>4, <1>5, <1>6, <1>7, <1>8, EnterStep

LEMMA InsertStep ==
    ASSUME CacheInv, NEW t \in Threads, Insert(t)
    PROVE  CacheInv'
  <1>1. CacheTypeOK /\ Counted /\ TablesFit /\ CallFits(t)
    BY DEF CacheInv
  <1> DEFINE n == call[t].bank
             k == made[n]
             bs == BankLast(banks, k, n)
  <1>2. /\ call[t].stage = "compiled" /\ k \notin KeysIn(banks)
        /\ Store(bs, SourceLast(sources, call[t].source, k)) /\ Given(t, n)
        /\ misses' = misses + 1 /\ UNCHANGED <<hits, calls, made>>
    BY DEF Insert
  <1>3. k = KeyOf[call[t].source] /\ n \in 1..Len(made) /\ call[t].source \in Sources
    BY <1>1, <1>2 DEF CallFits
  <1>4. k \in Keys \ KeysIn(banks) /\ n \in NativeBanks
    BY <1>1, <1>2, <1>3, CacheTypes DEF Keys, NativeBanks
  <1>5. /\ bs \in Seq(BankEntries) /\ Unique(bs) /\ Len(bs) = Len(banks) + 1
        /\ ToSet(bs) = ToSet(banks) \cup {[key |-> k, bank |-> n]}
    BY <1>1, <1>4, CacheTypes, BankEntered DEF TablesFit
  <1> HIDE DEF n, bs
  <1>6. [key |-> k, bank |-> n].bank = n /\ [key |-> k, bank |-> n].key = k
    OBVIOUS
  <1>7. BanksIn(bs) = BanksIn(banks) \cup {n} /\ KeysIn(bs) = KeysIn(banks) \cup {k}
    <2>1. /\ BanksIn(bs) = {b.bank : b \in ToSet(bs)} /\ KeysIn(bs) = {b.key : b \in ToSet(bs)}
          /\ BanksIn(banks) = {b.bank : b \in ToSet(banks)} /\ KeysIn(banks) = {b.key : b \in ToSet(banks)}
      BY <1>1, <1>5, CacheTypes, Projections
    <2> QED
      BY <1>5, <1>6, <2>1, ZenonT(60)
  <1>8. \A b \in ToSet(bs) : b.bank \in 1..Len(made) /\ made[b.bank] = b.key
    BY <1>1, <1>3, <1>5, <1>6 DEF TablesFit
  <1>9. hits' \in Nat /\ misses' \in Nat /\ hits' + misses' = hits + misses + 1 /\ Len(bs) <= misses'
    <2>1. hits' = hits /\ misses' = misses + 1 /\ Len(bs) = Len(banks) + 1
      BY <1>2, <1>5
    <2>2. hits \in Nat /\ misses \in Nat /\ Len(banks) \in Nat
      BY <1>1, CacheTypes
    <2>3. Len(banks) <= misses
      BY <1>1 DEF TablesFit
    <2> QED
      BY ONLY <2>1, <2>2, <2>3
  <1>10. /\ n \in BanksIn(bs) /\ made[n] = KeyOf[call[t].source] /\ made[n] \in KeysIn(bs)
         /\ BanksIn(banks) \subseteq BanksIn(bs) /\ KeysIn(banks) \subseteq KeysIn(bs)
    BY <1>3, <1>7
  <1> QED
    BY <1>2, <1>5, <1>8, <1>9, <1>10, EnterStep

LEMMA CacheInvStep == CacheInv /\ [CacheNext]_cacheVars => CacheInv'
  <1> SUFFICES ASSUME CacheInv, [CacheNext]_cacheVars PROVE CacheInv'
    OBVIOUS
  <1>1. CASE UNCHANGED cacheVars
    BY <1>1 DEF CacheInv, CacheTypeOK, Counted, TablesFit, CallFits, Unique, cacheVars, Callers,
                KeysIn, BanksIn
  <1>2. ASSUME NEW t \in Threads, CacheStep(t) \/ Release(t)
        PROVE  CacheInv'
    BY <1>2, CompileStep, IdleStep, ReuseStep, InsertStep DEF CacheStep
  <1>3. ASSUME NEW t \in Threads, NEW s \in Sources, NEW useCache \in BOOLEAN,
               Lookup(t, s) \/ Miss(t, s, useCache)
        PROVE  CacheInv'
    BY <1>3, LookupStep, MissStep
  <1>4. CASE Clear
    BY <1>4, ClearStep
  <1> QED
    BY <1>1, <1>2, <1>3, <1>4 DEF CacheNext

-----------------------------------------------------------------------------
(* Threads that fetch banks and scan with them *)

ServiceInv ==
    /\ CacheInv /\ load \in Workloads
    /\ scans \in 0..load.scans /\ clears \in 0..load.clears /\ panics \in 0..load.panics

\* What a workload is.
LEMMA Loads ==
    ASSUME NEW w \in Workloads
    PROVE  /\ w.sources \subseteq Sources /\ w.uncached \in BOOLEAN
           /\ w.scans \in Nat /\ w.clears \in Nat /\ w.panics \in Nat
  BY WorkloadsAssumption

\* A step of the service is a step of the cache, or leaves it alone.
LEMMA ServiceToCache ==
    ASSUME ServiceInv, [Next]_vars
    PROVE  [CacheNext]_cacheVars
  <1>1. CASE UNCHANGED vars
    BY <1>1 DEF vars
  <1>2. ASSUME NEW t \in Threads, BeginScan(t) \/ Scanning(t) \/ Panicking(t) \/ StrayWake(t)
        PROVE  UNCHANGED cacheVars
    BY <1>2 DEF BeginScan, Scanning, Panicking, StrayWake
  <1>3. ASSUME NEW t \in Threads, Fetching(t)
        PROVE  CacheNext
    <2>1. load.sources \subseteq Sources /\ {TRUE, ~load.uncached} \subseteq BOOLEAN
      BY Loads DEF ServiceInv
    <2>2. CASE CacheStep(t) \/ Release(t)
      BY <2>2 DEF CacheNext
    <2>3. ASSUME NEW s \in load.sources, NEW useCache \in {TRUE, ~load.uncached},
                 Lookup(t, s) \/ Miss(t, s, useCache)
          PROVE  CacheNext
      BY <2>1, <2>3 DEF CacheNext
    <2> QED
      BY <1>3, <2>2, <2>3 DEF Fetching
  <1>4. CASE Clearing
    BY <1>4 DEF Clearing, CacheNext
  <1> QED
    BY <1>1, <1>2, <1>3, <1>4 DEF Next

\* A step of the service is a step of the limiter, or leaves it alone: a thread scans with a
\* bank it was given, which is one that was made.
LEMMA ServiceToLimiter ==
    ASSUME ServiceInv, [Next]_vars
    PROVE  [LimiterNext]_limiterVars
  <1>1. CASE UNCHANGED vars
    BY <1>1 DEF vars
  <1>2. ASSUME NEW t \in Threads, BeginScan(t)
        PROVE  LimiterNext
    <2>1. call[t].stage = "ready" /\ Enter(t, call[t].bank)
      BY <1>2 DEF BeginScan
    <2>2. CacheTypeOK /\ CallFits(t)
      BY DEF ServiceInv, CacheInv
    <2>3. call[t].bank \in 1..Len(made)
      BY <2>1, <2>2 DEF CallFits
    <2>4. Len(made) \in Nat /\ Len(made) <= MaxCalls /\ MaxCalls \in Nat
      BY <2>2, CacheTypes
    <2>5. call[t].bank \in Banks
      BY <2>3, <2>4, BanksAssumption DEF NativeBanks
    <2> QED
      BY <2>1, <2>5 DEF LimiterNext
  <1>3. ASSUME NEW t \in Threads, Scanning(t) \/ Panicking(t) \/ StrayWake(t)
        PROVE  LimiterNext
    BY <1>3 DEF Scanning, Panicking, StrayWake, LimiterNext
  <1>4. ASSUME NEW t \in Threads, Fetching(t)
        PROVE  UNCHANGED limiterVars
    BY <1>4 DEF Fetching
  <1>5. CASE Clearing
    BY <1>5 DEF Clearing
  <1> QED
    BY <1>1, <1>2, <1>3, <1>4, <1>5 DEF Next

LEMMA ServiceInitInv == Init => ServiceInv
  <1> SUFFICES ASSUME Init PROVE ServiceInv
    OBVIOUS
  <1>1. load \in Workloads /\ scans = 0 /\ clears = 0 /\ panics = 0 /\ CacheInv
    BY CacheInitInv DEF Init
  <1>2. load.scans \in Nat /\ load.clears \in Nat /\ load.panics \in Nat
    BY <1>1, Loads
  <1> QED
    BY <1>1, <1>2 DEF ServiceInv

LEMMA ServiceStep == ServiceInv /\ [Next]_vars => ServiceInv'
  <1> SUFFICES ASSUME ServiceInv, [Next]_vars PROVE ServiceInv'
    OBVIOUS
  <1>1. CacheInv'
    BY ServiceToCache, CacheInvStep DEF ServiceInv
  <1>2. /\ load \in Workloads /\ load.scans \in Nat /\ load.clears \in Nat /\ load.panics \in Nat
        /\ scans \in 0..load.scans /\ clears \in 0..load.clears /\ panics \in 0..load.panics
    BY Loads DEF ServiceInv
  <1>3. load' = load
    BY DEF Next, vars, BeginScan, Scanning, Panicking, StrayWake, Fetching, Clearing
  <1>4. scans' = scans \/ (scans < load.scans /\ scans' = scans + 1)
    BY DEF Next, vars, BeginScan, Scanning, Panicking, StrayWake, Fetching, Clearing, counters
  <1>5. clears' = clears \/ (clears < load.clears /\ clears' = clears + 1)
    BY DEF Next, vars, BeginScan, Scanning, Panicking, StrayWake, Fetching, Clearing, counters
  <1>6. panics' = panics \/ (panics < load.panics /\ panics' = panics + 1)
    BY DEF Next, vars, BeginScan, Scanning, Panicking, StrayWake, Fetching, Clearing, counters
  <1>7. /\ scans' \in 0..load.scans /\ clears' \in 0..load.clears /\ panics' \in 0..load.panics
    BY <1>2, <1>4, <1>5, <1>6
  <1> QED
    BY <1>1, <1>2, <1>3, <1>7 DEF ServiceInv

\* The tables, in the words of CacheIsSound.
LEMMA TablesAreSound == CacheInv => CacheIsSound
  <1> SUFFICES ASSUME CacheInv PROVE CacheIsSound
    OBVIOUS
  <1>1. CacheTypeOK /\ TablesFit /\ \A t \in Threads : CallFits(t)
    BY DEF CacheInv
  <1>2. ASSUME NEW e \in ToSet(sources)
        PROVE  /\ e.key = KeyOf[e.source]
               /\ \E b \in ToSet(banks) : b.key = e.key /\ made[b.bank] = e.key
    <2>1. e.key = KeyOf[e.source] /\ e.key \in KeysIn(banks)
      BY <1>1 DEF TablesFit
    <2>2. PICK b \in ToSet(banks) : b.key = e.key
      BY <1>1, <2>1, CacheTypes
    <2>3. made[b.bank] = b.key
      BY <1>1 DEF TablesFit
    <2> QED
      BY <2>1, <2>2, <2>3
  <1>3. CallersShareBanks
    BY <1>1 DEF CallersShareBanks, CallFits
  <1>4. EntriesWereCounted
    BY <1>1 DEF EntriesWereCounted, TablesFit
  <1> QED
    BY <1>2, <1>3, <1>4 DEF CacheIsSound, SourcesResolve

\* The threads of the service use the limiter as its specification says: whatever is proved of
\* the limiter alone holds of the service (engine.rs 64-120 below engine.py 91-150).
THEOREM ServiceIsLimiter == Spec => LimiterSpec
  <1>1. Init => LimiterInit
    BY DEF Init
  <1>2. ServiceInv /\ [Next]_vars => [LimiterNext]_limiterVars
    BY ServiceToLimiter
  <1> QED
    BY <1>1, <1>2, ServiceInitInv, ServiceStep, PTL DEF Spec, LimiterSpec

\* The variables of the service stay in their types.
THEOREM ServiceTypes == Spec => []TypeOK
  <1>1. ServiceInv /\ LimiterTypeOK => TypeOK
    BY DEF ServiceInv, CacheInv, TypeOK
  <1> QED
    BY <1>1, ServiceInitInv, ServiceStep, ServiceIsLimiter, LimiterTypes, PTL DEF Spec

\* However calls, late compilations, evictions and clearings follow on each other, no source key
\* is without its bank and callers that use the cache share one object (engine.py 91-150, 517-526).
THEOREM CacheSound == Spec => []CacheIsSound
  <1>1. ServiceInv => CacheIsSound
    BY TablesAreSound DEF ServiceInv
  <1> QED
    BY <1>1, ServiceInitInv, ServiceStep, PTL DEF Spec

\* The permits are exact, no sleeper is forgotten and no search uses a half updated cache while
\* banks are compiled, evicted and cleared (engine.rs 65-120, 585-599).
THEOREM ServiceScansSoundly ==
    Spec => [](PermitsAreExact /\ NoSleeperForgotten /\ SearchesUseSoundCaches)
  BY ServiceIsLimiter, PermitsExact, SleepersRemembered, CachesAreSound, PTL
=============================================================================
