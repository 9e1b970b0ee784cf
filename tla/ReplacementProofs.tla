----------------------------- MODULE ReplacementProofs ------------------------------
(***************************************************************************)
(* Proofs about the replacements.  First what the anonymizer makes of a    *)
(* database (one identity, one replacement, and what may stay readable),   *)
(* for every database, document and command; then the database itself, for *)
(* any set of clients, paths, originals and commands and any bounds.       *)
(***************************************************************************)
EXTENDS Anonymization, ReplacementDb, FiniteSetTheorems, WellFoundedInduction, TLAPS


Injective(as) == \A k, l \in DOMAIN as : as[k].value = as[l].value => k = l

\* Every output shows values that are still assigned.
OutputsAssigned ==
    \A o \in handedOut : \A i \in DOMAIN o.pieces :
        LET a == o.pieces[i] IN
        a.key # Nothing => a.key \in DOMAIN assignments /\ a.out = assignments[a.key].value

RunShape ==
    \/ run = Idle
    \/ run = [active |-> TRUE, document |-> run.document, mode |-> run.mode, missing |-> run.missing,
              limit |-> run.limit, todo |-> run.todo, assignments |-> run.assignments,
              edits |-> run.edits, reported |-> run.reported]

\* The working copy keeps what is assigned, and the edits show it.
RunAssigned ==
    run.active =>
        /\ \A k \in DOMAIN assignments :
              k \in DOMAIN run.assignments /\ run.assignments[k].value = assignments[k].value
        /\ \A e \in run.edits :
              e.piece.key \in DOMAIN run.assignments /\ e.piece.out = run.assignments[e.piece.key].value

\* Why a record that was taken has neither a replacement nor a report.
Skipped(i) ==
    /\ run.missing = "skip"
    /\ ~policy[run.document.records[i].entity].allow
    /\ Key(run.document, run.document.records[i]) \notin DOMAIN run.assignments

RunAccounts ==
    run.active =>
        /\ run.document \in {q.document : q \in AnonymizeRequests}
        /\ run.missing \in {"skip", "diagnostic", "fail"}
        /\ \A i \in ResolvedRecords(run.document) :
              i \in run.todo \/ (\E e \in run.edits : e.record = i) \/ i \in run.reported \/ Skipped(i)

Inv == /\ Injective(assignments) /\ OutputsAssigned /\ RunShape /\ RunAssigned
       /\ RunAccounts /\ SilentOnlyWhenAsked

-----------------------------------------------------------------------------
\* What a piece of an edited text is.
LEMMA PiecesOfEdits ==
    ASSUME NEW text, NEW edits, NEW p \in DOMAIN Pieces(text, edits),
           Pieces(text, edits)[p].key # Nothing
    PROVE  \E e \in edits : Pieces(text, edits)[p] = e.piece
  <1>1. p \in DOMAIN text
    BY DEF Pieces
  <1>2. CASE \E e \in edits : e.start + 1 = p
    <2>1. Pieces(text, edits)[p] = (CHOOSE e \in edits : e.start + 1 = p).piece
      BY <1>1, <1>2 DEF Pieces
    <2>2. (CHOOSE e \in edits : e.start + 1 = p) \in edits
      BY <1>2
    <2> QED
      BY <2>1, <2>2
  <1>3. CASE ~(\E e \in edits : e.start + 1 = p)
    <2>1. Pieces(text, edits)[p].key = Nothing
      BY <1>1, <1>3 DEF Pieces, Piece
    <2> QED
      BY <2>1
  <1> QED
    BY <1>2, <1>3

\* The spans of a document, as a prover reads them.
LEMMA Spans ==
    ASSUME NEW d \in {q.document : q \in AnonymizeRequests}
    PROVE  /\ Len(d.records) \in Nat /\ DOMAIN d.records = 1..Len(d.records)
           /\ \A i \in DOMAIN d.records :
                 /\ d.records[i].start \in Int /\ d.records[i].end \in Int
                 /\ d.records[i].start < d.records[i].end
                 /\ \A j \in 1..i : d.records[j].start <= d.records[i].start
  BY DocumentsAssumption

LEMMA GroupsAreCounts ==
    ASSUME NEW d, NEW i \in Nat
    PROVE  /\ IsFiniteSet({j \in 1..i : Opens(d, j)})
           /\ OverlapGroup(d, i) \in Nat
  <1>1. IsFiniteSet(1..i)
    BY FS_Interval
  <1>2. {j \in 1..i : Opens(d, j)} \subseteq 1..i
    OBVIOUS
  <1>3. IsFiniteSet({j \in 1..i : Opens(d, j)})
    BY <1>1, <1>2, FS_Subset
  <1> QED
    BY <1>3, FS_CardinalityType DEF OverlapGroup

\* A record that opens a group after another one is in another group.
LEMMA OpenersSeparate ==
    ASSUME NEW d, NEW i \in Nat, NEW j \in Nat, NEW k \in 1..i, j < k, Opens(d, k)
    PROVE  OverlapGroup(d, j) # OverlapGroup(d, i)
  <1> DEFINE G(n) == {m \in 1..n : Opens(d, m)}
  <1>1. G(j) \subseteq G(i)
    OBVIOUS
  <1>2. k \in G(i) /\ k \notin G(j)
    OBVIOUS
  <1>3. IsFiniteSet(G(i)) /\ IsFiniteSet(G(j))
    BY GroupsAreCounts
  <1>4. Cardinality(G(j)) < Cardinality(G(i))
    <2>1. G(j) \cup {k} \subseteq G(i)
      BY <1>1, <1>2
    <2>2. Cardinality(G(j) \cup {k}) = Cardinality(G(j)) + 1
      BY <1>2, <1>3, FS_AddElement
    <2>3. Cardinality(G(j) \cup {k}) <= Cardinality(G(i))
      BY <1>3, <2>1, FS_Subset
    <2>4. Cardinality(G(j)) \in Nat /\ Cardinality(G(i)) \in Nat
      BY <1>3, FS_CardinalityType
    <2> QED
      BY <2>2, <2>3, <2>4
  <1> QED
    BY <1>4, GroupsAreCounts DEF OverlapGroup

\* A record that its group does not keep overlaps another one.
LEMMA LosersOverlap ==
    ASSUME NEW d \in {q.document : q \in AnonymizeRequests},
           NEW i \in DOMAIN d.records, i \notin ResolvedRecords(d)
    PROVE  \E j \in DOMAIN d.records \ {i} : Overlap(d.records[i], d.records[j])
  <1> DEFINE n == Len(d.records)
  <1>1. n \in Nat /\ DOMAIN d.records = 1..n
    BY Spans
  <1>2. PICK j \in DOMAIN d.records \ {i} : OverlapGroup(d, j) = OverlapGroup(d, i)
    BY DEF ResolvedRecords, Wins
  <1>3. CASE ~Opens(d, i)
    <2>1. PICK m \in 1..(i - 1) : ~(d.records[m].end <= d.records[i].start)
      BY <1>3 DEF Opens
    <2>2. m \in DOMAIN d.records \ {i} /\ m \in 1..i
      BY <1>1
    <2>3. Overlap(d.records[i], d.records[m])
      BY <2>1, <2>2, Spans DEF Overlap
    <2> QED
      BY <2>2, <2>3
  <1>4. CASE Opens(d, i)
    <2>1. i < j
      <3>1. ~(j < i)
        BY <1>1, <1>2, <1>4, OpenersSeparate
      <3> QED
        BY <3>1, <1>1
    <2>2. ~Opens(d, i + 1)
      <3>1. i + 1 \in 1..j
        BY <2>1, <1>1
      <3> QED
        BY <3>1, <1>1, <1>2, OpenersSeparate
    <2>3. PICK m \in 1..i : ~(d.records[m].end <= d.records[i + 1].start)
      BY <2>2, <1>1 DEF Opens
    <2>4. i + 1 \in DOMAIN d.records /\ i + 1 # i /\ m \in DOMAIN d.records
      BY <2>1, <1>1
    <2>5. d.records[i].start <= d.records[i + 1].start
      BY <2>4, <1>1, Spans
    <2>6. m = i
      <3>1. m < i => d.records[m].end <= d.records[i].start
        BY <1>4, <1>1 DEF Opens
      <3> QED
        BY <3>1, <2>3, <2>4, <2>5, <1>1, Spans
    <2>7. Overlap(d.records[i], d.records[i + 1])
      BY <2>3, <2>4, <2>5, <2>6, Spans, SMTT(30) DEF Overlap
    <2> QED
      BY <2>4, <2>7
  <1> QED
    BY <1>3, <1>4

-----------------------------------------------------------------------------
\* What the two ways to treat a record change.
Handed(i, key, as) ==
    /\ RunShape' /\ run'.active /\ run'.document = run.document
    /\ run'.missing = run.missing /\ run'.reported = run.reported
    /\ run'.todo = run.todo \ {i} /\ run'.assignments = as
    /\ \E e : /\ run'.edits = run.edits \cup {e}
              /\ e.record = i /\ e.piece.key = key /\ e.piece.out = as[key].value

LEMMA GiveChanges ==
    ASSUME RunShape, run.active, NEW i, NEW key, NEW as, Give(i, key, as)
    PROVE  Handed(i, key, as)
  <1>1. run # Idle
    BY DEF Idle
  <1> DEFINE r == run.document.records[i]
             piece == Piece(key, as[key].mode, as[key].value,
                            IF as[key].original = Nothing THEN as[key].value
                            ELSE Original(run.document, r))
             e == [start |-> r.start, end |-> r.end, record |-> i, piece |-> piece]
  <1>2. run' = [run EXCEPT !.todo = @ \ {i}, !.assignments = as, !.edits = @ \cup {e}]
    BY DEF Give
  <1>3. e.record = i /\ e.piece.key = key /\ e.piece.out = as[key].value
    BY DEF Piece
  <1> HIDE DEF e
  <1>4. RunShape' /\ run'.active /\ run'.document = run.document
           /\ run'.missing = run.missing /\ run'.reported = run.reported
           /\ run'.todo = run.todo \ {i} /\ run'.assignments = as
           /\ run'.edits = run.edits \cup {e}
    BY <1>1, <1>2 DEF RunShape
  <1> QED
    BY <1>3, <1>4 DEF Handed

LEMMA WithholdChanges ==
    ASSUME RunShape, run.active, NEW i, NEW outcome, Withhold(i, outcome)
    PROVE  \/ run' = Idle
           \/ /\ RunShape' /\ run'.active /\ run'.document = run.document
              /\ run'.missing = run.missing /\ run'.edits = run.edits
              /\ run'.todo = run.todo \ {i} /\ run'.assignments = run.assignments
              /\ run.reported \subseteq run'.reported
              /\ i \in run'.reported \/ (run.missing # "fail" /\ run.missing # "diagnostic"
                                          /\ outcome = "missing")
  <1>1. run # Idle
    BY DEF Idle
  <1>2. CASE run.missing = "fail"
    BY <1>2 DEF Withhold
  <1>3. CASE run.missing # "fail"
    <2>1. PICK x : /\ run' = [run EXCEPT !.todo = @ \ {i}, !.reported = x]
                   /\ x = IF run.missing = "diagnostic" \/ outcome # "missing"
                          THEN run.reported \cup {i} ELSE run.reported
      BY <1>3 DEF Withhold
    <2>2. /\ RunShape' /\ run'.active /\ run'.document = run.document
          /\ run'.missing = run.missing /\ run'.edits = run.edits
          /\ run'.todo = run.todo \ {i} /\ run'.assignments = run.assignments
          /\ run'.reported = x
      BY <2>1, <1>1 DEF RunShape
    <2> QED
      BY <1>3, <2>1, <2>2
  <1> QED
    BY <1>2, <1>3

\* The outcomes of an allocation, as far as they matter.
LEMMA Outcomes ==
    ASSUME NEW d, NEW r, NEW mode, NEW limit, NEW as
    PROVE  /\ Outcome(d, r, mode, limit, as) = "reuse" => Key(d, r) \in DOMAIN as
           /\ Outcome(d, r, mode, limit, as) = "create" =>
                 Key(d, r) \notin DOMAIN as /\ policy[r.entity].allow
           /\ Outcome(d, r, mode, limit, as) = "missing" =>
                 Key(d, r) \notin DOMAIN as /\ ~policy[r.entity].allow
  BY Zenon DEF Outcome

-----------------------------------------------------------------------------
\* A change to the policies or the sets touches nothing that Inv says anything about.
LEMMA ChangesKeep ==
    ASSUME Inv, ~run.active, UNCHANGED <<assignments, run, handedOut>>
    PROVE  Inv'
  BY DEF Inv, Injective, OutputsAssigned, RunShape, RunAssigned, RunAccounts, SilentOnlyWhenAsked, Idle

LEMMA SettingKeeps ==
    ASSUME Inv, NEW q \in Settings, SetEntity(q)
    PROVE  Inv'
  <1>1. UNCHANGED <<assignments, run, handedOut>> /\ ~run.active
    BY DEF SetEntity, SaveChange, Command, database
  <1> QED
    BY <1>1, ChangesKeep

LEMMA ExtensionKeeps ==
    ASSUME Inv, NEW q \in Extensions, AddSet(q)
    PROVE  Inv'
  <1>1. UNCHANGED <<assignments, run, handedOut>> /\ ~run.active
    BY DEF AddSet, SaveChange, Command, database
  <1> QED
    BY <1>1, ChangesKeep

LEMMA AnonymizeKeeps ==
    ASSUME Inv, NEW q \in AnonymizeRequests, Anonymize(q)
    PROVE  Inv'
  <1>1. /\ run'.active /\ run'.document = q.document /\ run'.missing = q.missing
        /\ run'.todo = ResolvedRecords(q.document) /\ run'.assignments = assignments
        /\ run'.edits = {} /\ run'.reported = {} /\ RunShape'
    BY DEF Anonymize, RunShape
  <1>2. UNCHANGED <<assignments, handedOut>>
    BY DEF Anonymize, database
  <1>3. RunAssigned'
    BY <1>1, <1>2 DEF RunAssigned
  <1>4. RunAccounts'
    BY <1>1, <1>2, RequestsAssumption DEF RunAccounts
  <1> QED
    BY <1>1, <1>2, <1>3, <1>4 DEF Inv, Injective, OutputsAssigned, SilentOnlyWhenAsked

LEMMA AllocateKeeps ==
    ASSUME Inv, Allocate
    PROVE  Inv'
  <1>a. PICK i, d, key, outcome :
            /\ i = Min(run.todo) /\ d = run.document /\ key = Key(d, d.records[i])
            /\ outcome = Outcome(d, d.records[i], run.mode, run.limit, run.assignments)
    OBVIOUS
  <1> DEFINE r == d.records[i]
  <1>1. RunShape /\ run.active /\ RunAssigned /\ RunAccounts
    BY DEF Inv, Allocate
  <1>2. UNCHANGED <<policy, assignments, handedOut>>
    BY DEF Allocate, database
  <1>3. ASSUME NEW as, Give(i, key, as), key \in DOMAIN as,
               \A k \in DOMAIN run.assignments :
                  k \in DOMAIN as /\ as[k].value = run.assignments[k].value,
               \A k \in DOMAIN as \ DOMAIN run.assignments : k = key /\ policy[r.entity].allow
        PROVE  RunShape' /\ RunAssigned' /\ RunAccounts'
    <2>0. Handed(i, key, as)
      BY <1>1, <1>3, GiveChanges
    <2>1. /\ RunShape' /\ run'.active /\ run'.document = run.document
          /\ run'.missing = run.missing /\ run'.reported = run.reported
          /\ run'.todo = run.todo \ {i} /\ run'.assignments = as
      BY <2>0 DEF Handed
    <2>2. PICK e : /\ run'.edits = run.edits \cup {e}
                   /\ e.record = i /\ e.piece.key = key /\ e.piece.out = as[key].value
      BY <2>0 DEF Handed
    <2>3. RunAssigned'
      BY <1>1, <1>2, <1>3, <2>1, <2>2 DEF RunAssigned
    <2>4. ASSUME NEW j \in ResolvedRecords(d), Skipped(j)
          PROVE  Skipped(j)'
      <3>1. key[1] = r.entity /\ Key(d, d.records[j])[1] = d.records[j].entity
        BY <1>a DEF Key
      <3>2. Key(d, d.records[j]) \notin DOMAIN as
        BY <1>a, <1>3, <2>4, <3>1 DEF Skipped
      <3>3. Key(d, d.records[j])' = Key(d, d.records[j])
        BY <1>2 DEF Key
      <3> QED
        BY <1>a, <2>1, <2>4, <3>2, <3>3, <1>2 DEF Skipped
    <2>5. RunAccounts'
      BY <1>a, <1>1, <2>1, <2>2, <2>4 DEF RunAccounts
    <2> QED
      BY <2>1, <2>3, <2>5
  <1>4. ASSUME Withhold(i, outcome), outcome # "reuse", outcome # "create"
        PROVE  RunShape' /\ RunAssigned' /\ RunAccounts'
    <2>1. CASE run' = Idle
      BY <2>1 DEF RunShape, RunAssigned, RunAccounts, Idle
    <2>2. CASE run' # Idle
      <3>1. /\ RunShape' /\ run'.active /\ run'.document = run.document
            /\ run'.missing = run.missing /\ run'.edits = run.edits
            /\ run'.todo = run.todo \ {i} /\ run'.assignments = run.assignments
            /\ run.reported \subseteq run'.reported
            /\ i \in run'.reported \/ (run.missing # "fail" /\ run.missing # "diagnostic"
                                        /\ outcome = "missing")
        BY <1>1, <1>4, <2>2, WithholdChanges
      <3>2. RunAssigned'
        BY <1>1, <1>2, <3>1 DEF RunAssigned
      <3>3. ASSUME NEW j \in ResolvedRecords(d), Skipped(j)
            PROVE  Skipped(j)'
        <4>1. Key(d, d.records[j])' = Key(d, d.records[j])
          BY <1>2 DEF Key
        <4> QED
          BY <1>a, <3>1, <3>3, <4>1, <1>2 DEF Skipped
      <3>4. i \notin run'.reported => Skipped(i)
        BY <1>a, <1>1, <3>1, Outcomes DEF Skipped, RunAccounts
      <3>5. i \in ResolvedRecords(d) => i \in run'.reported \/ Skipped(i)'
        BY <3>3, <3>4
      <3>6. RunAccounts'
        BY <1>a, <1>1, <3>1, <3>3, <3>5 DEF RunAccounts
      <3> QED
        BY <3>1, <3>2, <3>6
    <2> QED
      BY <2>1, <2>2
  <1>5. RunShape' /\ RunAssigned' /\ RunAccounts'
    <2>1. CASE run' = Idle
      BY <2>1 DEF RunShape, RunAssigned, RunAccounts, Idle
    <2>2. CASE outcome = "reuse" /\ Give(i, key, run.assignments)
      <3>1. PICK as : as = run.assignments
        OBVIOUS
      <3>2. key \in DOMAIN as
        BY <1>a, <2>2, <3>1, Outcomes
      <3> QED
        BY <1>3, <2>2, <3>1, <3>2
    <2>3. ASSUME NEW a, outcome = "create", Give(i, key, With(run.assignments, key, a))
          PROVE  RunShape' /\ RunAssigned' /\ RunAccounts'
      <3>a. PICK as : as = With(run.assignments, key, a)
        OBVIOUS
      <3>1. key \notin DOMAIN run.assignments /\ policy[r.entity].allow
        BY <1>a, <2>3, Outcomes
      <3>2. /\ key \in DOMAIN as
            /\ \A k \in DOMAIN run.assignments :
                  k \in DOMAIN as /\ as[k].value = run.assignments[k].value
            /\ \A k \in DOMAIN as \ DOMAIN run.assignments : k = key
        BY <3>a, <3>1 DEF With
      <3> QED
        BY <1>3, <2>3, <3>a, <3>1, <3>2
    <2>4. CASE outcome \in {"missing", "mismatch", "exhausted"} /\ Withhold(i, outcome)
      BY <1>4, <2>4
    <2> QED
      BY <1>a, <2>1, <2>2, <2>3, <2>4 DEF Allocate
  <1> QED
    BY <1>2, <1>5 DEF Inv, Injective, OutputsAssigned, SilentOnlyWhenAsked

\* Of what a command hands out, every replacement is assigned from then on.
LEMMA FinishKeeps ==
    ASSUME Inv, FinishRun
    PROVE  Inv'
  <1>1. RunAssigned /\ RunAccounts /\ run.active /\ run.todo = {} /\ run' = Idle
    BY DEF Inv, FinishRun
  <1>2. RunShape' /\ RunAssigned' /\ RunAccounts'
    BY <1>1 DEF RunShape, RunAssigned, RunAccounts, Idle
  <1>3. CASE UNCHANGED <<assignments, handedOut>>
    BY <1>2, <1>3 DEF Inv, Injective, OutputsAssigned, SilentOnlyWhenAsked
  <1>4. CASE ~UNCHANGED <<assignments, handedOut>>
    <2> DEFINE d == run.document
               replaced == {e.record : e \in run.edits}
               silent == DOMAIN d.records \ (replaced \cup run.reported)
               unknown == {i \in silent : Key(d, d.records[i]) \notin DOMAIN run.assignments}
               o == [pieces |-> Pieces(d.text, run.edits), document |-> d,
                     replaced |-> replaced, missing |-> run.missing,
                     silent |-> silent, unknown |-> unknown]
    <2>1. Valid(policy, sets, run.assignments) /\ assignments' = run.assignments
          /\ handedOut' = handedOut \cup {o}
      BY <1>4 DEF FinishRun
    <2>2. Injective(assignments)'
      BY <2>1 DEF Valid, AssignmentsValid, ReplacementsValid, Injective
    <2>3. OutputsAssigned'
      <3>1. ASSUME NEW p \in DOMAIN o.pieces, o.pieces[p].key # Nothing
            PROVE  /\ o.pieces[p].key \in DOMAIN run.assignments
                   /\ o.pieces[p].out = run.assignments[o.pieces[p].key].value
        <4>1. PICK e \in run.edits : o.pieces[p] = e.piece
          BY <3>1, PiecesOfEdits
        <4> QED
          BY <1>1, <4>1 DEF RunAssigned
      <3>2. ASSUME NEW q \in handedOut, NEW p \in DOMAIN q.pieces, q.pieces[p].key # Nothing
            PROVE  /\ q.pieces[p].key \in DOMAIN run.assignments
                   /\ q.pieces[p].out = run.assignments[q.pieces[p].key].value
        BY <1>1, <3>2 DEF RunAssigned, Inv, OutputsAssigned
      <3> HIDE DEF o
      <3> QED
        BY <2>1, <3>1, <3>2 DEF OutputsAssigned
    <2>4. ASSUME NEW i \in silent
          PROVE  \/ run.missing = "skip" /\ i \in unknown
                 \/ \E j \in DOMAIN d.records \ {i} : Overlap(d.records[i], d.records[j])
      <3>1. d \in {q.document : q \in AnonymizeRequests}
        BY <1>1 DEF RunAccounts
      <3>2. CASE i \in ResolvedRecords(d)
        <4>1. Skipped(i)
          BY <1>1, <2>4, <3>2 DEF RunAccounts
        <4> QED
          BY <2>4, <4>1 DEF Skipped
      <3>3. CASE i \notin ResolvedRecords(d)
        BY <3>1, <3>3, LosersOverlap
      <3> QED
        BY <3>2, <3>3
    <2>5. SilentOnlyWhenAsked'
      <3>1. o.silent = silent /\ o.unknown = unknown /\ o.missing = run.missing /\ o.document = d
        OBVIOUS
      <3> HIDE DEF o, silent, unknown
      <3>2. \A q \in handedOut : \A i \in q.silent :
                \/ q.missing = "skip" /\ i \in q.unknown
                \/ \E j \in DOMAIN q.document.records \ {i} :
                      Overlap(q.document.records[i], q.document.records[j])
        BY DEF Inv, SilentOnlyWhenAsked
      <3>3. \A q \in handedOut' : \A i \in q.silent :
                \/ q.missing = "skip" /\ i \in q.unknown
                \/ \E j \in DOMAIN q.document.records \ {i} :
                      Overlap(q.document.records[i], q.document.records[j])
        BY <2>1, <2>4, <3>1, <3>2
      <3> QED
        BY <3>3 DEF SilentOnlyWhenAsked
    <2> QED
      BY <1>2, <2>2, <2>3, <2>5 DEF Inv
  <1> QED
    BY <1>3, <1>4

LEMMA InvHolds == AnonymizationSpec => []Inv
  <1>1. AnonymizationInit => Inv
    BY DEF AnonymizationInit, Inv, Injective, OutputsAssigned, RunShape, RunAssigned, RunAccounts,
           SilentOnlyWhenAsked, Idle
  <1>2. Inv /\ [AnonymizationNext]_anonymizationVars => Inv'
    <2> SUFFICES ASSUME Inv, [AnonymizationNext]_anonymizationVars
                 PROVE  Inv'
      OBVIOUS
    <2>1. CASE \E q \in Settings : SetEntity(q)
      BY <2>1, SettingKeeps
    <2>2. CASE \E q \in Extensions : AddSet(q)
      BY <2>2, ExtensionKeeps
    <2>3. CASE \E q \in AnonymizeRequests : Anonymize(q)
      BY <2>3, AnonymizeKeeps
    <2>4. CASE Allocate
      BY <2>4, AllocateKeeps
    <2>5. CASE FinishRun
      BY <2>5, FinishKeeps
    <2>6. CASE UNCHANGED anonymizationVars
      <3>1. UNCHANGED <<policy, assignments, run, handedOut>>
        BY <2>6 DEF anonymizationVars, database
      <3>2. \A d, r : Key(d, r)' = Key(d, r)
        BY <3>1 DEF Key
      <3>3. \A i : Skipped(i) => Skipped(i)'
        BY <3>1, <3>2 DEF Skipped
      <3>4. RunAccounts'
        BY <3>1, <3>3 DEF Inv, RunAccounts
      <3> QED
        BY <3>1, <3>4 DEF Inv, Injective, OutputsAssigned, RunShape, RunAssigned, SilentOnlyWhenAsked
    <2> QED
      BY <2>1, <2>2, <2>3, <2>4, <2>5, <2>6 DEF AnonymizationNext
  <1> QED
    BY <1>1, <1>2, PTL DEF AnonymizationSpec

\* For every sequence of commands on every database: one identity is never given two replacements,
\* nor one replacement to two identities, in anything that was handed out.
THEOREM OneValue == AnonymizationSpec => []OneValuePerKey
  <1>1. Inv => OneValuePerKey
    <2> SUFFICES ASSUME Inv,
                        NEW o \in handedOut, NEW p \in handedOut,
                        NEW i \in DOMAIN o.pieces, NEW j \in DOMAIN p.pieces,
                        o.pieces[i].key # Nothing, p.pieces[j].key # Nothing
                 PROVE  o.pieces[i].key = p.pieces[j].key <=> o.pieces[i].out = p.pieces[j].out
      BY DEF OneValuePerKey
    <2>1. /\ o.pieces[i].key \in DOMAIN assignments
          /\ o.pieces[i].out = assignments[o.pieces[i].key].value
          /\ p.pieces[j].key \in DOMAIN assignments
          /\ p.pieces[j].out = assignments[p.pieces[j].key].value
      BY DEF Inv, OutputsAssigned
    <2> QED
      BY <2>1 DEF Inv, Injective
  <1> QED
    BY <1>1, InvHolds, PTL

\* For every report and every policy: what stays readable without a word was unknown in a command
\* told to skip it, or overlaps another detected record.
THEOREM NothingUnnoticed == AnonymizationSpec => []SilentOnlyWhenAsked
  <1>1. Inv => SilentOnlyWhenAsked
    BY DEF Inv
  <1> QED
    BY <1>1, InvHolds, PTL


USE CommandsAssumption, BoundsAssumption, MarkersAssumption

LocalInv == TypeOK /\ RequestOK

LEMMA FreshType == ASSUME NEW v \in Nat \ {0} PROVE Fresh(v) \in Db
BY DEF Fresh, Db

LEMMA EditType ==
    ASSUME NEW db \in Db, NEW e \in Edits
    PROVE  Edit(db, e) \in Db /\ Edit(db, e).version = db.version + 1
BY DEF Edit, Db

LEMMA AssignType ==
    ASSUME NEW db \in Db, NEW n, NextOrdinal(db) \in 1..MaxOrdinal
    PROVE  Assign(db, n) \in Db /\ Assign(db, n).version = db.version + 1
<1> DEFINE tok(o) == [db.tok EXCEPT ![n] = o]
<1>1. \A o \in 0..MaxOrdinal : tok(o) \in [Names -> 0..MaxOrdinal]
  BY DEF Db
<1>2. NextOrdinal(db) \in 0..MaxOrdinal
  OBVIOUS
<1>3. tok(NextOrdinal(db)) \in [Names -> 0..MaxOrdinal]
  BY <1>1, <1>2
<1> QED BY <1>3 DEF Assign, Db

LEMMA NoRequestType == NoRequest \in Requests
BY DEF NoRequest, Requests

\* Init establishes the types.
LEMMA InitLocal == Init => LocalInv
<1> SUFFICES ASSUME Init PROVE LocalInv
  OBVIOUS
<1>1. file \in [Paths -> Content]
  BY FreshType DEF Init, Content
<1>2. TypeOK
  BY <1>1, NoRequestType DEF Init, TypeOK, Pcs
<1>3. RequestOK
  BY DEF Init, RequestOK, CriticalPcs
<1> QED BY <1>2, <1>3 DEF LocalInv

\* A step that changes neither the disk nor the auxiliary state.
Quiet == /\ UNCHANGED <<file, survivors, temp, losses, era>>
         /\ holder' \in [Paths -> Procs \cup {None}] /\ begun' \in Nat

\* What a request r holds at point l, as far as the disk is not concerned.
Suits(l, r) ==
    /\ l \in Pcs /\ r \in Requests /\ l \notin {"fsync", "rename"}
    /\ l # "idle" => r.op \in Commands /\ r.path \in Paths
    /\ l = "load" => r.source \in Paths
    /\ l = "load" /\ r.op = "anonymize" => r.source = r.path
    /\ l = "probe" /\ r.op = "force_init" => r.source \in Paths
    /\ l = "probe" /\ r.op \in {"tool_save", "tool_copy"} => r.cand \in Db
    /\ l \in {"lock", "reload", "output"} \cup CriticalPcs => r.cand \in Db

Move(p, l, r) == pc' = [pc EXCEPT ![p] = l] /\ req' = [req EXCEPT ![p] = r]

\* A quiet step that moves p to a point its request suits keeps LocalInv.
LEMMA MoveLocal ==
    ASSUME LocalInv, NEW p \in Procs, NEW l, NEW r, Quiet, Suits(l, r), Move(p, l, r)
    PROVE  LocalInv'
<1>1. TypeOK'
  BY DEF LocalInv, TypeOK, Quiet, Suits, Move
<1>2. RequestOK'
  BY DEF LocalInv, TypeOK, RequestOK, Quiet, Suits, Move
<1> QED BY <1>1, <1>2 DEF LocalInv

\* Starting a command.
LEMMA BeginLocal ==
    ASSUME LocalInv, NEW p \in Procs, NEW l \in {"load", "probe", "lock"},
           NEW r \in Requests, Begin(p, l, r), r.path \in Paths,
           l = "load" => r.source \in Paths,
           l = "load" /\ r.op = "anonymize" => r.source = r.path,
           l = "probe" /\ r.op = "force_init" => r.source \in Paths,
           l = "probe" /\ r.op \in {"tool_save", "tool_copy"} => r.cand \in Db,
           l = "lock" => r.cand \in Db
    PROVE  LocalInv'
<1>1. Quiet
  BY DEF LocalInv, TypeOK, Begin, disk, ghosts, Quiet
<1>2. Suits(l, r)
  BY DEF Begin, Suits, Pcs, CriticalPcs
<1>3. Move(p, l, r)
  BY DEF Begin, Goto, Request, Move
<1> QED BY <1>1, <1>2, <1>3, MoveLocal

LEMMA StartLocal == ASSUME LocalInv, NEW p \in Procs, Start(p) PROVE LocalInv'
<1> USE NoRequestType
<1>0. file \in [Paths -> Content]
  BY DEF LocalInv, TypeOK
<1>1. CASE BeginInit(p)
  <2>1. PICK f \in Paths, op \in {"init", "force_init"} :
           Begin(p, "probe", [NoRequest EXCEPT !.op = op, !.path = f, !.source = f])
    BY <1>1 DEF BeginInit
  <2> DEFINE r == [NoRequest EXCEPT !.op = op, !.path = f, !.source = f]
  <2>2. r \in Requests /\ r.path = f /\ r.source = f /\ r.op = op
    BY DEF Requests, NoRequest, AllCommands
  <2> QED BY <2>1, <2>2, BeginLocal
<1>2. CASE BeginEdit(p)
  <2>1. PICK f \in Paths :
           Begin(p, "load", [NoRequest EXCEPT !.op = "edit", !.path = f,
                                              !.source = f, !.save = TRUE])
    BY <1>2 DEF BeginEdit
  <2> DEFINE r == [NoRequest EXCEPT !.op = "edit", !.path = f, !.source = f, !.save = TRUE]
  <2>2. r \in Requests /\ r.path = f /\ r.source = f
    BY DEF Requests, NoRequest, AllCommands
  <2> QED BY <2>1, <2>2, BeginLocal
<1>3. CASE BeginAnonymize(p)
  <2>1. PICK f \in Paths, n \in Names, s \in BOOLEAN :
           Begin(p, "load", [NoRequest EXCEPT !.op = "anonymize", !.path = f,
                                              !.source = f, !.name = n, !.save = s])
    BY <1>3 DEF BeginAnonymize
  <2> DEFINE r == [NoRequest EXCEPT !.op = "anonymize", !.path = f, !.source = f,
                                    !.name = n, !.save = s]
  <2>2. r \in Requests /\ r.path = f /\ r.source = f
    BY DEF Requests, NoRequest, AllCommands
  <2> QED BY <2>1, <2>2, BeginLocal
<1>4. CASE BeginToolCopy(p)
  <2>1. PICK f \in Paths, g \in Paths, n \in Names \cup {None} :
           Begin(p, "load", [NoRequest EXCEPT !.op = "tool_copy", !.path = g,
                                !.source = f, !.name = n, !.save = TRUE])
    BY <1>4 DEF BeginToolCopy
  <2> DEFINE r == [NoRequest EXCEPT !.op = "tool_copy", !.path = g, !.source = f,
                                    !.name = n, !.save = TRUE]
  <2>2. r \in Requests /\ r.path = g /\ r.source = f /\ r.op = "tool_copy"
    BY DEF Requests, NoRequest, AllCommands
  <2> QED BY <2>1, <2>2, BeginLocal
<1>5. CASE BeginToolCopyOver(p)
  <2>1. PICK f \in Paths, g \in Paths, n \in Names \cup {None} :
           /\ file[g] \in Db
           /\ Begin(p, "load", [NoRequest EXCEPT !.op = "tool_copy_over", !.path = g,
                                  !.source = f, !.name = n, !.save = TRUE,
                                  !.seen = file[g], !.expect = file[g]])
    BY <1>5 DEF BeginToolCopyOver
  <2> DEFINE r == [NoRequest EXCEPT !.op = "tool_copy_over", !.path = g, !.source = f,
                       !.name = n, !.save = TRUE, !.seen = file[g], !.expect = file[g]]
  <2>2. r \in Requests /\ r.path = g /\ r.source = f /\ r.op = "tool_copy_over"
    BY <2>1 DEF Requests, NoRequest, AllCommands, Content
  <2> QED BY <2>1, <2>2, BeginLocal
<1>6. CASE BeginToolSave(p)
  <2>1. PICK f \in Paths, db \in Db :
           Begin(p, "probe", [NoRequest EXCEPT !.op = "tool_save", !.path = f, !.cand = db])
    BY <1>6 DEF BeginToolSave
  <2> DEFINE r == [NoRequest EXCEPT !.op = "tool_save", !.path = f, !.cand = db]
  <2>2. r \in Requests /\ r.path = f /\ r.cand = db /\ r.op = "tool_save"
    BY DEF Requests, NoRequest, AllCommands
  <2> QED BY <2>1, <2>2, BeginLocal
<1>7. CASE BeginToolSaveOver(p)
  <2>1. PICK f \in Paths, e \in Edits :
           /\ file[f] \in Db
           /\ Begin(p, "lock", [NoRequest EXCEPT !.op = "tool_save_over", !.path = f,
                                  !.seen = file[f], !.expect = file[f],
                                  !.cand = Edit(file[f], e)])
    BY <1>7 DEF BeginToolSaveOver
  <2> DEFINE r == [NoRequest EXCEPT !.op = "tool_save_over", !.path = f, !.seen = file[f],
                                    !.expect = file[f], !.cand = Edit(file[f], e)]
  <2>2. r \in Requests /\ r.path = f /\ r.cand \in Db
    BY <2>1, EditType DEF Requests, NoRequest, AllCommands, Content
  <2> QED BY <2>1, <2>2, BeginLocal
<1> QED BY <1>1, <1>2, <1>3, <1>4, <1>5, <1>6, <1>7 DEF Start

\* The requests built by ToolProbe and Rename.
LEMMA ProbeType ==
    ASSUME NEW r \in Requests, NEW m \in BOOLEAN
    PROVE  LET q == [r EXCEPT !.seen = Absent, !.missing = m] IN
           /\ q \in Requests /\ q.seen = Absent /\ q.missing = m
           /\ q.op = r.op /\ q.path = r.path /\ q.cand = r.cand /\ q.expect = r.expect
BY DEF Requests, Content

LEMMA EraType ==
    ASSUME NEW r \in Requests, NEW k \in Nat
    PROVE  LET q == [r EXCEPT !.era = k] IN
           /\ q \in Requests /\ q.op = r.op /\ q.path = r.path /\ q.cand = r.cand
           /\ q.expect = r.expect /\ q.seen = r.seen
BY DEF Requests

LEMMA FinishLocal ==
    ASSUME LocalInv, NEW p \in Procs, Quiet, Finish(p) PROVE LocalInv'
<1>1. Suits("idle", NoRequest)
  BY NoRequestType DEF Suits, Pcs, CriticalPcs
<1>2. Move(p, "idle", NoRequest)
  BY DEF Finish, Goto, Request, Move
<1> QED BY <1>1, <1>2, MoveLocal

\* A step that moves p and keeps its request.
LEMMA KeepLocal ==
    ASSUME LocalInv, NEW p \in Procs, Quiet, NEW l, Goto(p, l), UNCHANGED req,
           Suits(l, req[p])
    PROVE  LocalInv'
<1>1. Move(p, l, req[p])
  BY DEF LocalInv, TypeOK, Goto, Move
<1> QED BY <1>1, MoveLocal

LEMMA DecideLocal ==
    ASSUME LocalInv, NEW p \in Procs, Quiet, pc[p] # "idle",
           NEW l \in {"lock", "probe"}, Goto(p, l),
           l = "probe" => req[p].op # "force_init",
           NEW s \in Content \cup {None}, NEW x \in Db \cup {None}, NEW c \in Db,
           Decide(p, s, x, c)
    PROVE  LocalInv'
<1> DEFINE q == [req[p] EXCEPT !.seen = s, !.expect = x, !.cand = c]
<1>1. req[p] \in Requests /\ req[p].op \in Commands /\ req[p].path \in Paths
  BY DEF LocalInv, TypeOK, RequestOK
<1>2. q \in Requests /\ q.op = req[p].op /\ q.path = req[p].path /\ q.cand = c
  BY <1>1 DEF Requests
<1>3. Move(p, l, q)
  BY DEF Goto, Decide, Request, Move
<1> HIDE DEF q
<1>4. Suits(l, q)
  BY <1>1, <1>2 DEF Suits, Pcs
<1> QED BY <1>3, <1>4, MoveLocal

LEMMA AnswerLocal ==
    ASSUME LocalInv, NEW p \in Procs, Quiet, pc[p] # "idle",
           Goto(p, "output"), NEW f \in Paths, NEW c \in Db, Answer(p, f, c)
    PROVE  LocalInv'
<1> DEFINE q == [req[p] EXCEPT !.path = f, !.cand = c, !.seen = None, !.expect = None,
                               !.era = era[f]]
<1>1. req[p] \in Requests /\ req[p].op \in Commands /\ era[f] \in Nat
  BY DEF LocalInv, TypeOK, RequestOK
<1>2. q \in Requests /\ q.op = req[p].op /\ q.path = f /\ q.cand = c
  BY <1>1 DEF Requests
<1>3. Move(p, "output", q)
  BY DEF Goto, Answer, Request, Move
<1> HIDE DEF q
<1>4. Suits("output", q)
  BY <1>1, <1>2 DEF Suits, Pcs
<1> QED BY <1>3, <1>4, MoveLocal

\* The steps of a command outside the lock.
LEMMA ReadLocal ==
    ASSUME LocalInv, NEW p \in Procs,
           \/ InitProbe(p) \/ InitLoad(p) \/ EditLoad(p) \/ AnonymizeLoad(p)
           \/ CopyLoad(p) \/ ToolProbe(p) \/ Reload(p) \/ Output(p)
    PROVE  LocalInv'
<1>1. Quiet
  BY DEF LocalInv, TypeOK, InitProbe, InitLoad, EditLoad, AnonymizeLoad, CopyLoad,
         ToolProbe, Reload, Output, disk, ghosts, bounds, Quiet
<1>2. /\ req \in [Procs -> Requests] /\ req[p] \in Requests
      /\ file \in [Paths -> Content]
      /\ pc[p] # "idle" => req[p].op \in Commands /\ req[p].path \in Paths
      /\ pc[p] = "load" => req[p].source \in Paths
      /\ pc[p] = "probe" /\ req[p].op = "force_init" => req[p].source \in Paths
      /\ pc[p] = "probe" /\ req[p].op \in {"tool_save", "tool_copy"} => req[p].cand \in Db
      /\ pc[p] = "reload" => req[p].cand \in Db
  BY DEF LocalInv, TypeOK, RequestOK
<1>3. req[p].seen \in Content \cup {None} /\ req[p].expect \in Db \cup {None}
  BY <1>2 DEF Requests
<1>4. CASE Finish(p)
  BY <1>1, <1>4, FinishLocal
<1>5. CASE InitProbe(p) /\ ~Finish(p)
  <2>1. CASE req[p].op = "force_init" /\ Goto(p, "load") /\ UNCHANGED req
    <3>1. req[p].source \in Paths
      BY <1>2, <1>5, <2>1 DEF InitProbe
    <3>2. Suits("load", req[p])
      BY <1>2, <1>5, <3>1 DEF Suits, InitProbe, Pcs, CriticalPcs
    <3> QED BY <1>1, <2>1, <3>2, KeepLocal
  <2>2. CASE Goto(p, "lock") /\ Decide(p, Absent, None, Fresh(1))
    BY <1>1, <1>5, <2>2, FreshType, DecideLocal DEF InitProbe, Content
  <2> QED BY <1>5, <2>1, <2>2 DEF InitProbe
<1>6. CASE InitLoad(p)
  <2>1. file[req[p].path] \in Content /\ pc[p] # "idle" /\ Goto(p, "lock")
    BY <1>2, <1>6 DEF InitLoad
  <2>2. CASE file[req[p].path] \in Db
    <3>1. Fresh(file[req[p].path].version + 1) \in Db
      BY <2>2, FreshType DEF Db
    <3> QED BY <1>1, <1>6, <2>1, <2>2, <3>1, DecideLocal DEF InitLoad
  <2>3. CASE file[req[p].path] \notin Db
    BY <1>1, <1>6, <2>1, <2>3, FreshType, DecideLocal DEF InitLoad
  <2> QED BY <2>2, <2>3
<1>7. CASE EditLoad(p) /\ ~Finish(p)
  <2>1. /\ file[req[p].path] \in Db /\ pc[p] # "idle" /\ Goto(p, "lock")
        /\ \E e \in Edits : Decide(p, file[req[p].path], file[req[p].path],
                                   Edit(file[req[p].path], e))
    BY <1>7 DEF EditLoad
  <2> QED BY <1>1, <2>1, EditType, DecideLocal DEF Content
<1>8. CASE AnonymizeLoad(p) /\ ~Finish(p)
  <2> DEFINE found == file[req[p].source]
  <2>1. found \in Db /\ pc[p] # "idle" /\ req[p].source \in Paths
    BY <1>2, <1>8 DEF AnonymizeLoad
  <2>2. CASE Goto(p, "output") /\ Answer(p, req[p].source, found)
    BY <1>1, <2>1, <2>2, AnswerLocal
  <2>3. CASE /\ NextOrdinal(found) \in 1..MaxOrdinal /\ Goto(p, "lock")
             /\ Decide(p, found, found, Assign(found, req[p].name))
    BY <1>1, <2>1, <2>3, AssignType, DecideLocal DEF Content
  <2> QED BY <1>8, <2>2, <2>3 DEF AnonymizeLoad
<1>9. CASE CopyLoad(p) /\ ~Finish(p)
  <2> DEFINE found == file[req[p].source]
             next == IF req[p].op = "tool_copy" THEN "probe" ELSE "lock"
  <2>1. /\ found \in Db /\ pc[p] # "idle" /\ req[p].source \in Paths
        /\ next \in {"lock", "probe"} /\ (next = "probe" => req[p].op # "force_init")
    BY <1>2, <1>9 DEF CopyLoad
  <2>2. CASE Goto(p, next) /\ Decide(p, req[p].seen, req[p].expect, found)
    BY <1>1, <1>3, <2>1, <2>2, DecideLocal
  <2>3. CASE Goto(p, "output") /\ Answer(p, req[p].source, found)
    BY <1>1, <2>1, <2>3, AnswerLocal
  <2>4. CASE /\ NextOrdinal(found) \in 1..MaxOrdinal /\ Goto(p, next)
             /\ Decide(p, req[p].seen, req[p].expect, Assign(found, req[p].name))
    BY <1>1, <1>3, <2>1, <2>4, AssignType, DecideLocal
  <2> QED BY <1>9, <2>2, <2>3, <2>4 DEF CopyLoad
<1>10. CASE ToolProbe(p) /\ ~Finish(p)
  <2> DEFINE m == (req[p].op = "tool_save")
             q == [req[p] EXCEPT !.seen = Absent, !.missing = m]
  <2>1. /\ q \in Requests /\ q.op = req[p].op /\ q.path = req[p].path
        /\ q.cand = req[p].cand
    BY <1>2, ProbeType, ZenonT(60)
  <2>2. Move(p, "lock", q)
    BY <1>10 DEF ToolProbe, Goto, Request, Move
  <2> HIDE DEF q
  <2>3. Suits("lock", q)
    BY <1>2, <1>10, <2>1 DEF Suits, ToolProbe, Pcs, CriticalPcs
  <2> QED BY <1>1, <2>2, <2>3, MoveLocal
<1>11. CASE Reload(p) /\ ~Finish(p)
  <2>1. Goto(p, "output") /\ UNCHANGED req /\ pc[p] = "reload"
    BY <1>11 DEF Reload
  <2>2. Suits("output", req[p])
    BY <1>2, <2>1 DEF Suits, Pcs, CriticalPcs
  <2> QED BY <1>1, <2>1, <2>2, KeepLocal
<1>12. CASE Output(p)
  BY <1>4, <1>12 DEF Output
<1> QED BY <1>4, <1>5, <1>6, <1>7, <1>8, <1>9, <1>10, <1>11, <1>12

\* The steps of save_replacement_db.
LEMMA SaveLocal ==
    ASSUME LocalInv, NEW p \in Procs,
           \/ Acquire(p) \/ Check(p) \/ WriteTemp(p) \/ FsyncTemp(p) \/ Rename(p)
           \/ Unlock(p) \/ Fail(p)
    PROVE  LocalInv'
<1>1. /\ TypeOK
      /\ req[p] \in Requests
      /\ pc[p] # "idle" => req[p].op \in Commands /\ req[p].path \in Paths
      /\ pc[p] \in {"lock"} \cup CriticalPcs => req[p].cand \in Db
      /\ pc[p] \in {"fsync", "rename"} =>
            temp[p] \in [db : Db, synced : BOOLEAN] /\ temp[p].db = req[p].cand
      /\ pc[p] = "rename" => temp[p].synced
  BY DEF LocalInv, TypeOK, RequestOK
<1>2. CASE Acquire(p)
  <2>1. Quiet
    BY <1>1, <1>2 DEF Acquire, Quiet, TypeOK, ghosts, bounds
  <2>2. Suits("check", req[p])
    BY <1>1, <1>2 DEF Acquire, Suits, Pcs, CriticalPcs
  <2> QED BY <1>2, <2>1, <2>2, KeepLocal DEF Acquire
<1>3. CASE Check(p)
  <2>1. Quiet
    BY <1>1, <1>3 DEF Check, Quiet, TypeOK, Release, ghosts, bounds
  <2>2. Suits("write", req[p])
    BY <1>1, <1>3 DEF Check, Suits, Pcs, CriticalPcs
  <2> QED BY <1>3, <2>1, <2>2, KeepLocal, FinishLocal DEF Check
<1>4. CASE WriteTemp(p)
  <2>1. [db |-> req[p].cand, synced |-> FALSE] \in [db : Db, synced : BOOLEAN]
    BY <1>1, <1>4 DEF WriteTemp, CriticalPcs
  <2>2. TypeOK'
    BY <1>1, <1>4, <2>1 DEF WriteTemp, TypeOK, Goto, Pcs, CriticalPcs, ghosts, bounds
  <2>3. RequestOK'
    BY <1>1, <1>4, <2>1 DEF WriteTemp, LocalInv, RequestOK, TypeOK, Goto, CriticalPcs, ghosts, bounds
  <2> QED BY <2>2, <2>3 DEF LocalInv
<1>5. CASE FsyncTemp(p)
  <2>1. /\ [temp[p] EXCEPT !.synced = TRUE] \in [db : Db, synced : BOOLEAN]
        /\ [temp[p] EXCEPT !.synced = TRUE].db = req[p].cand
        /\ [temp[p] EXCEPT !.synced = TRUE].synced
    BY <1>1, <1>5 DEF FsyncTemp
  <2>2. temp' = [temp EXCEPT ![p] = [temp[p] EXCEPT !.synced = TRUE]]
    BY <1>5 DEF FsyncTemp
  <2> DEFINE t == [temp[p] EXCEPT !.synced = TRUE]
  <2> HIDE DEF t
  <2>3. TypeOK'
    BY <1>1, <1>5, <2>1, <2>2 DEF FsyncTemp, TypeOK, Goto, Pcs, CriticalPcs, ghosts, bounds, t
  <2>4. RequestOK'
    BY <1>1, <1>5, <2>1, <2>2 DEF FsyncTemp, LocalInv, RequestOK, TypeOK, Goto, CriticalPcs,
       ghosts, bounds, t
  <2> QED BY <2>3, <2>4 DEF LocalInv
<1>6. CASE Rename(p)
  <2> DEFINE q == [req[p] EXCEPT !.era = era'[req[p].path]]
  <2>1. era' \in [Paths -> Nat]
    BY <1>1, <1>6 DEF Rename, TypeOK
  <2>2. era'[req[p].path] \in Nat
    BY <1>1, <1>6, <2>1 DEF Rename
  <2>3. q \in Requests /\ q.op = req[p].op /\ q.path = req[p].path /\ q.cand = req[p].cand
    BY <1>1, <2>2, EraType
  <2>4. req' = [req EXCEPT ![p] = q] /\ pc' = [pc EXCEPT ![p] = "unlock"]
    BY <1>6 DEF Rename, Request, Goto
  <2> HIDE DEF q
  <2>5. file' \in [Paths -> Content] /\ survivors' \in [Paths -> SUBSET Content]
    BY <1>1, <1>6 DEF Rename, TypeOK, Content
  <2>6. TypeOK'
    BY <1>1, <1>6, <2>1, <2>3, <2>4, <2>5 DEF Rename, TypeOK, Pcs, CriticalPcs, bounds
  <2>7. RequestOK'
    BY <1>1, <1>6, <2>3, <2>4 DEF Rename, LocalInv, TypeOK, RequestOK, CriticalPcs
  <2> QED BY <2>6, <2>7 DEF LocalInv
<1>7. CASE Unlock(p)
  <2>1. Quiet
    BY <1>1, <1>7 DEF Unlock, Quiet, TypeOK, Release, ghosts, bounds
  <2>2. Suits("reload", req[p])
    BY <1>1, <1>7 DEF Unlock, Suits, Pcs, CriticalPcs
  <2> QED BY <1>7, <2>1, <2>2, KeepLocal DEF Unlock
<1>8. CASE Fail(p)
  <2>1. /\ pc' = [pc EXCEPT ![p] = "idle"]
        /\ req' = [req EXCEPT ![p] = NoRequest]
        /\ temp' = temp \/ temp' = [temp EXCEPT ![p] = None]
        /\ UNCHANGED <<file, survivors, begun, losses, era>>
    BY <1>8 DEF Fail, WriteFails, ChmodFails, Crash, Finish, Goto, Request, ghosts, bounds
  <2>2. holder' \in [Paths -> Procs \cup {None}]
    BY <1>1, <1>8 DEF Fail, WriteFails, ChmodFails, Crash, Release, TypeOK
  <2>3. TypeOK'
    BY <1>1, <2>1, <2>2, NoRequestType DEF TypeOK, Pcs
  <2>4. RequestOK'
    BY <1>1, <2>1 DEF LocalInv, TypeOK, RequestOK, CriticalPcs
  <2> QED BY <2>3, <2>4 DEF LocalInv
<1> QED BY <1>2, <1>3, <1>4, <1>5, <1>6, <1>7, <1>8

LEMMA PowerLossLocal == LocalInv /\ PowerLoss => LocalInv'
<1> SUFFICES ASSUME LocalInv, PowerLoss PROVE LocalInv'
  OBVIOUS
<1>1. TypeOK
  BY DEF LocalInv
<1>2. file' \in [Paths -> Content] /\ survivors' \in [Paths -> SUBSET Content]
  <2>1. UNION {survivors[f] : f \in Paths} \subseteq Content
    BY <1>1 DEF TypeOK
  <2> QED BY <1>1, <2>1 DEF PowerLoss
<1>3. era' \in [Paths -> Nat]
  BY <1>1 DEF PowerLoss, TypeOK, ghosts
<1>4. TypeOK'
  BY <1>1, <1>2, <1>3, NoRequestType DEF PowerLoss, TypeOK, Pcs
<1>5. RequestOK'
  BY DEF PowerLoss, RequestOK, CriticalPcs
<1> QED BY <1>4, <1>5 DEF LocalInv

LEMMA StepLocal == LocalInv /\ [Next]_vars => LocalInv'
<1> SUFFICES ASSUME LocalInv, [Next]_vars PROVE LocalInv'
  OBVIOUS
<1>1. CASE UNCHANGED vars
  BY <1>1 DEF vars, LocalInv, TypeOK, RequestOK
<1>2. CASE \E f \in Paths : Writeback(f)
  BY <1>2 DEF Writeback, LocalInv, TypeOK, RequestOK, ghosts, bounds
<1>3. CASE PowerLoss
  BY <1>3, PowerLossLocal
<1>4. ASSUME NEW p \in Procs, Start(p) \/ Advance(p) \/ Fail(p) PROVE LocalInv'
  BY <1>4, StartLocal, ReadLocal, SaveLocal DEF Advance
<1> QED BY <1>1, <1>2, <1>3, <1>4 DEF Next

\* Every variable keeps its type, and every request holds what its command
\* needs at the point it has reached.
THEOREM LocalInvariance == Spec => []LocalInv
<1> QED BY InitLocal, StepLocal, PTL DEF Spec

-----------------------------------------------------------------------------
(* The lock protocol.                                                      *)

\* What r declares at point l is consistent with the disk: a candidate that does
\* not carry the content it replaces (no expected hash) was computed for a path
\* without a readable database, is a version 1 or insists on a missing file.
Fits(l, r) ==
    /\ l \in {"load", "probe"} =>
          IF r.op = "tool_copy_over" THEN r.expect \in Db /\ r.seen = r.expect
                                     ELSE r.expect = None
    /\ l \in {"lock", "check", "write", "fsync", "rename"} /\ r.op # "tool_copy" =>
          \/ r.expect \in Db /\ r.seen = r.expect
          \/ /\ r.expect = None /\ r.seen = Absent /\ file[r.path] # Corrupt
             /\ r.missing \/ r.cand.version = 1
          \/ /\ r.expect = None /\ r.seen = Corrupt /\ file[r.path] # Absent
             /\ r.cand.version = 1

SeenOK == \A p \in Procs : Fits(pc[p], req[p])

HolderOK == \A p \in Procs : pc[p] \in CriticalPcs => holder[req[p].path] = p

\* What a power loss can bring back is the present content or an older one.
Older(old, new) ==
    \/ old = new
    \/ old \in {Absent, Corrupt}
    \/ old \in Db /\ new \in Db /\ old.version < new.version

SurvivorsOK ==
    \A f \in Paths : /\ file[f] \in survivors[f]
                     /\ \A v \in survivors[f] : Older(v, file[f])

GlobalInv ==
    SeenOK /\ HolderOK /\ SurvivorsOK /\ AcceptedStillHolds /\ SavedVersionVisible

LEMMA FreshVersion == ASSUME NEW v PROVE Fresh(v).version = v
BY DEF Fresh

LEMMA InitGlobal == Init => GlobalInv
BY DEF Init, GlobalInv, SeenOK, Fits, HolderOK, SurvivorsOK, Older, AcceptedStillHolds,
       SavedVersionVisible, CriticalPcs

\* A step that leaves the disk alone and moves p to a point outside the lock.
LEMMA MoveGlobal ==
    ASSUME LocalInv, GlobalInv, NEW p \in Procs, UNCHANGED <<file, survivors, holder>>,
           NEW l, NEW r, Move(p, l, r), l \notin CriticalPcs \cup {"reload"}, Fits(l, r)
    PROVE  GlobalInv'
<1>1. \A q \in Procs : IF q = p THEN pc'[q] = l /\ req'[q] = r
                                ELSE pc'[q] = pc[q] /\ req'[q] = req[q]
  BY DEF LocalInv, TypeOK, Move
<1>2. SeenOK'
  BY <1>1 DEF GlobalInv, SeenOK, Fits
<1>3. HolderOK'
  BY <1>1 DEF GlobalInv, HolderOK
<1>4. SurvivorsOK'
  BY DEF GlobalInv, SurvivorsOK, Older
<1>5. AcceptedStillHolds'
  BY <1>1 DEF GlobalInv, AcceptedStillHolds, SaveAccepted, CriticalPcs
<1>6. SavedVersionVisible'
  BY <1>1 DEF GlobalInv, SavedVersionVisible, CriticalPcs
<1> QED BY <1>2, <1>3, <1>4, <1>5, <1>6 DEF GlobalInv

LEMMA FinishGlobal ==
    ASSUME LocalInv, GlobalInv, NEW p \in Procs, UNCHANGED <<file, survivors, holder>>,
           Finish(p)
    PROVE  GlobalInv'
<1>1. Move(p, "idle", NoRequest)
  BY DEF Finish, Goto, Request, Move
<1> QED BY <1>1, MoveGlobal DEF Fits, CriticalPcs

LEMMA KeepGlobal ==
    ASSUME LocalInv, GlobalInv, NEW p \in Procs, UNCHANGED <<file, survivors, holder>>,
           NEW l \in {"load", "output"}, Goto(p, l), UNCHANGED req, Fits(l, req[p])
    PROVE  GlobalInv'
<1>1. Move(p, l, req[p])
  BY DEF LocalInv, TypeOK, Goto, Move
<1> QED BY <1>1, MoveGlobal DEF CriticalPcs

LEMMA DecideGlobal ==
    ASSUME LocalInv, GlobalInv, NEW p \in Procs, UNCHANGED <<file, survivors, holder>>,
           NEW l \in {"lock", "probe"}, Goto(p, l),
           NEW s, NEW x, NEW c, Decide(p, s, x, c),
           l = "probe" => req[p].op = "tool_copy" /\ x = None,
           \/ req[p].op = "tool_copy"
           \/ x \in Db /\ s = x
           \/ x = None /\ s = Absent /\ file[req[p].path] # Corrupt /\ c.version = 1
           \/ x = None /\ s = Corrupt /\ file[req[p].path] # Absent /\ c.version = 1
    PROVE  GlobalInv'
<1> DEFINE q == [req[p] EXCEPT !.seen = s, !.expect = x, !.cand = c]
<1>1. req[p] \in Requests
  BY DEF LocalInv, TypeOK
<1>2. q.op = req[p].op /\ q.path = req[p].path /\ q.cand = c /\ q.seen = s /\ q.expect = x
  BY <1>1 DEF Requests
<1>3. Move(p, l, q)
  BY DEF Goto, Decide, Request, Move
<1> HIDE DEF q
<1>4. Fits(l, q)
  BY <1>2 DEF Fits
<1> QED BY <1>3, <1>4, MoveGlobal DEF CriticalPcs

LEMMA AnswerGlobal ==
    ASSUME LocalInv, GlobalInv, NEW p \in Procs, UNCHANGED <<file, survivors, holder>>,
           Goto(p, "output"), NEW f, NEW c, Answer(p, f, c)
    PROVE  GlobalInv'
<1> DEFINE q == [req[p] EXCEPT !.path = f, !.cand = c, !.seen = None, !.expect = None,
                               !.era = era[f]]
<1>1. Move(p, "output", q)
  BY DEF Goto, Answer, Request, Move
<1> HIDE DEF q
<1> QED BY <1>1, MoveGlobal DEF Fits, CriticalPcs

LEMMA StartGlobal ==
    ASSUME LocalInv, GlobalInv, NEW p \in Procs, Start(p) PROVE GlobalInv'
<1>1. ASSUME NEW l \in {"load", "probe", "lock"}, NEW r, Begin(p, l, r), Fits(l, r)
      PROVE  GlobalInv'
  <2>1. Move(p, l, r) /\ UNCHANGED <<file, survivors, holder>>
    BY <1>1 DEF Begin, Goto, Request, Move, disk
  <2> QED BY <1>1, <2>1, MoveGlobal DEF CriticalPcs
<1>2. CASE BeginInit(p)
  <2>1. PICK f \in Paths, op \in {"init", "force_init"} :
           Begin(p, "probe", [NoRequest EXCEPT !.op = op, !.path = f, !.source = f])
    BY <1>2 DEF BeginInit
  <2> DEFINE r == [NoRequest EXCEPT !.op = op, !.path = f, !.source = f]
  <2>2. Fits("probe", r)
    BY DEF Fits, NoRequest
  <2> QED BY <1>1, <2>1, <2>2
<1>3. CASE BeginEdit(p)
  <2>1. PICK f \in Paths :
           Begin(p, "load", [NoRequest EXCEPT !.op = "edit", !.path = f,
                                              !.source = f, !.save = TRUE])
    BY <1>3 DEF BeginEdit
  <2> DEFINE r == [NoRequest EXCEPT !.op = "edit", !.path = f, !.source = f, !.save = TRUE]
  <2>2. Fits("load", r)
    BY DEF Fits, NoRequest
  <2> QED BY <1>1, <2>1, <2>2
<1>4. CASE BeginAnonymize(p)
  <2>1. PICK f \in Paths, n \in Names, s \in BOOLEAN :
           Begin(p, "load", [NoRequest EXCEPT !.op = "anonymize", !.path = f,
                                              !.source = f, !.name = n, !.save = s])
    BY <1>4 DEF BeginAnonymize
  <2> DEFINE r == [NoRequest EXCEPT !.op = "anonymize", !.path = f, !.source = f,
                                    !.name = n, !.save = s]
  <2>2. Fits("load", r)
    BY DEF Fits, NoRequest
  <2> QED BY <1>1, <2>1, <2>2
<1>5. CASE BeginToolCopy(p)
  <2>1. PICK f \in Paths, g \in Paths, n \in Names \cup {None} :
           Begin(p, "load", [NoRequest EXCEPT !.op = "tool_copy", !.path = g,
                                !.source = f, !.name = n, !.save = TRUE])
    BY <1>5 DEF BeginToolCopy
  <2> DEFINE r == [NoRequest EXCEPT !.op = "tool_copy", !.path = g, !.source = f,
                                    !.name = n, !.save = TRUE]
  <2>2. Fits("load", r)
    BY DEF Fits, NoRequest
  <2> QED BY <1>1, <2>1, <2>2
<1>6. CASE BeginToolCopyOver(p)
  <2>1. PICK f \in Paths, g \in Paths, n \in Names \cup {None} :
           /\ file[g] \in Db
           /\ Begin(p, "load", [NoRequest EXCEPT !.op = "tool_copy_over", !.path = g,
                                  !.source = f, !.name = n, !.save = TRUE,
                                  !.seen = file[g], !.expect = file[g]])
    BY <1>6 DEF BeginToolCopyOver
  <2> DEFINE r == [NoRequest EXCEPT !.op = "tool_copy_over", !.path = g, !.source = f,
                       !.name = n, !.save = TRUE, !.seen = file[g], !.expect = file[g]]
  <2>2. r.seen = file[g] /\ r.expect = file[g] /\ r.op = "tool_copy_over"
    BY DEF NoRequest
  <2> HIDE DEF r
  <2>3. Fits("load", r)
    BY <2>1, <2>2 DEF Fits
  <2> QED BY <1>1, <2>1, <2>3 DEF r
<1>7. CASE BeginToolSave(p)
  <2>1. PICK f \in Paths, db \in Db :
           Begin(p, "probe", [NoRequest EXCEPT !.op = "tool_save", !.path = f, !.cand = db])
    BY <1>7 DEF BeginToolSave
  <2> DEFINE r == [NoRequest EXCEPT !.op = "tool_save", !.path = f, !.cand = db]
  <2>2. Fits("probe", r)
    BY DEF Fits, NoRequest
  <2> QED BY <1>1, <2>1, <2>2
<1>8. CASE BeginToolSaveOver(p)
  <2>1. PICK f \in Paths, e \in Edits :
           /\ file[f] \in Db
           /\ Begin(p, "lock", [NoRequest EXCEPT !.op = "tool_save_over", !.path = f,
                                  !.seen = file[f], !.expect = file[f],
                                  !.cand = Edit(file[f], e)])
    BY <1>8 DEF BeginToolSaveOver
  <2> DEFINE r == [NoRequest EXCEPT !.op = "tool_save_over", !.path = f, !.seen = file[f],
                                    !.expect = file[f], !.cand = Edit(file[f], e)]
  <2>2. r.seen = file[f] /\ r.expect = file[f] /\ r.op = "tool_save_over"
    BY DEF NoRequest
  <2> HIDE DEF r
  <2>3. Fits("lock", r)
    BY <2>1, <2>2 DEF Fits
  <2> QED BY <1>1, <2>1, <2>3 DEF r
<1> QED BY <1>2, <1>3, <1>4, <1>5, <1>6, <1>7, <1>8 DEF Start

LEMMA ReadGlobal ==
    ASSUME LocalInv, GlobalInv, NEW p \in Procs,
           \/ InitProbe(p) \/ InitLoad(p) \/ EditLoad(p) \/ AnonymizeLoad(p)
           \/ CopyLoad(p) \/ ToolProbe(p) \/ Reload(p) \/ Output(p)
    PROVE  GlobalInv'
<1>1. UNCHANGED <<file, survivors, holder>>
  BY DEF InitProbe, InitLoad, EditLoad, AnonymizeLoad, CopyLoad, ToolProbe, Reload, Output, disk
<1>2. /\ file \in [Paths -> Content]
      /\ pc[p] # "idle" => req[p].path \in Paths
      /\ Fits(pc[p], req[p])
      /\ req[p] \in Requests
  BY DEF LocalInv, TypeOK, RequestOK, GlobalInv, SeenOK
<1>3. CASE Finish(p)
  BY <1>1, <1>3, FinishGlobal
<1>4. CASE InitProbe(p) /\ ~Finish(p)
  <2>1. CASE req[p].op = "force_init" /\ Goto(p, "load") /\ UNCHANGED req
    <3>1. Fits("load", req[p])
      BY <1>2, <1>4, <2>1 DEF Fits, InitProbe
    <3> QED BY <1>1, <2>1, <3>1, KeepGlobal
  <2>2. CASE /\ file[req[p].path] = Absent /\ Goto(p, "lock")
             /\ Decide(p, Absent, None, Fresh(1))
    BY <1>1, <1>4, <2>2, FreshVersion, DecideGlobal
  <2> QED BY <1>4, <2>1, <2>2 DEF InitProbe
<1>5. CASE InitLoad(p)
  <2> DEFINE found == file[req[p].path]
  <2>1. found \in Content /\ Goto(p, "lock")
    BY <1>2, <1>5 DEF InitLoad
  <2>2. CASE found \in Db /\ Decide(p, found, found, Fresh(found.version + 1))
    BY <1>1, <2>1, <2>2, DecideGlobal
  <2>3. CASE found \notin Db /\ Decide(p, found, None, Fresh(1))
    <3>1. found \in {Absent, Corrupt}
      BY <2>1, <2>3 DEF Content
    <3> QED BY <1>1, <2>1, <2>3, <3>1, FreshVersion, DecideGlobal
  <2> QED BY <1>5, <2>2, <2>3 DEF InitLoad
<1>6. CASE EditLoad(p) /\ ~Finish(p)
  <2>1. /\ file[req[p].path] \in Db /\ Goto(p, "lock")
        /\ \E e \in Edits : Decide(p, file[req[p].path], file[req[p].path],
                                   Edit(file[req[p].path], e))
    BY <1>6 DEF EditLoad
  <2> QED BY <1>1, <2>1, DecideGlobal
<1>7. CASE AnonymizeLoad(p) /\ ~Finish(p)
  <2> DEFINE found == file[req[p].source]
  <2>1. CASE Goto(p, "output") /\ Answer(p, req[p].source, found)
    BY <1>1, <2>1, AnswerGlobal
  <2>2. CASE /\ found \in Db /\ Goto(p, "lock")
             /\ Decide(p, found, found, Assign(found, req[p].name))
    BY <1>1, <2>2, DecideGlobal
  <2> QED BY <1>7, <2>1, <2>2 DEF AnonymizeLoad
<1>8. CASE CopyLoad(p) /\ ~Finish(p)
  <2> DEFINE next == IF req[p].op = "tool_copy" THEN "probe" ELSE "lock"
  <2>1. /\ next \in {"lock", "probe"}
        /\ next = "probe" => req[p].op = "tool_copy" /\ req[p].expect = None
        /\ \/ req[p].op = "tool_copy"
           \/ req[p].expect \in Db /\ req[p].seen = req[p].expect
    BY <1>2, <1>8 DEF CopyLoad, Fits
  <2>2. ASSUME NEW c, Goto(p, next), Decide(p, req[p].seen, req[p].expect, c)
        PROVE  GlobalInv'
    BY <1>1, <2>1, <2>2, DecideGlobal
  <2>3. CASE Goto(p, "output") /\ Answer(p, req[p].source, file[req[p].source])
    BY <1>1, <2>3, AnswerGlobal
  <2> QED BY <1>8, <2>2, <2>3 DEF CopyLoad
<1>9. CASE ToolProbe(p) /\ ~Finish(p)
  <2> DEFINE m == (req[p].op = "tool_save")
             q == [req[p] EXCEPT !.seen = Absent, !.missing = m]
  <2>1. /\ q.seen = Absent /\ q.missing = m /\ q.op = req[p].op
        /\ q.path = req[p].path /\ q.expect = req[p].expect
    BY <1>2, ProbeType, ZenonT(60)
  <2>2. Move(p, "lock", q)
    BY <1>9 DEF ToolProbe, Goto, Request, Move
  <2> HIDE DEF q
  <2>3. Fits("lock", q)
    BY <1>2, <1>9, <2>1 DEF Fits, ToolProbe
  <2> QED BY <1>1, <2>2, <2>3, MoveGlobal DEF CriticalPcs
<1>10. CASE Reload(p) /\ ~Finish(p)
  <2>1. Goto(p, "output") /\ UNCHANGED req
    BY <1>10 DEF Reload
  <2> QED BY <1>1, <2>1, KeepGlobal DEF Fits
<1>11. CASE Output(p)
  BY <1>3, <1>11 DEF Output
<1> QED BY <1>3, <1>4, <1>5, <1>6, <1>7, <1>8, <1>9, <1>10, <1>11

\* Two processes inside the lock have different destinations.
LEMMA Exclusion ==
    ASSUME GlobalInv, NEW p \in Procs, NEW q \in Procs, p # q,
           pc[p] \in CriticalPcs, pc[q] \in CriticalPcs
    PROVE  req[p].path # req[q].path
BY DEF GlobalInv, HolderOK

\* The rename of p: the file becomes the candidate that the checks accepted.
LEMMA RenameFile ==
    ASSUME LocalInv, GlobalInv, NEW p \in Procs, Rename(p)
    PROVE  /\ req[p].path \in Paths /\ req[p].cand \in Db
           /\ file' = [file EXCEPT ![req[p].path] = req[p].cand]
           /\ survivors' = [survivors EXCEPT ![req[p].path] = @ \cup {req[p].cand}]
           /\ SaveAccepted(file[req[p].path], req[p])
           /\ pc' = [pc EXCEPT ![p] = "unlock"] /\ pc[p] = "rename"
           /\ UNCHANGED holder
           /\ LET q == req'[p] IN
              /\ q.op = req[p].op /\ q.path = req[p].path /\ q.cand = req[p].cand
              /\ q.seen = req[p].seen
           /\ \A o \in Procs \ {p} : req'[o] = req[o] /\ pc'[o] = pc[o]
<1>1. /\ pc[p] = "rename" /\ req[p].path \in Paths /\ req[p].cand \in Db
      /\ temp[p].db = req[p].cand /\ temp[p].synced
      /\ req[p] \in Requests /\ req \in [Procs -> Requests] /\ pc \in [Procs -> Pcs]
  BY DEF LocalInv, TypeOK, RequestOK, Rename, CriticalPcs
<1>2. era'[req[p].path] \in Nat
  BY <1>1 DEF LocalInv, TypeOK, Rename
<1>3. req' = [req EXCEPT ![p] = [req[p] EXCEPT !.era = era'[req[p].path]]]
  BY DEF Rename, Request
<1>4. LET q == req'[p] IN
      /\ q.op = req[p].op /\ q.path = req[p].path /\ q.cand = req[p].cand
      /\ q.seen = req[p].seen
  BY <1>1, <1>2, <1>3, EraType
<1>5. \A o \in Procs \ {p} : req'[o] = req[o] /\ pc'[o] = pc[o]
  BY <1>1, <1>3 DEF Rename, Goto
<1>6. survivors' = [survivors EXCEPT ![req[p].path] = @ \cup {req[p].cand}]
  BY <1>1 DEF Rename
<1>7. SaveAccepted(file[req[p].path], req[p])
  BY <1>1 DEF GlobalInv, AcceptedStillHolds
<1> QED BY <1>1, <1>4, <1>5, <1>6, <1>7 DEF Rename, Goto

\* A save that was accepted does not lower the version of a readable file.
LEMMA AcceptedVersion ==
    ASSUME NEW r \in Requests, r.cand \in Db, NEW found \in Db, SaveAccepted(found, r)
    PROVE  r.cand.version >= found.version
<1>1. found # Absent /\ found # Corrupt
  OBVIOUS
<1>2. r.cand = found \/ r.cand.version = found.version + 1
  BY <1>1 DEF SaveAccepted
<1>3. r.cand.version \in Nat /\ found.version \in Nat
  BY DEF Db
<1> QED BY <1>2, <1>3

\* What is older than a content that a save was accepted over is older than, or
\* equal to, what was saved.
LEMMA AcceptedOlder ==
    ASSUME NEW r \in Requests, r.cand \in Db, NEW found \in Content, SaveAccepted(found, r),
           NEW v \in Content, Older(v, found)
    PROVE  Older(v, r.cand)
<1>1. CASE v \in {Absent, Corrupt}
  BY <1>1 DEF Older
<1>2. CASE v \in Db
  <2>1. found \in Db /\ (v = found \/ v.version < found.version)
    BY <1>2 DEF Older
  <2>2. r.cand = found \/ r.cand.version = found.version + 1
    BY <2>1 DEF SaveAccepted
  <2>3. v.version \in Nat /\ found.version \in Nat /\ r.cand.version \in Nat
    BY <1>2, <2>1 DEF Db
  <2> QED BY <1>2, <2>1, <2>2, <2>3 DEF Older
<1> QED BY <1>1, <1>2 DEF Content

LEMMA RenameGlobal ==
    ASSUME LocalInv, GlobalInv, NEW p \in Procs, Rename(p) PROVE GlobalInv'
<1> DEFINE f == req[p].path
           c == req[p].cand
<1>1. /\ f \in Paths /\ c \in Db /\ pc[p] = "rename" /\ pc[p] \in CriticalPcs
      /\ file' = [file EXCEPT ![f] = c]
      /\ survivors' = [survivors EXCEPT ![f] = @ \cup {c}]
      /\ pc' = [pc EXCEPT ![p] = "unlock"] /\ pc'[p] = "unlock"
      /\ UNCHANGED holder
      /\ req'[p].path = f /\ req'[p].cand = c
      /\ \A o \in Procs \ {p} : req'[o] = req[o] /\ pc'[o] = pc[o]
      /\ file \in [Paths -> Content] /\ survivors \in [Paths -> SUBSET Content]
      /\ req \in [Procs -> Requests]
  BY RenameFile DEF LocalInv, TypeOK, CriticalPcs
<1>2. SeenOK'
  <2> SUFFICES ASSUME NEW o \in Procs PROVE Fits(pc[o], req[o])'
    BY DEF SeenOK
  <2>1. CASE o = p
    BY <1>1, <2>1 DEF Fits
  <2>2. CASE o # p
    <3>1. Fits(pc[o], req[o])
      BY DEF GlobalInv, SeenOK
    <3>2. pc[o] # "idle" => req[o].path \in Paths
      BY DEF LocalInv, RequestOK
    <3> QED BY <1>1, <2>2, <3>1, <3>2 DEF Fits
  <2> QED BY <2>1, <2>2
<1>3. HolderOK'
  BY <1>1 DEF GlobalInv, HolderOK, CriticalPcs
<1>4. SurvivorsOK'
  <2>1. SurvivorsOK
    BY DEF GlobalInv
  <2>2. ASSUME NEW v \in survivors[f] PROVE Older(v, c)
    BY <1>1, <2>1, <2>2, RenameFile, AcceptedOlder DEF SurvivorsOK
  <2>3. ASSUME NEW g \in Paths
        PROVE  file'[g] \in survivors'[g] /\ \A v \in survivors'[g] : Older(v, file'[g])
    <3>1. CASE g = f
      BY <1>1, <2>2, <3>1 DEF Older
    <3>2. CASE g # f
      BY <1>1, <2>1, <3>2 DEF SurvivorsOK
    <3> QED BY <3>1, <3>2
  <2> QED BY <2>3 DEF SurvivorsOK, Older
<1>5. AcceptedStillHolds'
  <2> SUFFICES ASSUME NEW o \in Procs, pc'[o] \in {"write", "fsync", "rename"}
               PROVE  SaveAccepted(file'[req'[o].path], req'[o])
    BY DEF AcceptedStillHolds, SaveAccepted
  <2>1. o # p
    BY <1>1
  <2>2. pc[o] \in {"write", "fsync", "rename"} /\ req'[o] = req[o]
    BY <1>1, <2>1
  <2>3. req[o].path # f
    BY <1>1, <2>1, <2>2, Exclusion DEF CriticalPcs
  <2>4. SaveAccepted(file[req[o].path], req[o])
    BY <2>2 DEF GlobalInv, AcceptedStillHolds
  <2> QED BY <1>1, <2>2, <2>3, <2>4
<1>6. SavedVersionVisible'
  <2> SUFFICES ASSUME NEW o \in Procs, pc'[o] \in {"unlock", "reload"}
               PROVE  /\ file'[req'[o].path] \in Db
                      /\ file'[req'[o].path].version >= req'[o].cand.version
    BY DEF SavedVersionVisible
  <2>1. CASE o = p
    BY <1>1, <2>1 DEF Db
  <2>2. CASE o # p
    <3>1. /\ pc[o] \in {"unlock", "reload"} /\ req'[o] = req[o]
          /\ req[o].path \in Paths /\ req[o].cand \in Db
      BY <1>1, <2>2 DEF LocalInv, RequestOK, CriticalPcs
    <3>2. file[req[o].path] \in Db /\ file[req[o].path].version >= req[o].cand.version
      BY <3>1 DEF GlobalInv, SavedVersionVisible
    <3>3. CASE req[o].path # f
      BY <1>1, <3>1, <3>2, <3>3
    <3>4. CASE req[o].path = f
      <4>1. c.version >= file[f].version
        BY <1>1, <3>2, <3>4, RenameFile, AcceptedVersion
      <4>2. /\ c.version \in Nat /\ file[f].version \in Nat
            /\ req[o].cand.version \in Nat
        BY <1>1, <3>1, <3>2, <3>4 DEF Db
      <4> QED BY <1>1, <3>1, <3>2, <3>4, <4>1, <4>2
    <3> QED BY <3>3, <3>4
  <2> QED BY <2>1, <2>2
<1> QED BY <1>2, <1>3, <1>4, <1>5, <1>6 DEF GlobalInv

\* The other steps of save_replacement_db leave the file alone.
LEMMA SaveGlobal ==
    ASSUME LocalInv, GlobalInv, NEW p \in Procs,
           \/ Acquire(p) \/ Check(p) \/ WriteTemp(p) \/ FsyncTemp(p) \/ Unlock(p) \/ Fail(p)
    PROVE  GlobalInv'
<1>1. /\ UNCHANGED <<file, survivors>>
      /\ req \in [Procs -> Requests] /\ pc \in [Procs -> Pcs]
      /\ holder \in [Paths -> Procs \cup {None}]
      /\ \A o \in Procs : pc[o] # "idle" => req[o].path \in Paths
  BY DEF LocalInv, TypeOK, RequestOK, Acquire, Check, WriteTemp, FsyncTemp, Unlock, Fail,
         WriteFails, ChmodFails, Crash, disk
<1>2. SurvivorsOK'
  BY <1>1 DEF GlobalInv, SurvivorsOK, Older
<1>3. CASE UNCHANGED req /\ \E l \in CriticalPcs \cup {"reload"} : Goto(p, l)
  <2>1. \A o \in Procs \ {p} : req'[o] = req[o] /\ pc'[o] = pc[o]
    BY <1>1, <1>3 DEF Goto
  <2>2. SeenOK'
    <3>1. /\ pc[p] \in {"lock", "check", "write", "fsync", "unlock"}
          /\ pc'[p] \in CriticalPcs \cup {"reload"}
          /\ pc'[p] \in {"check", "write", "fsync", "rename"} =>
                pc[p] \in {"lock", "check", "write", "fsync"}
      BY <1>1, <1>3 DEF Acquire, Check, WriteTemp, FsyncTemp, Unlock, Fail, WriteFails,
         ChmodFails, Crash, Goto, Finish, CriticalPcs
    <3>2. SeenOK
      BY DEF GlobalInv
    <3> QED BY <1>1, <1>3, <2>1, <3>1, <3>2 DEF SeenOK, Fits, CriticalPcs
  <2>3. HolderOK'
    <3>1. CASE Acquire(p)
      BY <1>1, <2>1, <3>1 DEF GlobalInv, HolderOK, Acquire, Goto, CriticalPcs
    <3>2. CASE Unlock(p)
      BY <1>1, <2>1, <3>2 DEF GlobalInv, HolderOK, Unlock, Release, Goto, CriticalPcs
    <3>3. CASE UNCHANGED holder /\ pc[p] \in CriticalPcs
      BY <1>1, <1>3, <2>1, <3>3 DEF GlobalInv, HolderOK, CriticalPcs
    <3>4. CASE Fail(p)
      BY <1>1, <1>3, <3>4 DEF Fail, WriteFails, ChmodFails, Crash, Finish, Goto, CriticalPcs
    <3>5. CASE Check(p)
      BY <1>1, <1>3, <3>3, <3>5 DEF Check, Finish, Goto, CriticalPcs
    <3> QED BY <3>1, <3>2, <3>3, <3>4, <3>5 DEF WriteTemp, FsyncTemp, CriticalPcs
  <2>4. AcceptedStillHolds'
    <3>1. AcceptedStillHolds
      BY DEF GlobalInv
    <3>2. pc'[p] \in {"write", "fsync", "rename"} => SaveAccepted(file[req[p].path], req[p])
      BY <1>1, <1>3, <3>1 DEF AcceptedStillHolds, Acquire, Check, WriteTemp, FsyncTemp, Unlock,
         Fail, WriteFails, ChmodFails, Crash, Goto, Finish, CriticalPcs
    <3> QED BY <1>1, <1>3, <2>1, <3>1, <3>2 DEF AcceptedStillHolds, SaveAccepted
  <2>5. SavedVersionVisible'
    <3>1. pc'[p] \in {"unlock", "reload"} => pc[p] = "unlock"
      BY <1>1, <1>3 DEF Acquire, Check, WriteTemp, FsyncTemp, Unlock, Fail, WriteFails,
         ChmodFails, Crash, Goto, Finish, CriticalPcs
    <3> QED BY <1>1, <1>3, <2>1, <3>1 DEF GlobalInv, SavedVersionVisible
  <2> QED BY <1>2, <2>2, <2>3, <2>4, <2>5 DEF GlobalInv
<1>4. CASE /\ Finish(p)
           /\ \A f \in Paths : holder'[f] = holder[f] \/ (holder'[f] = None /\ holder[f] = p)
  <2>1. \A o \in Procs \ {p} : req'[o] = req[o] /\ pc'[o] = pc[o]
    BY <1>1, <1>4 DEF Finish, Goto, Request
  <2>2. pc'[p] = "idle"
    BY <1>1, <1>4 DEF Finish, Goto
  <2>3. SeenOK'
    BY <1>1, <2>1, <2>2 DEF GlobalInv, SeenOK, Fits
  <2>4. HolderOK'
    BY <1>1, <1>4, <2>1, <2>2 DEF GlobalInv, HolderOK, CriticalPcs
  <2>5. AcceptedStillHolds'
    BY <1>1, <2>1, <2>2 DEF GlobalInv, AcceptedStillHolds, SaveAccepted
  <2>6. SavedVersionVisible'
    BY <1>1, <2>1, <2>2 DEF GlobalInv, SavedVersionVisible
  <2> QED BY <1>2, <2>3, <2>4, <2>5, <2>6 DEF GlobalInv
<1>5. ASSUME Finish(p), Release(p), pc[p] \in CriticalPcs PROVE GlobalInv'
  <2>1. holder[req[p].path] = p
    BY <1>5 DEF GlobalInv, HolderOK
  <2>2. \A f \in Paths : holder'[f] = holder[f] \/ (holder'[f] = None /\ holder[f] = p)
    BY <1>1, <1>5, <2>1 DEF Release
  <2> QED BY <1>4, <1>5, <2>2
<1>6. CASE Acquire(p) \/ WriteTemp(p) \/ FsyncTemp(p) \/ Unlock(p)
  BY <1>3, <1>6 DEF Acquire, WriteTemp, FsyncTemp, Unlock, CriticalPcs
<1>7. CASE Check(p)
  BY <1>3, <1>5, <1>7 DEF Check, CriticalPcs
<1>8. CASE Fail(p)
  <2>1. CASE WriteFails(p) \/ ChmodFails(p)
    BY <1>5, <2>1 DEF WriteFails, ChmodFails, CriticalPcs
  <2>2. CASE Crash(p)
    BY <1>1, <1>4, <2>2 DEF Crash
  <2> QED BY <1>8, <2>1, <2>2 DEF Fail
<1> QED BY <1>6, <1>7, <1>8

LEMMA PowerLossGlobal == LocalInv /\ PowerLoss => GlobalInv'
<1> SUFFICES ASSUME LocalInv, PowerLoss PROVE GlobalInv'
  OBVIOUS
<1>1. \A p \in Procs : pc'[p] = "idle"
  BY DEF PowerLoss
<1>2. SeenOK' /\ HolderOK' /\ AcceptedStillHolds' /\ SavedVersionVisible'
  BY <1>1 DEF SeenOK, Fits, HolderOK, AcceptedStillHolds, SavedVersionVisible, CriticalPcs
<1>3. SurvivorsOK'
  BY DEF PowerLoss, SurvivorsOK, Older
<1> QED BY <1>2, <1>3 DEF GlobalInv

LEMMA WritebackGlobal ==
    ASSUME LocalInv, GlobalInv, NEW f \in Paths, Writeback(f) PROVE GlobalInv'
<1>1. UNCHANGED <<file, holder, pc, req>>
  BY DEF Writeback
<1>2. SeenOK' /\ HolderOK' /\ AcceptedStillHolds' /\ SavedVersionVisible'
  BY <1>1 DEF GlobalInv, SeenOK, Fits, HolderOK, AcceptedStillHolds, SavedVersionVisible,
              SaveAccepted
<1>3. SurvivorsOK'
  BY DEF Writeback, GlobalInv, SurvivorsOK, Older, LocalInv, TypeOK
<1> QED BY <1>2, <1>3 DEF GlobalInv

LEMMA StepGlobal == LocalInv /\ GlobalInv /\ [Next]_vars => GlobalInv'
<1> SUFFICES ASSUME LocalInv, GlobalInv, [Next]_vars PROVE GlobalInv'
  OBVIOUS
<1>1. CASE UNCHANGED vars
  BY <1>1 DEF vars, GlobalInv, SeenOK, Fits, HolderOK, SurvivorsOK, Older, AcceptedStillHolds,
              SaveAccepted, SavedVersionVisible
<1>2. CASE \E f \in Paths : Writeback(f)
  BY <1>2, WritebackGlobal
<1>3. CASE PowerLoss
  BY <1>3, PowerLossGlobal
<1>4. ASSUME NEW p \in Procs, Start(p) \/ Advance(p) \/ Fail(p) PROVE GlobalInv'
  BY <1>4, StartGlobal, ReadGlobal, SaveGlobal, RenameGlobal DEF Advance
<1> QED BY <1>1, <1>2, <1>3, <1>4 DEF Next

\* The lock protocol works: see AcceptedStillHolds and SavedVersionVisible.
THEOREM GlobalInvariance == Spec => [](LocalInv /\ GlobalInv)
<1>1. Init => LocalInv /\ GlobalInv
  BY InitLocal, InitGlobal
<1>2. LocalInv /\ GlobalInv /\ [Next]_vars => (LocalInv /\ GlobalInv)'
  BY StepLocal, StepGlobal
<1> QED BY <1>1, <1>2, PTL DEF Spec

\* Type correctness of save_replacement_db and its clients.
THEOREM TypeCorrect == Spec => []TypeOK
<1>1. LocalInv => TypeOK
  BY DEF LocalInv
<1> QED BY LocalInvariance, <1>1, PTL

\* The checks made under the lock still hold at the rename.
THEOREM ChecksAreStable == Spec => []AcceptedStillHolds
<1>1. GlobalInv => AcceptedStillHolds
  BY DEF GlobalInv
<1> QED BY GlobalInvariance, <1>1, PTL

\* A client that saved never reads back an older version.
THEOREM SavedVersionsVisible == Spec => []SavedVersionVisible
<1>1. GlobalInv => SavedVersionVisible
  BY DEF GlobalInv
<1> QED BY GlobalInvariance, <1>1, PTL

-----------------------------------------------------------------------------
(* Action properties                                                       *)

\* Only a rename or a power loss changes a file, or what may survive in it.
LEMMA FileSteps ==
    ASSUME LocalInv, GlobalInv, [Next]_vars, losses' = losses
    PROVE  \/ \E p \in Procs : Rename(p)
           \/ /\ UNCHANGED file
              /\ UNCHANGED survivors \/ \E f \in Paths : Writeback(f)
<1>1. CASE UNCHANGED vars
  BY <1>1 DEF vars
<1>2. CASE \E f \in Paths : Writeback(f)
  BY <1>2 DEF Writeback
<1>3. CASE PowerLoss
  <2>1. losses \in Nat
    BY DEF LocalInv, TypeOK
  <2> QED BY <1>3, <2>1 DEF PowerLoss
<1>4. ASSUME NEW p \in Procs, Start(p) \/ Advance(p) \/ Fail(p)
      PROVE  Rename(p) \/ UNCHANGED <<file, survivors>>
  BY <1>4 DEF Start, Begin, BeginInit, BeginEdit, BeginAnonymize, BeginToolCopy,
     BeginToolCopyOver, BeginToolSave, BeginToolSaveOver, Advance, InitProbe, InitLoad, EditLoad,
     AnonymizeLoad, CopyLoad, ToolProbe, Acquire, Check, WriteTemp, FsyncTemp, Unlock, Reload,
     Output, Fail, WriteFails, ChmodFails, Crash, disk
<1> QED BY <1>1, <1>2, <1>3, <1>4 DEF Next

LEMMA LossSteps == [Next]_vars => PowerLoss \/ losses' = losses
<1> SUFFICES ASSUME [Next]_vars PROVE PowerLoss \/ losses' = losses
  OBVIOUS
<1>1. CASE UNCHANGED vars
  BY <1>1 DEF vars
<1>2. ASSUME NEW f \in Paths, Writeback(f) PROVE losses' = losses
  BY <1>2 DEF Writeback, bounds
<1>3. ASSUME NEW p \in Procs, Start(p) PROVE losses' = losses
  BY <1>3 DEF Start, Begin, BeginInit, BeginEdit, BeginAnonymize, BeginToolCopy,
     BeginToolCopyOver, BeginToolSave, BeginToolSaveOver
<1>4. ASSUME NEW p \in Procs, Advance(p) PROVE losses' = losses
  BY <1>4 DEF Advance, InitProbe, InitLoad, EditLoad, AnonymizeLoad, CopyLoad, ToolProbe,
     Acquire, Check, WriteTemp, FsyncTemp, Rename, Unlock, Reload, Output, bounds
<1>5. ASSUME NEW p \in Procs, Fail(p) PROVE losses' = losses
  BY <1>5 DEF Fail, WriteFails, ChmodFails, Crash, bounds
<1> QED BY <1>1, <1>2, <1>3, <1>4, <1>5 DEF Next

\* A rename replaces what the client saw, unless it changes nothing.
LEMMA RenameSeen ==
    ASSUME LocalInv, GlobalInv, NEW p \in Procs, Rename(p), req[p].op # "tool_copy"
    PROVE  \/ req[p].seen = file[req[p].path]
           \/ req[p].cand = file[req[p].path]
<1> DEFINE r == req[p]
           found == file[r.path]
<1>1. /\ r.path \in Paths /\ r.cand \in Db /\ pc[p] = "rename"
      /\ SaveAccepted(found, r) /\ found \in Content
  BY RenameFile DEF LocalInv, TypeOK
<1>2. Fits("rename", r)
  BY <1>1 DEF GlobalInv, SeenOK
<1>3. CASE r.expect \in Db /\ r.seen = r.expect
  BY <1>1, <1>3 DEF SaveAccepted, Content
<1>4. CASE /\ r.expect = None /\ r.seen \in {Absent, Corrupt} /\ r.seen # found
           /\ r.missing \/ r.cand.version = 1
  <2>1. found \in Db
    BY <1>1, <1>2, <1>4 DEF Content, Fits
  <2>2. ~r.missing /\ (r.cand # found => r.cand.version = found.version + 1)
    BY <1>1, <2>1 DEF SaveAccepted
  <2>3. found.version \in Nat \ {0}
    BY <2>1 DEF Db
  <2> QED BY <1>4, <2>2, <2>3
<1> QED BY <1>2, <1>3, <1>4 DEF Fits

\* No command but tool_copy overwrites a content it has not seen.
THEOREM NoLostUpdate ==
    ASSUME "tool_copy" \notin Commands PROVE Spec => NoBlindOverwrite
<1> DEFINE Blind == \A f \in Paths : file'[f] # file[f] /\ losses' = losses =>
                       \E p \in Procs : pc[p] = "rename" /\ req[p].path = f
                                        /\ req[p].seen = file[f]
<1>1. LocalInv /\ GlobalInv /\ [Next]_vars => [Blind]_vars
  <2> SUFFICES ASSUME LocalInv, GlobalInv, [Next]_vars, losses' = losses,
                      NEW f \in Paths, file'[f] # file[f]
               PROVE  \E p \in Procs : pc[p] = "rename" /\ req[p].path = f
                                       /\ req[p].seen = file[f]
    OBVIOUS
  <2>1. PICK p \in Procs : Rename(p)
    BY FileSteps
  <2>2. /\ file' = [file EXCEPT ![req[p].path] = req[p].cand] /\ pc[p] = "rename"
        /\ file \in [Paths -> Content]
    BY <2>1, RenameFile DEF LocalInv, TypeOK
  <2>3. req[p].path = f /\ req[p].cand # file[f]
    BY <2>2
  <2>4. req[p].op # "tool_copy"
    BY <2>2 DEF LocalInv, RequestOK
  <2> QED BY <2>1, <2>2, <2>3, <2>4, RenameSeen
<1> QED BY <1>1, GlobalInvariance, PTL DEF Spec, NoBlindOverwrite

\* No save, even cut short by a power loss, introduces a torn file.
THEOREM NeverTorn == Spec => NoTornFile
<1> DEFINE Whole == \A f \in Paths : Corrupt \notin survivors[f] =>
                       Corrupt \notin survivors'[f] /\ file'[f] # Corrupt
<1>1. LocalInv /\ GlobalInv /\ [Next]_vars => [Whole]_vars
  <2> SUFFICES ASSUME LocalInv, GlobalInv, [Next]_vars, NEW f \in Paths,
                      Corrupt \notin survivors[f]
               PROVE  Corrupt \notin survivors'[f] /\ file'[f] # Corrupt
    OBVIOUS
  <2>1. SurvivorsOK' /\ SurvivorsOK /\ survivors \in [Paths -> SUBSET Content]
    BY StepGlobal DEF GlobalInv, LocalInv, TypeOK
  <2>2. Corrupt \notin survivors'[f]
    <3>1. CASE PowerLoss
      BY <3>1 DEF PowerLoss
    <3>2. ASSUME NEW p \in Procs, Rename(p) PROVE Corrupt \notin survivors'[f]
      BY <2>1, <3>2, RenameFile
    <3>3. ASSUME NEW g \in Paths, Writeback(g) PROVE Corrupt \notin survivors'[f]
      BY <2>1, <3>3 DEF Writeback, SurvivorsOK
    <3>4. CASE losses' = losses
      BY <3>2, <3>3, <3>4, FileSteps
    <3>5. PowerLoss \/ losses' = losses
      BY LossSteps
    <3> QED BY <3>1, <3>4, <3>5
  <2> QED BY <2>1, <2>2 DEF SurvivorsOK
<1> QED BY <1>1, GlobalInvariance, PTL DEF Spec, NoTornFile

-----------------------------------------------------------------------------
(* What was handed out can be reversed                                     *)

\* One token never stands for two originals.
Distinct(db) == \A m, n \in Names : db.tok[m] = db.tok[n] /\ db.tok[m] # 0 => m = n

\* The database new still has every token of old.
Extends(new, old) == \A n \in Names : old.tok[n] # 0 => new.tok[n] = old.tok[n]

\* The token e hands out is in the database at its path, unless that was discarded or
\* the power has failed since.
Backed(e) ==
    /\ e.path \in Paths /\ e.era \in Nat /\ e.era <= era[e.path]
    /\ e.since \in Nat /\ e.since <= losses
    /\ e.name \in Names /\ e.token # 0
    /\ e.era = era[e.path] /\ e.since = losses =>
          file[e.path] \in Db /\ file[e.path].tok[e.name] = e.token

\* What Output hands out for request r.
Outgoing(r) == [path |-> r.path, era |-> r.era, since |-> losses, name |-> r.name,
                token |-> r.cand.tok[r.name]]

\* What the request r of a command holds at point l for its output to be reversible.
Carries(l, r) ==
    /\ l = "load" /\ r.op = "anonymize" => r.name \in Names
    /\ l \in {"lock", "check", "write", "fsync", "rename"} =>
          /\ r.op \notin Discarding /\ r.expect \in Db => Extends(r.cand, r.expect)
          /\ r.name # None => r.cand.tok[r.name] # 0
    /\ l = "probe" /\ r.op \in {"tool_save", "tool_copy"} /\ r.name # None =>
          r.cand.tok[r.name] # 0
    /\ r.op \in {"init", "force_init", "edit"} => r.name = None
    /\ l \in {"unlock", "reload"} /\ r.name # None => Backed(Outgoing(r))
    /\ l = "output" => Backed(Outgoing(r))

Unambiguous ==
    /\ \A f \in Paths : \A db \in survivors[f] : db \in Db => Distinct(db)
    /\ \A p \in Procs : req[p].cand \in Db => Distinct(req[p].cand)
Carrying == \A p \in Procs : Carries(pc[p], req[p])
Given == \A e \in emitted : Backed(e)

RecoverInv == Unambiguous /\ Carrying /\ Given

\* The order of the naturals, as a relation.
LEMMA BelowIsWellFounded ==
    \E R : IsWellFoundedOn(R, Nat) /\ \A x, y \in Nat : y < x => <<y, x>> \in R
<1> DEFINE R == OpToRel(<, Nat)
<1>1. IsWellFoundedOn(R, Nat)
  BY NatLessThanWellFounded
<1>2. \A x, y \in Nat : y < x => <<y, x>> \in R
  BY DEF OpToRel
<1> QED BY <1>1, <1>2, Zenon

\* A set of naturals that is not empty has a smallest element.
LEMMA SmallestOf ==
    ASSUME NEW T \in SUBSET Nat, T # {}
    PROVE  \E x \in T : \A y \in T : x <= y
<1>1. PICK R : IsWellFoundedOn(R, Nat) /\ \A x, y \in Nat : y < x => <<y, x>> \in R
  BY BelowIsWellFounded
<1>2. PICK x \in T : \A y \in T : <<y, x>> \notin R
  BY <1>1, WFMin
<1>3. x \in Nat /\ \A y \in T : y \in Nat /\ ~(y < x)
  BY <1>1, <1>2, Zenon
<1> QED BY <1>3

\* The next ordinal is larger than every one in use.
LEMMA NextOrdinalAbove ==
    ASSUME NEW db \in Db
    PROVE  NextOrdinal(db) \in 1..(MaxOrdinal + 1) /\ \A n \in Names : db.tok[n] < NextOrdinal(db)
<1> DEFINE T == {o \in 1..(MaxOrdinal + 1) : \A n \in Names : db.tok[n] < o}
<1>0. \A n \in Names : db.tok[n] \in 0..MaxOrdinal
  BY DEF Db
<1>1. MaxOrdinal + 1 \in T /\ T \in SUBSET Nat
  BY <1>0
<1>2. PICK o \in T : \A q \in T : o <= q
  <2> HIDE DEF T
  <2> QED BY <1>1, SmallestOf
<1>3. o = 1 \/ \E n \in Names : db.tok[n] = o - 1
  <2> SUFFICES ASSUME o # 1 PROVE \E n \in Names : db.tok[n] = o - 1
    OBVIOUS
  <2>1. o - 1 \in 1..(MaxOrdinal + 1) /\ o - 1 \notin T
    BY <1>1, <1>2
  <2>2. PICK n \in Names : ~(db.tok[n] < o - 1)
    BY <2>1
  <2>3. db.tok[n] < o /\ db.tok[n] \in Nat /\ o \in Nat
    BY <1>0, <1>2
  <2> QED BY <2>2, <2>3
<1>4. \E q \in 1..(MaxOrdinal + 1) : (\A n \in Names : db.tok[n] < q) /\ (q = 1 \/ \E n \in Names : db.tok[n] = q - 1)
  BY <1>2, <1>3
<1> QED BY <1>4 DEF NextOrdinal

LEMMA FreshDistinct == ASSUME NEW v PROVE Distinct(Fresh(v))
BY DEF Distinct, Fresh

LEMMA EditKeeps ==
    ASSUME NEW db \in Db, NEW e, Distinct(db)
    PROVE  Distinct(Edit(db, e)) /\ Extends(Edit(db, e), db)
BY DEF Distinct, Extends, Edit

LEMMA AssignKeeps ==
    ASSUME NEW db \in Db, NEW n \in Names, Distinct(db), db.tok[n] = 0
    PROVE  /\ Distinct(Assign(db, n)) /\ Extends(Assign(db, n), db)
           /\ Assign(db, n).tok[n] # 0
<1> DEFINE o == NextOrdinal(db)
<1>1. o \in 1..(MaxOrdinal + 1) /\ \A m \in Names : db.tok[m] < o
  BY NextOrdinalAbove
<1>2. db.tok \in [Names -> 0..MaxOrdinal]
  BY DEF Db
<1> HIDE DEF o
<1>3. Assign(db, n).tok = [db.tok EXCEPT ![n] = o]
  BY DEF Assign, o
<1>4. \A m \in Names : Assign(db, n).tok[m] = IF m = n THEN o ELSE db.tok[m]
  BY <1>2, <1>3
<1>5. \A m \in Names : db.tok[m] \in Nat /\ db.tok[m] # o
  BY <1>1, <1>2
<1>6. o # 0
  BY <1>1
<1> QED BY <1>4, <1>5, <1>6 DEF Distinct, Extends

LEMMA FileDistinct ==
    ASSUME GlobalInv, RecoverInv, NEW f \in Paths, file[f] \in Db PROVE Distinct(file[f])
BY DEF GlobalInv, SurvivorsOK, RecoverInv, Unambiguous

\* A step that leaves the files and the outputs alone and moves p to a point its request suits.
LEMMA MoveRecover ==
    ASSUME LocalInv, RecoverInv, NEW p \in Procs, UNCHANGED <<file, survivors, losses, era, emitted>>,
           NEW l, NEW r, Move(p, l, r), Carries(l, r), r.cand \in Db => Distinct(r.cand)
    PROVE  RecoverInv'
<1>1. \A q \in Procs : IF q = p THEN pc'[q] = l /\ req'[q] = r
                                ELSE pc'[q] = pc[q] /\ req'[q] = req[q]
  BY DEF LocalInv, TypeOK, Move
<1>2. Unambiguous'
  BY <1>1 DEF RecoverInv, Unambiguous, Distinct
<1>3. \A e : Backed(e)' <=> Backed(e)
  BY DEF Backed
<1>4. Carrying'
  <2> SUFFICES ASSUME NEW q \in Procs PROVE Carries(pc[q], req[q])'
    BY DEF Carrying
  <2>1. CASE q = p
    BY <1>1, <1>3, <2>1 DEF Carries, Outgoing, Extends
  <2>2. CASE q # p
    <3>1. Carries(pc[q], req[q])
      BY DEF RecoverInv, Carrying
    <3> QED BY <1>1, <1>3, <2>2, <3>1 DEF Carries, Outgoing, Extends
  <2> QED BY <2>1, <2>2
<1>5. Given'
  BY <1>3 DEF RecoverInv, Given
<1> QED BY <1>2, <1>4, <1>5 DEF RecoverInv

LEMMA IdleCarries == Carries("idle", NoRequest) /\ NoRequest.cand \notin Db
BY DEF Carries, NoRequest

LEMMA FinishRecover ==
    ASSUME LocalInv, RecoverInv, NEW p \in Procs, UNCHANGED <<file, survivors, losses, era, emitted>>,
           Finish(p)
    PROVE  RecoverInv'
<1>1. Move(p, "idle", NoRequest)
  BY DEF Finish, Goto, Request, Move
<1> QED BY <1>1, IdleCarries, MoveRecover

LEMMA KeepRecover ==
    ASSUME LocalInv, RecoverInv, NEW p \in Procs, UNCHANGED <<file, survivors, losses, era, emitted>>,
           NEW l, Goto(p, l), UNCHANGED req, Carries(l, req[p])
    PROVE  RecoverInv'
<1>1. Move(p, l, req[p])
  BY DEF LocalInv, TypeOK, Goto, Move
<1> QED BY <1>1, MoveRecover DEF RecoverInv, Unambiguous

LEMMA DecideRecover ==
    ASSUME LocalInv, RecoverInv, NEW p \in Procs, UNCHANGED <<file, survivors, losses, era, emitted>>,
           NEW l \in {"lock", "probe"}, Goto(p, l),
           NEW s, NEW x, NEW c \in Db, Decide(p, s, x, c), Distinct(c),
           req[p].op \notin Discarding /\ x \in Db => Extends(c, x),
           req[p].name # None => c.tok[req[p].name] # 0
    PROVE  RecoverInv'
<1> DEFINE q == [req[p] EXCEPT !.seen = s, !.expect = x, !.cand = c]
<1>1. req[p] \in Requests
  BY DEF LocalInv, TypeOK
<1>2. q.op = req[p].op /\ q.name = req[p].name /\ q.cand = c /\ q.expect = x
  BY <1>1 DEF Requests
<1>3. Move(p, l, q)
  BY DEF Goto, Decide, Request, Move
<1> HIDE DEF q
<1>4. req[p].op \in {"init", "force_init", "edit"} => req[p].name = None
  BY DEF RecoverInv, Carrying, Carries
<1>5. Carries(l, q)
  BY <1>2, <1>4 DEF Carries
<1> QED BY <1>2, <1>3, <1>5, MoveRecover

LEMMA AnswerRecover ==
    ASSUME LocalInv, RecoverInv, NEW p \in Procs, UNCHANGED <<file, survivors, losses, era, emitted>>,
           Goto(p, "output"), NEW f \in Paths, file[f] \in Db, Answer(p, f, file[f]),
           Distinct(file[f]), req[p].name \in Names, file[f].tok[req[p].name] # 0,
           req[p].op \notin {"init", "force_init", "edit"}
    PROVE  RecoverInv'
<1> DEFINE q == [req[p] EXCEPT !.path = f, !.cand = file[f], !.seen = None, !.expect = None,
                               !.era = era[f]]
<1>1. req[p] \in Requests /\ era[f] \in Nat
  BY DEF LocalInv, TypeOK
<1>2. /\ q.op = req[p].op /\ q.name = req[p].name /\ q.cand = file[f] /\ q.path = f
      /\ q.era = era[f]
  BY <1>1 DEF Requests
<1>3. Move(p, "output", q)
  BY DEF Goto, Answer, Request, Move
<1> HIDE DEF q
<1>4. Backed(Outgoing(q))
  BY <1>1, <1>2 DEF Backed, Outgoing, LocalInv, TypeOK
<1>5. Carries("output", q)
  BY <1>2, <1>4 DEF Carries
<1> QED BY <1>2, <1>3, <1>5, MoveRecover

LEMMA StartRecover ==
    ASSUME LocalInv, GlobalInv, RecoverInv, NEW p \in Procs, Start(p) PROVE RecoverInv'
<1>1. ASSUME NEW l, NEW r, Begin(p, l, r), Carries(l, r), r.cand \in Db => Distinct(r.cand)
      PROVE  RecoverInv'
  <2>1. Move(p, l, r) /\ UNCHANGED <<file, survivors, losses, era, emitted>>
    BY <1>1 DEF Begin, Goto, Request, Move, disk, ghosts
  <2> QED BY <1>1, <2>1, MoveRecover
<1>2. CASE BeginInit(p)
  <2>1. PICK f \in Paths, op \in {"init", "force_init"} :
           Begin(p, "probe", [NoRequest EXCEPT !.op = op, !.path = f, !.source = f])
    BY <1>2 DEF BeginInit
  <2> DEFINE r == [NoRequest EXCEPT !.op = op, !.path = f, !.source = f]
  <2>2. Carries("probe", r) /\ r.cand \notin Db
    BY DEF Carries, NoRequest
  <2> QED BY <1>1, <2>1, <2>2
<1>3. CASE BeginEdit(p)
  <2>1. PICK f \in Paths :
           Begin(p, "load", [NoRequest EXCEPT !.op = "edit", !.path = f,
                                              !.source = f, !.save = TRUE])
    BY <1>3 DEF BeginEdit
  <2> DEFINE r == [NoRequest EXCEPT !.op = "edit", !.path = f, !.source = f, !.save = TRUE]
  <2>2. Carries("load", r) /\ r.cand \notin Db
    BY DEF Carries, NoRequest
  <2> QED BY <1>1, <2>1, <2>2
<1>4. CASE BeginAnonymize(p)
  <2>1. PICK f \in Paths, n \in Names, s \in BOOLEAN :
           Begin(p, "load", [NoRequest EXCEPT !.op = "anonymize", !.path = f,
                                              !.source = f, !.name = n, !.save = s])
    BY <1>4 DEF BeginAnonymize
  <2> DEFINE r == [NoRequest EXCEPT !.op = "anonymize", !.path = f, !.source = f,
                                    !.name = n, !.save = s]
  <2>2. Carries("load", r) /\ r.cand \notin Db
    BY DEF Carries, NoRequest
  <2> QED BY <1>1, <2>1, <2>2
<1>5. CASE BeginToolCopy(p)
  <2>1. PICK f \in Paths, g \in Paths, n \in Names \cup {None} :
           Begin(p, "load", [NoRequest EXCEPT !.op = "tool_copy", !.path = g,
                                !.source = f, !.name = n, !.save = TRUE])
    BY <1>5 DEF BeginToolCopy
  <2> DEFINE r == [NoRequest EXCEPT !.op = "tool_copy", !.path = g, !.source = f,
                                    !.name = n, !.save = TRUE]
  <2>2. Carries("load", r) /\ r.cand \notin Db
    BY DEF Carries, NoRequest
  <2> QED BY <1>1, <2>1, <2>2
<1>6. CASE BeginToolCopyOver(p)
  <2>1. PICK f \in Paths, g \in Paths, n \in Names \cup {None} :
           /\ file[g] \in Db
           /\ Begin(p, "load", [NoRequest EXCEPT !.op = "tool_copy_over", !.path = g,
                                  !.source = f, !.name = n, !.save = TRUE,
                                  !.seen = file[g], !.expect = file[g]])
    BY <1>6 DEF BeginToolCopyOver
  <2> DEFINE r == [NoRequest EXCEPT !.op = "tool_copy_over", !.path = g, !.source = f,
                       !.name = n, !.save = TRUE, !.seen = file[g], !.expect = file[g]]
  <2>2. Carries("load", r) /\ r.cand \notin Db
    BY DEF Carries, NoRequest
  <2> QED BY <1>1, <2>1, <2>2
<1>7. CASE BeginToolSave(p)
  <2>1. PICK f \in Paths, db \in {Fresh(1)} \cup {file[g] : g \in Paths} :
           /\ db \in Db
           /\ Begin(p, "probe", [NoRequest EXCEPT !.op = "tool_save", !.path = f, !.cand = db])
    BY <1>7 DEF BeginToolSave
  <2> DEFINE r == [NoRequest EXCEPT !.op = "tool_save", !.path = f, !.cand = db]
  <2>2. Carries("probe", r) /\ r.cand = db
    BY DEF Carries, NoRequest
  <2>3. Distinct(db)
    BY <2>1, FreshDistinct, FileDistinct
  <2> HIDE DEF r
  <2> QED BY <1>1, <2>1, <2>2, <2>3 DEF r
<1>8. CASE BeginToolSaveOver(p)
  <2>1. PICK f \in Paths, e \in Edits :
           /\ file[f] \in Db
           /\ Begin(p, "lock", [NoRequest EXCEPT !.op = "tool_save_over", !.path = f,
                                  !.seen = file[f], !.expect = file[f],
                                  !.cand = Edit(file[f], e)])
    BY <1>8 DEF BeginToolSaveOver
  <2> DEFINE r == [NoRequest EXCEPT !.op = "tool_save_over", !.path = f, !.seen = file[f],
                                    !.expect = file[f], !.cand = Edit(file[f], e)]
  <2>2. r.op = "tool_save_over" /\ r.name = None /\ r.expect = file[f] /\ r.cand = Edit(file[f], e)
    BY DEF NoRequest
  <2>3. Distinct(Edit(file[f], e)) /\ Extends(Edit(file[f], e), file[f])
    BY <2>1, FileDistinct, EditKeeps
  <2> HIDE DEF r
  <2>4. Carries("lock", r)
    BY <2>2, <2>3 DEF Carries
  <2> QED BY <1>1, <2>1, <2>2, <2>3, <2>4 DEF r
<1> QED BY <1>2, <1>3, <1>4, <1>5, <1>6, <1>7, <1>8 DEF Start

LEMMA ReadRecover ==
    ASSUME LocalInv, GlobalInv, RecoverInv, NEW p \in Procs,
           \/ InitProbe(p) \/ InitLoad(p) \/ EditLoad(p) \/ AnonymizeLoad(p)
           \/ CopyLoad(p) \/ ToolProbe(p) \/ Reload(p)
    PROVE  RecoverInv'
<1>1. UNCHANGED <<file, survivors, losses, era, emitted>>
  BY DEF InitProbe, InitLoad, EditLoad, AnonymizeLoad, CopyLoad, ToolProbe, Reload, disk, ghosts,
     bounds
<1>2. /\ file \in [Paths -> Content]
      /\ pc[p] # "idle" => req[p].path \in Paths
      /\ pc[p] = "load" => req[p].source \in Paths
      /\ Fits(pc[p], req[p]) /\ Carries(pc[p], req[p])
      /\ req[p] \in Requests /\ req[p].name \in Names \cup {None}
  BY DEF LocalInv, TypeOK, RequestOK, GlobalInv, SeenOK, RecoverInv, Carrying, Requests
<1>3. CASE Finish(p)
  BY <1>1, <1>3, FinishRecover
<1>4. CASE InitProbe(p) /\ ~Finish(p)
  <2>1. req[p].name = None
    BY <1>2, <1>4 DEF InitProbe, Carries
  <2>2. CASE req[p].op = "force_init" /\ Goto(p, "load") /\ UNCHANGED req
    <3>1. Carries("load", req[p])
      BY <1>2, <2>2 DEF Carries
    <3> QED BY <1>1, <2>2, <3>1, KeepRecover
  <2>3. CASE Goto(p, "lock") /\ Decide(p, Absent, None, Fresh(1))
    BY <1>1, <2>1, <2>3, FreshType, FreshDistinct, DecideRecover
  <2> QED BY <1>4, <2>2, <2>3 DEF InitProbe
<1>5. CASE InitLoad(p)
  <2> DEFINE found == file[req[p].path]
  <2>1. req[p].name = None /\ req[p].op \in Discarding /\ Goto(p, "lock")
    BY <1>2, <1>5 DEF InitLoad, Carries, Discarding
  <2>2. CASE found \in Db /\ Decide(p, found, found, Fresh(found.version + 1))
    <3>1. Fresh(found.version + 1) \in Db
      BY <2>2, FreshType DEF Db
    <3> QED BY <1>1, <2>1, <2>2, <3>1, FreshDistinct, DecideRecover
  <2>3. CASE found \notin Db /\ Decide(p, found, None, Fresh(1))
    BY <1>1, <2>1, <2>3, FreshType, FreshDistinct, DecideRecover
  <2> QED BY <1>5, <2>2, <2>3 DEF InitLoad
<1>6. CASE EditLoad(p) /\ ~Finish(p)
  <2> DEFINE found == file[req[p].path]
  <2>1. PICK e \in Edits : found \in Db /\ Goto(p, "lock") /\ Decide(p, found, found, Edit(found, e))
    BY <1>6 DEF EditLoad
  <2>2. req[p].name = None /\ req[p].path \in Paths
    BY <1>2, <1>6 DEF EditLoad, Carries
  <2>3. Edit(found, e) \in Db /\ Distinct(Edit(found, e)) /\ Extends(Edit(found, e), found)
    BY <2>1, <2>2, EditType, FileDistinct, EditKeeps
  <2> QED BY <1>1, <2>1, <2>2, <2>3, DecideRecover
<1>7. CASE AnonymizeLoad(p) /\ ~Finish(p)
  <2> DEFINE found == file[req[p].source]
  <2>1. /\ found \in Db /\ req[p].source \in Paths /\ Distinct(found)
        /\ req[p].name \in Names /\ req[p].op = "anonymize"
    BY <1>2, <1>7, FileDistinct DEF AnonymizeLoad, Carries
  <2>2. CASE Goto(p, "output") /\ found.tok[req[p].name] # 0 /\ Answer(p, req[p].source, found)
    BY <1>1, <2>1, <2>2, AnswerRecover
  <2>3. CASE /\ found.tok[req[p].name] = 0 /\ NextOrdinal(found) \in 1..MaxOrdinal
             /\ Goto(p, "lock") /\ Decide(p, found, found, Assign(found, req[p].name))
    <3>1. /\ Assign(found, req[p].name) \in Db /\ Distinct(Assign(found, req[p].name))
          /\ Extends(Assign(found, req[p].name), found)
          /\ Assign(found, req[p].name).tok[req[p].name] # 0
      BY <2>1, <2>3, AssignType, AssignKeeps
    <3> QED BY <1>1, <2>3, <3>1, DecideRecover
  <2> QED BY <1>7, <2>2, <2>3 DEF AnonymizeLoad
<1>8. CASE CopyLoad(p) /\ ~Finish(p)
  <2> DEFINE found == file[req[p].source]
             next == IF req[p].op = "tool_copy" THEN "probe" ELSE "lock"
  <2>1. /\ found \in Db /\ req[p].source \in Paths /\ Distinct(found)
        /\ req[p].op \in {"tool_copy", "tool_copy_over"} /\ next \in {"lock", "probe"}
        /\ req[p].op \in Discarding \/ req[p].expect \notin Db
    BY <1>2, <1>8, FileDistinct DEF CopyLoad, Fits, Discarding
  <2>2. CASE req[p].name = None /\ Goto(p, next) /\ Decide(p, req[p].seen, req[p].expect, found)
    BY <1>1, <2>1, <2>2, DecideRecover
  <2>3. CASE /\ req[p].name # None /\ found.tok[req[p].name] # 0
             /\ Goto(p, "output") /\ Answer(p, req[p].source, found)
    BY <1>1, <1>2, <2>1, <2>3, AnswerRecover
  <2>4. CASE /\ req[p].name # None /\ found.tok[req[p].name] = 0
             /\ NextOrdinal(found) \in 1..MaxOrdinal /\ Goto(p, next)
             /\ Decide(p, req[p].seen, req[p].expect, Assign(found, req[p].name))
    <3>1. /\ Assign(found, req[p].name) \in Db /\ Distinct(Assign(found, req[p].name))
          /\ Assign(found, req[p].name).tok[req[p].name] # 0
      BY <1>2, <2>1, <2>4, AssignType, AssignKeeps
    <3> QED BY <1>1, <2>1, <2>4, <3>1, DecideRecover
  <2> QED BY <1>8, <2>2, <2>3, <2>4 DEF CopyLoad
<1>9. CASE ToolProbe(p) /\ ~Finish(p)
  <2> DEFINE m == (req[p].op = "tool_save")
             q == [req[p] EXCEPT !.seen = Absent, !.missing = m]
  <2>1. /\ q.op = req[p].op /\ q.cand = req[p].cand /\ q.expect = req[p].expect
        /\ q.name = req[p].name
    BY <1>2 DEF Requests
  <2>2. Move(p, "lock", q)
    BY <1>9 DEF ToolProbe, Goto, Request, Move
  <2> HIDE DEF q
  <2>3. /\ req[p].op \in {"tool_save", "tool_copy"} /\ req[p].expect = None
        /\ req[p].name # None => req[p].cand.tok[req[p].name] # 0
    BY <1>2, <1>9 DEF ToolProbe, Fits, Carries
  <2>4. Carries("lock", q)
    BY <2>1, <2>3 DEF Carries
  <2>5. q.cand \in Db => Distinct(q.cand)
    BY <2>1 DEF RecoverInv, Unambiguous
  <2> QED BY <1>1, <2>2, <2>4, <2>5, MoveRecover
<1>10. CASE Reload(p) /\ ~Finish(p)
  <2>1. Goto(p, "output") /\ UNCHANGED req /\ pc[p] = "reload" /\ req[p].name # None
    BY <1>10 DEF Reload
  <2>2. Carries("output", req[p])
    BY <1>2, <2>1 DEF Carries
  <2> QED BY <1>1, <2>1, <2>2, KeepRecover
<1> QED BY <1>3, <1>4, <1>5, <1>6, <1>7, <1>8, <1>9, <1>10

\* The output is what was promised.
LEMMA OutputRecover ==
    ASSUME LocalInv, RecoverInv, NEW p \in Procs, Output(p) PROVE RecoverInv'
<1>1. Backed(Outgoing(req[p]))
  BY DEF Output, RecoverInv, Carrying, Carries
<1>2. emitted' = emitted \cup {Outgoing(req[p])} /\ UNCHANGED <<file, survivors, losses, era>>
  BY DEF Output, Outgoing, disk, bounds
<1>3. /\ req' = [req EXCEPT ![p] = NoRequest] /\ pc' = [pc EXCEPT ![p] = "idle"]
      /\ req \in [Procs -> Requests] /\ pc \in [Procs -> Pcs]
  BY DEF Output, Finish, Goto, Request, LocalInv, TypeOK
<1>4. \A e : Backed(e)' <=> Backed(e)
  BY <1>2 DEF Backed
<1>5. Given'
  BY <1>1, <1>2, <1>4 DEF RecoverInv, Given
<1>6. Unambiguous'
  BY <1>2, <1>3, IdleCarries DEF RecoverInv, Unambiguous, Distinct
<1>7. Carrying'
  <2> SUFFICES ASSUME NEW q \in Procs PROVE Carries(pc[q], req[q])'
    BY DEF Carrying
  <2>1. CASE q = p
    BY <1>2, <1>3, <1>4, <2>1, IdleCarries DEF Carries, Outgoing, Extends
  <2>2. CASE q # p
    <3>1. Carries(pc[q], req[q])
      BY DEF RecoverInv, Carrying
    <3> QED BY <1>2, <1>3, <1>4, <2>2, <3>1 DEF Carries, Outgoing, Extends
  <2> QED BY <2>1, <2>2
<1> QED BY <1>5, <1>6, <1>7 DEF RecoverInv

\* The steps of save_replacement_db before the rename and after it, and the failures.
LEMMA SaveRecover ==
    ASSUME LocalInv, RecoverInv, NEW p \in Procs,
           \/ Acquire(p) \/ Check(p) \/ WriteTemp(p) \/ FsyncTemp(p) \/ Unlock(p) \/ Fail(p)
    PROVE  RecoverInv'
<1>1. UNCHANGED <<file, survivors, losses, era, emitted>>
  BY DEF Acquire, Check, WriteTemp, FsyncTemp, Unlock, Fail, WriteFails, ChmodFails, Crash, ghosts,
     bounds
<1>2. CASE Finish(p)
  BY <1>1, <1>2, FinishRecover
<1>3. ASSUME ~Finish(p)
      PROVE  \E l : /\ Goto(p, l) /\ UNCHANGED req
                    /\ \/ pc[p] \in {"lock", "check", "write", "fsync"} /\ l \in {"check", "write", "fsync", "rename"}
                       \/ pc[p] = "unlock" /\ l = "reload"
  BY <1>3 DEF Acquire, Check, WriteTemp, FsyncTemp, Unlock, Fail, WriteFails, ChmodFails, Crash
<1>4. Carries(pc[p], req[p])
  BY DEF RecoverInv, Carrying
<1>5. ASSUME NEW l,
             \/ pc[p] \in {"lock", "check", "write", "fsync"} /\ l \in {"check", "write", "fsync", "rename"}
             \/ pc[p] = "unlock" /\ l = "reload"
      PROVE  Carries(l, req[p])
  BY <1>4, <1>5 DEF Carries
<1> QED BY <1>1, <1>2, <1>3, <1>5, KeepRecover

\* A step that discards what a path held, or keeps its tokens, keeps what is backed backed.
LEMMA BackedStays ==
    ASSUME LocalInv, LocalInv', NEW e, Backed(e), UNCHANGED losses,
           \A f \in Paths : \/ era'[f] > era[f]
                            \/ /\ era'[f] = era[f]
                               /\ file[f] \in Db => file'[f] \in Db /\ Extends(file'[f], file[f])
    PROVE  Backed(e)'
<1>1. era \in [Paths -> Nat] /\ era' \in [Paths -> Nat]
  BY DEF LocalInv, TypeOK
<1>2. era[e.path] \in Nat /\ era'[e.path] \in Nat /\ e.path \in Paths
  BY <1>1 DEF Backed
<1> QED BY <1>2 DEF Backed, Extends

LEMMA RenameRecover ==
    ASSUME "tool_copy" \notin Commands, LocalInv, GlobalInv, RecoverInv, NEW p \in Procs, Rename(p)
    PROVE  RecoverInv'
<1> DEFINE f == req[p].path
           c == req[p].cand
<1>0. LocalInv'
  BY SaveLocal
<1>1. /\ f \in Paths /\ c \in Db /\ pc[p] = "rename"
      /\ file' = [file EXCEPT ![f] = c]
      /\ survivors' = [survivors EXCEPT ![f] = @ \cup {c}]
      /\ pc' = [pc EXCEPT ![p] = "unlock"]
      /\ req'[p].path = f /\ req'[p].cand = c
      /\ \A o \in Procs \ {p} : req'[o] = req[o] /\ pc'[o] = pc[o]
      /\ file \in [Paths -> Content] /\ survivors \in [Paths -> SUBSET Content]
      /\ pc \in [Procs -> Pcs] /\ era \in [Paths -> Nat]
  BY RenameFile DEF LocalInv, TypeOK
<1>2. /\ Carries("rename", req[p]) /\ Distinct(c) /\ Fits("rename", req[p])
      /\ req[p].op # "tool_copy" /\ req[p] \in Requests
  BY <1>1 DEF RecoverInv, Carrying, Unambiguous, GlobalInv, SeenOK, LocalInv, RequestOK, TypeOK
<1>3. /\ era' = [era EXCEPT ![f] = IF req[p].op \in Discarding THEN @ + 1 ELSE @]
      /\ UNCHANGED <<emitted, losses>> /\ pc'[p] = "unlock"
  BY <1>1 DEF Rename, bounds
<1>4. ASSUME NEW g \in Paths
      PROVE  \/ era'[g] > era[g]
             \/ /\ era'[g] = era[g]
                /\ file[g] \in Db => file'[g] \in Db /\ Extends(file'[g], file[g])
  <2>1. CASE g # f
    BY <1>1, <1>3, <2>1 DEF Extends
  <2>2. CASE g = f /\ req[p].op \in Discarding
    BY <1>1, <1>3, <2>2
  <2>3. CASE g = f /\ req[p].op \notin Discarding
    <3>1. era'[g] = era[g] /\ file'[g] = c
      BY <1>1, <1>3, <2>3
    <3>2. ASSUME file[f] \in Db PROVE Extends(c, file[f])
      <4>1. CASE c = file[f]
        BY <4>1 DEF Extends
      <4>2. CASE req[p].seen = file[f]
        <5>1. req[p].expect \in Db /\ req[p].expect = file[f]
          BY <1>2, <3>2, <4>2 DEF Fits
        <5> QED BY <1>2, <2>3, <5>1 DEF Carries
      <4> QED BY <1>2, <4>1, <4>2, RenameSeen
    <3> QED BY <1>1, <2>3, <3>1, <3>2
  <2> QED BY <2>1, <2>2, <2>3
<1>5. \A e : Backed(e) => Backed(e)'
  BY <1>0, <1>3, <1>4, BackedStays
<1>6. Given'
  BY <1>3, <1>5 DEF RecoverInv, Given
<1>7. Unambiguous'
  BY <1>1, <1>2 DEF RecoverInv, Unambiguous, Distinct
<1>8. Carrying'
  <2> SUFFICES ASSUME NEW q \in Procs PROVE Carries(pc[q], req[q])'
    BY DEF Carrying
  <2>1. CASE q # p
    <3>1. Carries(pc[q], req[q])
      BY DEF RecoverInv, Carrying
    <3> QED BY <1>1, <1>3, <1>5, <2>1, <3>1 DEF Carries, Outgoing, Extends
  <2>2. CASE q = p
    <3>1. req' = [req EXCEPT ![p] = [req[p] EXCEPT !.era = era'[f]]]
      BY DEF Rename, Request
    <3>2. req'[p].name = req[p].name /\ req'[p].op = req[p].op /\ req'[p].era = era'[f]
      BY <1>2, <3>1 DEF LocalInv, TypeOK, Requests
    <3>3. req[p].name \in Names \cup {None} /\ era'[f] \in Nat
      BY <1>0, <1>1, <1>2 DEF LocalInv, TypeOK, Requests
    <3>4. ASSUME req[p].name # None PROVE Backed(Outgoing(req[p]))'
      <4>1. /\ req[p].name \in Names /\ c.tok[req[p].name] # 0
            /\ losses \in Nat /\ losses' = losses
        BY <1>2, <1>3, <3>3, <3>4 DEF Carries, LocalInv, TypeOK
      <4> QED BY <1>1, <1>3, <3>2, <3>3, <4>1 DEF Backed, Outgoing
    <3>5. req[p].op \in {"init", "force_init", "edit"} => req[p].name = None
      BY <1>2 DEF Carries
    <3> QED BY <1>3, <2>2, <3>2, <3>4, <3>5 DEF Carries
  <2> QED BY <2>1, <2>2
<1> QED BY <1>6, <1>7, <1>8 DEF RecoverInv

LEMMA PowerLossRecover ==
    ASSUME LocalInv, GlobalInv, RecoverInv, PowerLoss PROVE RecoverInv'
<1>0. LocalInv'
  BY PowerLossLocal
<1>1. \A p \in Procs : pc'[p] = "idle" /\ req'[p] = NoRequest
  BY DEF PowerLoss
<1>2. \A f \in Paths : /\ file'[f] \in survivors[f] /\ survivors'[f] = {file'[f]}
                       /\ era'[f] = era[f]
  BY DEF PowerLoss, ghosts
<1>3. losses \in Nat /\ losses' = losses + 1
  BY DEF LocalInv, TypeOK, PowerLoss
<1>4. \A e : Backed(e) => Backed(e)'
  BY <1>2, <1>3 DEF Backed
<1>5. Given'
  BY <1>4 DEF PowerLoss, RecoverInv, Given, ghosts
<1>6. Unambiguous'
  BY <1>1, <1>2, IdleCarries DEF RecoverInv, Unambiguous, Distinct
<1>7. Carrying'
  BY <1>1, IdleCarries DEF Carrying, Carries
<1> QED BY <1>5, <1>6, <1>7 DEF RecoverInv

\* A step that changes nothing but what may survive a power loss, and that no more.
LEMMA StillRecover ==
    ASSUME RecoverInv, UNCHANGED <<file, losses, era, emitted, pc, req>>,
           \A f \in Paths : survivors'[f] \subseteq survivors[f]
    PROVE  RecoverInv'
<1>1. \A e : Backed(e)' <=> Backed(e)
  BY DEF Backed
<1>2. Carrying'
  BY <1>1 DEF RecoverInv, Carrying, Carries, Outgoing, Extends
<1> QED BY <1>1, <1>2 DEF RecoverInv, Unambiguous, Distinct, Given

LEMMA StepRecover ==
    ASSUME "tool_copy" \notin Commands, LocalInv, GlobalInv, RecoverInv, [Next]_vars
    PROVE  RecoverInv'
<1>1. CASE UNCHANGED vars
  BY <1>1, StillRecover DEF vars
<1>2. ASSUME NEW f \in Paths, Writeback(f) PROVE RecoverInv'
  <2>1. \A g \in Paths : survivors'[g] \subseteq survivors[g]
    BY <1>2 DEF Writeback, GlobalInv, SurvivorsOK, LocalInv, TypeOK
  <2> QED BY <1>2, <2>1, StillRecover DEF Writeback, ghosts, bounds
<1>3. CASE PowerLoss
  BY <1>3, PowerLossRecover
<1>4. ASSUME NEW p \in Procs, Start(p) \/ Advance(p) \/ Fail(p) PROVE RecoverInv'
  BY <1>4, StartRecover, ReadRecover, OutputRecover, SaveRecover, RenameRecover DEF Advance
<1> QED BY <1>1, <1>2, <1>3, <1>4 DEF Next

LEMMA InitRecover == Init => RecoverInv
<1> SUFFICES ASSUME Init PROVE RecoverInv
  OBVIOUS
<1>1. Unambiguous
  <2>1. \A f \in Paths : file[f] \in {Absent, Corrupt, Fresh(1)} /\ survivors[f] = {file[f]}
    BY DEF Init
  <2> QED BY <2>1, FreshDistinct, IdleCarries DEF Init, Unambiguous
<1>2. Carrying
  BY IdleCarries DEF Init, Carrying
<1> QED BY <1>1, <1>2 DEF Init, RecoverInv, Given

LEMMA RecoverInvariance ==
    ASSUME "tool_copy" \notin Commands PROVE Spec => [](LocalInv /\ GlobalInv /\ RecoverInv)
<1>1. Init => LocalInv /\ GlobalInv /\ RecoverInv
  BY InitLocal, InitGlobal, InitRecover
<1>2. LocalInv /\ GlobalInv /\ RecoverInv /\ [Next]_vars => (LocalInv /\ GlobalInv /\ RecoverInv)'
  BY StepLocal, StepGlobal, StepRecover
<1> QED BY <1>1, <1>2, PTL DEF Spec

\* As long as the power stays on and nobody discards the database, every token that was
\* handed out is the token of its original, and of no other, in the file it was saved to;
\* for every command but tool_copy, which overwrites what it has not seen.
THEOREM OutputsRecoverable ==
    ASSUME "tool_copy" \notin Commands PROVE Spec => []EmittedRecoverable
<1>1. LocalInv /\ GlobalInv /\ RecoverInv => EmittedRecoverable
  <2> SUFFICES ASSUME GlobalInv, RecoverInv, NEW e \in emitted,
                      e.era = era[e.path], e.since = losses
               PROVE  Reverses(file[e.path], e)
    BY DEF EmittedRecoverable
  <2>1. Backed(e)
    BY DEF RecoverInv, Given
  <2>2. Distinct(file[e.path])
    BY <2>1, FileDistinct DEF Backed
  <2> QED BY <2>1, <2>2 DEF Backed, Distinct, Reverses
<1> QED BY <1>1, RecoverInvariance, PTL

\* A step after which a path can only hold what it could hold before, or an extension
\* of what it holds, takes no kept token away.
LEMMA KeptStays ==
    ASSUME RecoverInv, SurvivorsOK, NEW e \in emitted, Kept(e), UNCHANGED era,
           \A c \in survivors'[e.path] :
              \/ c \in survivors[e.path]
              \/ /\ c \in Db /\ Distinct(c)
                 /\ file[e.path] \in Db => Extends(c, file[e.path])
    PROVE  Kept(e)'
<1>1. e.path \in Paths /\ e.name \in Names /\ e.token # 0
  BY DEF RecoverInv, Given, Backed
<1>2. Reverses(file[e.path], e)
  BY <1>1 DEF Kept, SurvivorsOK
<1>3. ASSUME NEW c \in survivors'[e.path] PROVE Reverses(c, e)
  <2>1. CASE c \in survivors[e.path]
    BY <2>1 DEF Kept
  <2>2. CASE c \in Db /\ Distinct(c) /\ Extends(c, file[e.path])
    <3>1. c.tok[e.name] = e.token
      BY <1>1, <1>2, <2>2 DEF Reverses, Extends
    <3> QED BY <1>1, <2>2, <3>1 DEF Reverses, Distinct
  <2> QED BY <1>2, <1>3, <2>1, <2>2 DEF Reverses
<1> QED BY <1>3 DEF Kept, Reverses

\* A token that no loss of power can take back stays so until somebody discards the
\* database; for every command but tool_copy.
THEOREM TokensKept ==
    ASSUME "tool_copy" \notin Commands PROVE Spec => KeptForGood
<1> DEFINE Keeps == \A e \in emitted : Kept(e) /\ era'[e.path] = era[e.path] => Kept(e)'
<1>1. LocalInv /\ GlobalInv /\ RecoverInv /\ [Next]_vars => [Keeps]_vars
  <2> SUFFICES ASSUME LocalInv, GlobalInv, RecoverInv, [Next]_vars,
                      NEW e \in emitted, Kept(e), era'[e.path] = era[e.path]
               PROVE  Kept(e)'
    OBVIOUS
  <2>1. /\ SurvivorsOK /\ survivors \in [Paths -> SUBSET Content] /\ e.path \in Paths
        /\ file \in [Paths -> Content] /\ era \in [Paths -> Nat]
    BY DEF GlobalInv, LocalInv, TypeOK, RecoverInv, Given, Backed
  <2> DEFINE Stays == \A c \in survivors'[e.path] :
                         \/ c \in survivors[e.path]
                         \/ /\ c \in Db /\ Distinct(c)
                            /\ file[e.path] \in Db => Extends(c, file[e.path])
  <2>2. CASE PowerLoss
    <3>1. UNCHANGED era /\ Stays
      BY <2>1, <2>2 DEF PowerLoss, ghosts
    <3> QED BY <2>1, <3>1, KeptStays
  <2>3. ASSUME NEW p \in Procs, Rename(p) PROVE Kept(e)'
    <3>1. /\ req[p].cand \in Db /\ Distinct(req[p].cand) /\ req[p].path \in Paths
          /\ req[p].op # "tool_copy" /\ pc[p] = "rename"
          /\ Fits("rename", req[p]) /\ Carries("rename", req[p])
          /\ survivors' = [survivors EXCEPT ![req[p].path] = @ \cup {req[p].cand}]
          /\ era' = [era EXCEPT ![req[p].path] = IF req[p].op \in Discarding THEN @ + 1 ELSE @]
      BY <2>3, RenameFile DEF RecoverInv, Unambiguous, Carrying, GlobalInv, SeenOK, LocalInv,
         RequestOK, Rename
    <3>2. CASE req[p].op \in Discarding
      <4>1. e.path # req[p].path
        BY <2>1, <3>1, <3>2
      <4> QED BY <2>1, <3>1, <4>1 DEF Kept, Reverses
    <3>3. CASE req[p].op \notin Discarding
      <4>1. UNCHANGED era
        BY <2>1, <3>1, <3>3
      <4>2. ASSUME file[req[p].path] \in Db PROVE Extends(req[p].cand, file[req[p].path])
        <5>1. CASE req[p].cand = file[req[p].path]
          BY <5>1 DEF Extends
        <5>2. CASE req[p].seen = file[req[p].path]
          <6>1. req[p].expect \in Db /\ req[p].expect = file[req[p].path]
            BY <3>1, <4>2, <5>2 DEF Fits
          <6> QED BY <3>1, <3>3, <6>1 DEF Carries
        <5> QED BY <2>3, <3>1, <5>1, <5>2, RenameSeen
      <4>3. Stays
        BY <2>1, <3>1, <4>2
      <4> QED BY <2>1, <4>1, <4>3, KeptStays
    <3> QED BY <3>2, <3>3
  <2>4. ASSUME NEW f \in Paths, Writeback(f) PROVE Kept(e)'
    <3>1. UNCHANGED era /\ Stays
      BY <2>1, <2>4 DEF Writeback, ghosts, SurvivorsOK
    <3> QED BY <2>1, <3>1, KeptStays
  <2>5. CASE UNCHANGED survivors
    BY <2>1, <2>5 DEF Kept, Reverses
  <2> QED BY <2>2, <2>3, <2>4, <2>5, FileSteps, LossSteps
<1> QED BY <1>1, RecoverInvariance, PTL DEF Spec, KeptForGood

-----------------------------------------------------------------------------
(* Refinement of VersionedStore                                            *)

\* What a client with request r has observed, as the abstract store sees it.
Seen(r) == IF r.seen = None THEN None ELSE [key |-> r.path, value |-> r.seen]

SeenBar == [p \in Procs |-> Seen(req[p])]

LEMMA InitStore == Init => Store!Init
<1> SUFFICES ASSUME Init PROVE Store!Init
  OBVIOUS
<1>1. file \in [Paths -> {v \in Db : v.version = 1} \cup {Absent, Corrupt}]
  BY FreshType, FreshVersion DEF Init
<1>2. \A p \in Procs : req[p].seen = None
  BY DEF Init, NoRequest
<1> QED BY <1>1, <1>2 DEF Store!Init

\* A step that changes only the request of p observes, forgets or stutters.
LEMMA RequestStore ==
    ASSUME LocalInv, NEW p \in Procs, UNCHANGED file, NEW r,
           req' = [req EXCEPT ![p] = r],
           \/ r.seen = None
           \/ r.path \in Paths /\ r.seen = file[r.path]
           \/ r.seen = req[p].seen /\ r.path = req[p].path
    PROVE  [Store!Next]_(Store!storeVars)
<1>1. SeenBar' = [SeenBar EXCEPT ![p] = Seen(r)]
  BY DEF SeenBar, Seen, LocalInv, TypeOK
<1>2. CASE r.seen = None
  <2>1. Store!Forget(p)
    BY <1>1, <1>2 DEF Store!Forget, SeenBar, Seen
  <2> QED BY <2>1 DEF Store!Next
<1>3. CASE r.path \in Paths /\ r.seen = file[r.path] /\ r.seen # None
  <2>1. Store!Observe(p)
    BY <1>1, <1>3 DEF Store!Observe, SeenBar, Seen
  <2> QED BY <2>1 DEF Store!Next
<1>4. CASE r.seen = req[p].seen /\ r.path = req[p].path
  <2>1. SeenBar' = SeenBar
    BY <1>1, <1>4 DEF SeenBar, Seen
  <2> QED BY <2>1 DEF Store!storeVars, SeenBar, Seen
<1> QED BY <1>2, <1>3, <1>4

\* A rename replaces what was observed, or changes nothing.
LEMMA RenameStore ==
    ASSUME LocalInv, GlobalInv, NEW p \in Procs, Rename(p), req[p].op # "tool_copy"
    PROVE  [Store!Next]_(Store!storeVars)
<1> DEFINE f == req[p].path
           c == req[p].cand
<1>1. /\ f \in Paths /\ c \in Db
      /\ file' = [file EXCEPT ![f] = c]
      /\ SaveAccepted(file[f], req[p])
      /\ req'[p].path = f /\ req'[p].seen = req[p].seen
      /\ \A o \in Procs \ {p} : req'[o] = req[o]
      /\ file \in [Paths -> Content]
  BY RenameFile DEF LocalInv, TypeOK
<1>2. SeenBar' = SeenBar
  BY <1>1 DEF SeenBar, Seen
<1>3. CASE c = file[f]
  <2>1. file' = file
    BY <1>1, <1>3
  <2> QED BY <1>2, <2>1 DEF Store!storeVars, SeenBar, Seen
<1>4. CASE req[p].seen = file[f] /\ c # file[f]
  <2>1. file[f] # None
    BY <1>1 DEF Content
  <2>2. SeenBar[p] = [key |-> f, value |-> file[f]]
    BY <1>4, <2>1 DEF SeenBar, Seen
  <2>3. Store!Follows(file[f], file'[f])
    BY <1>1, <1>4 DEF Store!Follows, SaveAccepted
  <2>4. file' = [file EXCEPT ![f] = file'[f]]
    BY <1>1
  <2>5. Store!Replace(p)
    BY <1>1, <1>2, <2>2, <2>3, <2>4 DEF Store!Replace, SeenBar, Seen
  <2> QED BY <2>5 DEF Store!Next
<1> QED BY <1>3, <1>4, RenameSeen

LEMMA PowerLossStore ==
    ASSUME LocalInv, GlobalInv, PowerLoss PROVE [Store!Next]_(Store!storeVars)
<1>1. \A p \in Procs : Seen(req'[p]) = None
  BY DEF PowerLoss, Seen, NoRequest
<1>2. SeenBar' = [p \in Procs |-> None]
  BY <1>1 DEF SeenBar, Seen
<1>3. file' = [f \in Paths |-> file'[f]]
  BY DEF PowerLoss
<1>4. \A f \in Paths : Older(file'[f], file[f])
  BY DEF PowerLoss, GlobalInv, SurvivorsOK
<1>5. Store!PowerFails
  BY <1>2, <1>3, <1>4 DEF Store!PowerFails, Older, SeenBar, Seen
<1> QED BY <1>5 DEF Store!Next

\* A step that keeps the file and every request is invisible in the store.
LEMMA StutterStore ==
    ASSUME UNCHANGED <<file, req>> PROVE [Store!Next]_(Store!storeVars)
BY DEF Store!storeVars

LEMMA FinishStore ==
    ASSUME LocalInv, NEW p \in Procs, UNCHANGED file, Finish(p)
    PROVE  [Store!Next]_(Store!storeVars)
<1>1. NoRequest.seen = None
  BY DEF NoRequest
<1> QED BY <1>1, RequestStore DEF Finish, Request

LEMMA DecideStore ==
    ASSUME LocalInv, NEW p \in Procs, UNCHANGED file,
           NEW s, NEW x, NEW c, Decide(p, s, x, c), req[p].path \in Paths,
           s \in {file[req[p].path], req[p].seen}
    PROVE  [Store!Next]_(Store!storeVars)
<1> DEFINE q == [req[p] EXCEPT !.seen = s, !.expect = x, !.cand = c]
<1>1. q.seen = s /\ q.path = req[p].path
  BY DEF LocalInv, TypeOK, Requests
<1>2. req' = [req EXCEPT ![p] = q]
  BY DEF Decide, Request
<1> HIDE DEF q
<1> QED BY <1>1, <1>2, RequestStore

LEMMA AnswerStore ==
    ASSUME LocalInv, NEW p \in Procs, UNCHANGED file, NEW f, NEW c, Answer(p, f, c)
    PROVE  [Store!Next]_(Store!storeVars)
<1> DEFINE q == [req[p] EXCEPT !.path = f, !.cand = c, !.seen = None, !.expect = None,
                               !.era = era[f]]
<1>1. q.seen = None
  BY DEF LocalInv, TypeOK, Requests
<1>2. req' = [req EXCEPT ![p] = q]
  BY DEF Answer, Request
<1> HIDE DEF q
<1> QED BY <1>1, <1>2, RequestStore

LEMMA StartStore ==
    ASSUME LocalInv, NEW p \in Procs, Start(p) PROVE [Store!Next]_(Store!storeVars)
<1>1. ASSUME NEW l, NEW r, Begin(p, l, r),
             r.seen = None \/ (r.path \in Paths /\ r.seen = file[r.path])
      PROVE  [Store!Next]_(Store!storeVars)
  BY <1>1, RequestStore DEF Begin, Request, disk
<1>2. CASE BeginInit(p)
  <2>1. PICK f \in Paths, op \in {"init", "force_init"} :
           Begin(p, "probe", [NoRequest EXCEPT !.op = op, !.path = f, !.source = f])
    BY <1>2 DEF BeginInit
  <2>2. [NoRequest EXCEPT !.op = op, !.path = f, !.source = f].seen = None
    BY DEF NoRequest
  <2> QED BY <1>1, <2>1, <2>2
<1>3. CASE BeginEdit(p)
  <2>1. PICK f \in Paths :
           Begin(p, "load", [NoRequest EXCEPT !.op = "edit", !.path = f,
                                              !.source = f, !.save = TRUE])
    BY <1>3 DEF BeginEdit
  <2>2. [NoRequest EXCEPT !.op = "edit", !.path = f, !.source = f, !.save = TRUE].seen = None
    BY DEF NoRequest
  <2> QED BY <1>1, <2>1, <2>2
<1>4. CASE BeginAnonymize(p)
  <2>1. PICK f \in Paths, n \in Names, s \in BOOLEAN :
           Begin(p, "load", [NoRequest EXCEPT !.op = "anonymize", !.path = f,
                                              !.source = f, !.name = n, !.save = s])
    BY <1>4 DEF BeginAnonymize
  <2>2. [NoRequest EXCEPT !.op = "anonymize", !.path = f, !.source = f,
                          !.name = n, !.save = s].seen = None
    BY DEF NoRequest
  <2> QED BY <1>1, <2>1, <2>2
<1>5. CASE BeginToolCopy(p)
  <2>1. PICK f \in Paths, g \in Paths, n \in Names \cup {None} :
           Begin(p, "load", [NoRequest EXCEPT !.op = "tool_copy", !.path = g,
                                !.source = f, !.name = n, !.save = TRUE])
    BY <1>5 DEF BeginToolCopy
  <2>2. [NoRequest EXCEPT !.op = "tool_copy", !.path = g, !.source = f,
                          !.name = n, !.save = TRUE].seen = None
    BY DEF NoRequest
  <2> QED BY <1>1, <2>1, <2>2
<1>6. CASE BeginToolCopyOver(p)
  <2>1. PICK f \in Paths, g \in Paths, n \in Names \cup {None} :
           Begin(p, "load", [NoRequest EXCEPT !.op = "tool_copy_over", !.path = g,
                                  !.source = f, !.name = n, !.save = TRUE,
                                  !.seen = file[g], !.expect = file[g]])
    BY <1>6 DEF BeginToolCopyOver
  <2> DEFINE r == [NoRequest EXCEPT !.op = "tool_copy_over", !.path = g, !.source = f,
                       !.name = n, !.save = TRUE, !.seen = file[g], !.expect = file[g]]
  <2>2. r.seen = file[g] /\ r.path = g
    BY DEF NoRequest
  <2> HIDE DEF r
  <2> QED BY <1>1, <2>1, <2>2 DEF r
<1>7. CASE BeginToolSave(p)
  <2>1. PICK f \in Paths, db \in Db :
           Begin(p, "probe", [NoRequest EXCEPT !.op = "tool_save", !.path = f, !.cand = db])
    BY <1>7 DEF BeginToolSave
  <2>2. [NoRequest EXCEPT !.op = "tool_save", !.path = f, !.cand = db].seen = None
    BY DEF NoRequest
  <2> QED BY <1>1, <2>1, <2>2
<1>8. CASE BeginToolSaveOver(p)
  <2>1. PICK f \in Paths, e \in Edits :
           Begin(p, "lock", [NoRequest EXCEPT !.op = "tool_save_over", !.path = f,
                                  !.seen = file[f], !.expect = file[f],
                                  !.cand = Edit(file[f], e)])
    BY <1>8 DEF BeginToolSaveOver
  <2> DEFINE r == [NoRequest EXCEPT !.op = "tool_save_over", !.path = f, !.seen = file[f],
                                    !.expect = file[f], !.cand = Edit(file[f], e)]
  <2>2. r.seen = file[f] /\ r.path = f
    BY DEF NoRequest
  <2> HIDE DEF r
  <2> QED BY <1>1, <2>1, <2>2 DEF r
<1> QED BY <1>2, <1>3, <1>4, <1>5, <1>6, <1>7, <1>8 DEF Start

LEMMA ReadStore ==
    ASSUME LocalInv, NEW p \in Procs,
           \/ InitProbe(p) \/ InitLoad(p) \/ EditLoad(p) \/ AnonymizeLoad(p)
           \/ CopyLoad(p) \/ ToolProbe(p) \/ Reload(p) \/ Output(p)
    PROVE  [Store!Next]_(Store!storeVars)
<1>1. UNCHANGED file
  BY DEF InitProbe, InitLoad, EditLoad, AnonymizeLoad, CopyLoad, ToolProbe, Reload, Output, disk
<1>2. /\ pc[p] # "idle" => req[p].path \in Paths
      /\ req[p] \in Requests
  BY DEF LocalInv, TypeOK, RequestOK
<1>3. CASE Finish(p) \/ UNCHANGED req
  BY <1>1, <1>3, FinishStore, StutterStore
<1>4. CASE InitProbe(p)
  BY <1>1, <1>2, <1>3, <1>4, DecideStore DEF InitProbe
<1>5. CASE InitLoad(p)
  BY <1>1, <1>2, <1>5, DecideStore DEF InitLoad
<1>6. CASE EditLoad(p) /\ ~Finish(p)
  <2>1. /\ \E e \in Edits : Decide(p, file[req[p].path], file[req[p].path],
                                   Edit(file[req[p].path], e))
        /\ req[p].path \in Paths
    BY <1>2, <1>6 DEF EditLoad
  <2> QED BY <1>1, <2>1, DecideStore
<1>7. CASE AnonymizeLoad(p) /\ ~Finish(p)
  <2>1. CASE Answer(p, req[p].source, file[req[p].source])
    BY <1>1, <2>1, AnswerStore
  <2>2. CASE Decide(p, file[req[p].source], file[req[p].source],
                    Assign(file[req[p].source], req[p].name))
    <3>1. req[p].source = req[p].path /\ req[p].path \in Paths
      BY <1>2, <1>7 DEF AnonymizeLoad, LocalInv, RequestOK
    <3> QED BY <1>1, <2>2, <3>1, DecideStore
  <2> QED BY <1>7, <2>1, <2>2 DEF AnonymizeLoad
<1>8. CASE CopyLoad(p) /\ ~Finish(p)
  <2>1. req[p].path \in Paths
    BY <1>2, <1>8 DEF CopyLoad
  <2>2. ASSUME NEW c, Decide(p, req[p].seen, req[p].expect, c)
        PROVE  [Store!Next]_(Store!storeVars)
    BY <1>1, <2>1, <2>2, DecideStore
  <2>3. CASE Answer(p, req[p].source, file[req[p].source])
    BY <1>1, <2>3, AnswerStore
  <2> QED BY <1>8, <2>2, <2>3 DEF CopyLoad
<1>9. CASE ToolProbe(p) /\ ~Finish(p)
  <2> DEFINE m == (req[p].op = "tool_save")
             q == [req[p] EXCEPT !.seen = Absent, !.missing = m]
  <2>1. q.seen = Absent /\ q.path = req[p].path
    BY <1>2 DEF Requests
  <2>2. req' = [req EXCEPT ![p] = q] /\ req[p].path \in Paths /\ file[req[p].path] = Absent
    BY <1>2, <1>9 DEF ToolProbe, Request
  <2> HIDE DEF q
  <2> QED BY <1>1, <2>1, <2>2, RequestStore
<1> QED BY <1>3, <1>4, <1>5, <1>6, <1>7, <1>8, <1>9 DEF Reload, Output

LEMMA SaveStore ==
    ASSUME LocalInv, NEW p \in Procs,
           \/ Acquire(p) \/ Check(p) \/ WriteTemp(p) \/ FsyncTemp(p) \/ Unlock(p) \/ Fail(p)
    PROVE  [Store!Next]_(Store!storeVars)
<1>1. UNCHANGED file /\ (UNCHANGED req \/ Finish(p))
  BY DEF Acquire, Check, WriteTemp, FsyncTemp, Unlock, Fail, WriteFails, ChmodFails, Crash
<1> QED BY <1>1, FinishStore, StutterStore

\* The files, their locks and their temporary files implement registers with
\* optimistic concurrency control, for every command but tool_copy.
THEOREM RefinesStore ==
    ASSUME "tool_copy" \notin Commands PROVE Spec => ImplementsStore
<1>1. LocalInv /\ GlobalInv /\ [Next]_vars => [Store!Next]_(Store!storeVars)
  <2> SUFFICES ASSUME LocalInv, GlobalInv, [Next]_vars PROVE [Store!Next]_(Store!storeVars)
    OBVIOUS
  <2>1. CASE UNCHANGED vars \/ \E f \in Paths : Writeback(f)
    BY <2>1, StutterStore DEF vars, Writeback
  <2>2. CASE PowerLoss
    BY <2>2, PowerLossStore
  <2>3. ASSUME NEW p \in Procs, Rename(p) PROVE [Store!Next]_(Store!storeVars)
    <3>1. req[p].op # "tool_copy"
      BY <2>3 DEF Rename, LocalInv, RequestOK
    <3> QED BY <2>3, <3>1, RenameStore
  <2>4. ASSUME NEW p \in Procs, Start(p) \/ Advance(p) \/ Fail(p)
        PROVE  [Store!Next]_(Store!storeVars)
    BY <2>3, <2>4, StartStore, ReadStore, SaveStore DEF Advance
  <2> QED BY <2>1, <2>2, <2>4 DEF Next
<1>2. ImplementsStore <=> Store!Init /\ [][Store!Next]_(Store!storeVars)
  BY DEF ImplementsStore, Store!Spec
<1> QED BY <1>1, <1>2, InitStore, GlobalInvariance, PTL DEF Spec
=============================================================================
