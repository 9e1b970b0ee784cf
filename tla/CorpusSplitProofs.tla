-------------------------- MODULE CorpusSplitProofs --------------------------
(* No published role gives another one away, nor does an earlier one hold what is from the future of
   a later one, and no row is lost, for every corpus, band and bound. *)
EXTENDS CorpusSplit, FiniteSetTheorems, TLAPS

IsFile(records) == records \in Seq(Range(records))

\* Signatures are made of bits, so that their bands can be counted.
IsClean(records) == \A r \in Range(records) : Features(r.payload).signatures \subseteq SUBSET Bits

Types ==
    /\ corpus \in Corpora
    /\ pass \in {"build", "replay"}
    /\ family \in 0..5
    /\ IsFiniteSet(BagToSet(spool))
    /\ IsFile(prepared) /\ IsFile(file) /\ IsFile(bound) /\ IsFile(nodes)
    /\ IsClean(prepared) /\ IsClean(bound)
    /\ \A role \in Range(Roles) : files[role] \in Seq(Range(bound))
    /\ phase \in {"read", "written", "prepared"} =>
          \A role \in Range(Roles) : files[role] = <<>>
    /\ phase \in {"read", "written", "prepared", "bound"} => pass = "build"

\* The runs that are done are within a group.
RunsJoined ==
    \A i \in 1..5 : \A run \in Runs(Families[i]) :
        i < family \/ (i = family /\ run \notin pending) => \A n, m \in run : group[n] = group[m]

\* A role is a group's.
GroupsWhole == \A n, m \in Nodes : group[n] = group[m] => roles[n] = roles[m]

Spooled(records) ==
    [n \in DOMAIN records |-> [id |-> records[n].id, occurrences |-> records[n].occurrences,
                               content |-> Features(records[n].payload)]]

Assigned == phase \in {"assigned", "verified", "published"}

Inv ==
    /\ Types
    /\ RunsJoined
    /\ Assigned => family = 5 /\ pending = {} /\ GroupsWhole
    /\ pass = "replay" /\ (phase = "link" \/ Assigned) => nodes = Spooled(Staged)
    /\ phase \in {"verified", "published"} =>
          pass = "replay" /\ \A n \in Nodes : roles[n] = Observed(n)

-----------------------------------------------------------------------------
(* Orders of finite sets *)

\* A total order, given by who comes before whom.
IsOrder(S, before) ==
    /\ \A x \in S : before[x] \in SUBSET S /\ x \notin before[x]
    /\ \A x, y, z \in S : x \in before[y] /\ y \in before[z] => x \in before[z]
    /\ \A x, y \in S : x = y \/ x \in before[y] \/ y \in before[x]

\* How many come before an element.
Rank(S, before) == [x \in S |-> Cardinality(before[x])]

\* Ranks grow along the order and run without a gap.
RunsAlong(S, before, rank) ==
    /\ \A x \in S : rank[x] \in 0..Cardinality(S) - 1
    /\ \A x, y \in S : x \in before[y] => rank[x] < rank[y]
    /\ \A i \in 0..Cardinality(S) - 1 : \E x \in S : rank[x] = i

LEMMA RanksRun ==
    ASSUME NEW S, NEW before, IsFiniteSet(S), IsOrder(S, before)
    PROVE  RunsAlong(S, before, Rank(S, before))
  <1> DEFINE N == Cardinality(S)
             rank == Rank(S, before)
  <1> USE DEF Rank
  <1>1. N \in Nat
    BY FS_CardinalityType
  <1>2. \A x \in S : IsFiniteSet(before[x]) /\ Cardinality(before[x]) \in Nat
    BY FS_Subset, FS_CardinalityType DEF IsOrder
  <1>3. \A x \in S : rank[x] \in 0..N - 1
    <2> SUFFICES ASSUME NEW x \in S PROVE Cardinality(before[x]) \in 0..N - 1
      OBVIOUS
    <2>1. before[x] \in SUBSET S /\ x \notin before[x]
      BY DEF IsOrder
    <2>2. Cardinality(before[x]) <= N /\ Cardinality(before[x]) # N
      BY <2>1, FS_Subset
    <2> HIDE DEF N
    <2> QED
      BY <1>1, <1>2, <2>2
  <1>4. \A x, y \in S : x \in before[y] => rank[x] < rank[y]
    <2> SUFFICES ASSUME NEW x \in S, NEW y \in S, x \in before[y]
                 PROVE  Cardinality(before[x]) < Cardinality(before[y])
      OBVIOUS
    <2>1. before[x] \in SUBSET before[y] /\ x \in before[y] /\ x \notin before[x]
      BY DEF IsOrder
    <2>2. Cardinality(before[x]) <= Cardinality(before[y]) /\ Cardinality(before[x]) # Cardinality(before[y])
      BY <1>2, <2>1, FS_Subset
    <2> QED
      BY <1>2, <2>2
  <1>5. rank \in Injection(S, 0..N - 1)
    <2>1. rank \in [S -> 0..N - 1]
      BY <1>3
    <2>2. \A x, y \in S : rank[x] = rank[y] => x = y
      <3> SUFFICES ASSUME NEW x \in S, NEW y \in S, x # y PROVE rank[x] # rank[y]
        OBVIOUS
      <3>1. rank[x] < rank[y] \/ rank[y] < rank[x]
        BY <1>4 DEF IsOrder
      <3>2. rank[x] \in Int /\ rank[y] \in Int
        BY <1>3
      <3> HIDE DEF Rank, rank
      <3> QED
        BY <3>1, <3>2
    <2> HIDE DEF Rank, rank
    <2> QED
      BY <2>1, <2>2 DEF Injection, IsInjective
  <1>6. IsFiniteSet(0..N - 1) /\ Cardinality(0..N - 1) = N
    <2> HIDE DEF N
    <2> QED
      BY <1>1, FS_Interval
  <1>7. rank \in Surjection(S, 0..N - 1)
    <2> HIDE DEF Rank, rank
    <2> QED
      BY <1>5, <1>6, FS_Injection
  <1>8. \A i \in 0..N - 1 : \E x \in S : rank[x] = i
    <2> HIDE DEF Rank, rank
    <2> QED
      BY <1>7 DEF Surjection
  <1> HIDE DEF Rank, rank
  <1>9. RunsAlong(S, before, rank)
    BY <1>1, <1>3, <1>4, <1>8 DEF RunsAlong
  <1> QED
    BY <1>9 DEF rank

\* A finite set that is not empty has a first and a last element.
LEMMA Extremes ==
    ASSUME NEW S, NEW before, IsFiniteSet(S), IsOrder(S, before), S # {}
    PROVE  /\ \E x \in S : \A y \in S : y = x \/ x \in before[y]
           /\ \E x \in S : \A y \in S : y = x \/ y \in before[x]
  <1> DEFINE N == Cardinality(S)
             rank == Rank(S, before)
  <1>1. /\ N \in Nat /\ \A x \in S : rank[x] \in 0..N - 1
        /\ \A x, y \in S : x \in before[y] => rank[x] < rank[y]
        /\ \A i \in 0..N - 1 : \E x \in S : rank[x] = i
    <2>1. RunsAlong(S, before, rank)
      BY RanksRun
    <2> HIDE DEF rank
    <2> QED
      BY <2>1, FS_CardinalityType DEF RunsAlong
  <1>2. N # 0
    BY FS_EmptySet
  <1> HIDE DEF N, rank
  <1>3. PICK x \in S, z \in S : rank[x] = 0 /\ rank[z] = N - 1
    BY <1>1, <1>2
  <1>4. \A y \in S : y \notin before[x] /\ z \notin before[y]
    BY <1>1, <1>3
  <1> QED
    BY <1>3, <1>4 DEF IsOrder

\* Numbers are ordered by their value.
LEMMA NumbersOrdered ==
    ASSUME NEW S \in SUBSET Int
    PROVE  LET before == [n \in S |-> {m \in S : m < n}]
           IN /\ \A n, m \in S : n \in before[m] <=> n < m
              /\ IsOrder(S, before)
  <1> DEFINE before == [n \in S |-> {m \in S : m < n}]
  <1>1. \A n, m \in S : before[n] \in SUBSET S /\ (n \in before[m] <=> n < m)
    OBVIOUS
  <1> HIDE DEF before
  <1>2. IsOrder(S, before)
    BY <1>1 DEF IsOrder
  <1> QED
    BY <1>1, <1>2 DEF before

LEMMA MaxOf ==
    ASSUME NEW S \in SUBSET Int, IsFiniteSet(S), S # {}
    PROVE  Max(S) \in S /\ \A n \in S : n <= Max(S)
  <1> DEFINE before == [n \in S |-> {m \in S : m < n}]
  <1>1. IsOrder(S, before) /\ \A n, m \in S : n \in before[m] <=> n < m
    BY NumbersOrdered
  <1> HIDE DEF before
  <1>2. PICK x \in S : \A y \in S : y = x \/ y \in before[x]
    BY <1>1, Extremes DEF IsOrder
  <1>3. \A y \in S : x >= y
    BY <1>1, <1>2
  <1>4. Max(S) \in S /\ \A y \in S : Max(S) >= y
    BY <1>3 DEF Max
  <1> QED
    BY <1>4

LEMMA MinOf ==
    ASSUME NEW S \in SUBSET Int, IsFiniteSet(S), S # {}
    PROVE  Min(S) \in S
  <1> DEFINE before == [n \in S |-> {m \in S : m < n}]
  <1>1. IsOrder(S, before) /\ \A n, m \in S : n \in before[m] <=> n < m
    BY NumbersOrdered
  <1> HIDE DEF before
  <1>2. PICK x \in S : \A y \in S : y = x \/ x \in before[y]
    BY <1>1, Extremes DEF IsOrder
  <1>3. \A y \in S : x =< y
    BY <1>1, <1>2
  <1> QED
    BY <1>3 DEF Min

\* The elements are numbered by how many come before them.
IsNumbering(S, number) ==
    /\ \A x \in S : number[x] \in 1..Cardinality(S)
    /\ \A x, y \in S : number[x] = number[y] => x = y
    /\ \A i \in 1..Cardinality(S) : \E x \in S : number[x] = i

LEMMA Numbered ==
    ASSUME NEW S, NEW before, NEW number, IsFiniteSet(S), IsOrder(S, before),
           \A x \in S : number[x] = Cardinality(before[x] \cup {x})
    PROVE  IsNumbering(S, number)
  <1> DEFINE N == Cardinality(S)
             rank == Rank(S, before)
  <1>1. /\ N \in Nat /\ \A x \in S : rank[x] \in 0..N - 1
        /\ \A x, y \in S : x \in before[y] => rank[x] < rank[y]
        /\ \A i \in 0..N - 1 : \E x \in S : rank[x] = i
    <2>1. RunsAlong(S, before, rank)
      BY RanksRun
    <2> HIDE DEF rank
    <2> QED
      BY <2>1, FS_CardinalityType DEF RunsAlong
  <1>2. \A x \in S : number[x] = rank[x] + 1
    <2> SUFFICES ASSUME NEW x \in S PROVE number[x] = rank[x] + 1
      OBVIOUS
    <2>1. rank[x] = Cardinality(before[x])
      BY DEF Rank
    <2>2. before[x] \in SUBSET S /\ x \notin before[x]
      BY DEF IsOrder
    <2>3. IsFiniteSet(before[x])
      BY <2>2, FS_Subset
    <2>4. Cardinality(before[x] \cup {x}) = Cardinality(before[x]) + 1
      BY <2>2, <2>3, FS_AddElement
    <2> QED
      BY <2>1, <2>4
  <1> HIDE DEF N, rank
  <1>3. \A x \in S : number[x] \in 1..N
    BY <1>1, <1>2
  <1>4. \A x, y \in S : number[x] = number[y] => x = y
    <2> SUFFICES ASSUME NEW x \in S, NEW y \in S, number[x] = number[y] PROVE x = y
      OBVIOUS
    <2>1. rank[x] = rank[y]
      BY <1>1, <1>2
    <2>2. x \notin before[y] /\ y \notin before[x]
      BY <1>1, <2>1
    <2> QED
      BY <2>2 DEF IsOrder
  <1>5. \A i \in 1..N : \E x \in S : number[x] = i
    <2> SUFFICES ASSUME NEW i \in 1..N PROVE \E x \in S : number[x] = i
      OBVIOUS
    <2>1. i - 1 \in 0..N - 1
      BY <1>1
    <2>2. PICK x \in S : rank[x] = i - 1
      BY <1>1, <2>1
    <2> QED
      BY <1>1, <1>2, <2>2
  <1> QED
    BY <1>3, <1>4, <1>5 DEF N, IsNumbering

\* Numbers in increasing order.
LEMMA AscendingRange ==
    ASSUME NEW S \in SUBSET Nat, IsFiniteSet(S)
    PROVE  /\ Cardinality(S) \in Nat
           /\ \A i \in 1..Cardinality(S) : Ascending(S)[i] \in S
           /\ \A n \in S : \E i \in 1..Cardinality(S) : Ascending(S)[i] = n
  <1> DEFINE before == [n \in S |-> {m \in S : m < n}]
             number == [n \in S |-> Cardinality({m \in S : m <= n})]
             N == Cardinality(S)
  <1>1. IsOrder(S, before)
    BY NumbersOrdered
  <1>2. \A n \in S : number[n] = Cardinality(before[n] \cup {n})
    <2> SUFFICES ASSUME NEW n \in S PROVE {m \in S : m <= n} = before[n] \cup {n}
      OBVIOUS
    <2>1. \A m \in S : m <= n <=> (m < n \/ m = n)
      OBVIOUS
    <2> QED
      BY <2>1
  <1>3. \A i \in 1..N : Ascending(S)[i] = CHOOSE n \in S : number[n] = i
    BY DEF Ascending
  <1> HIDE DEF before, number
  <1>4. IsNumbering(S, number)
    BY <1>1, <1>2, Numbered
  <1>5. N \in Nat
    BY FS_CardinalityType
  <1>6. \A i \in 1..N : Ascending(S)[i] \in S /\ number[Ascending(S)[i]] = i
    BY <1>3, <1>4 DEF IsNumbering
  <1>7. \A n \in S : \E i \in 1..N : Ascending(S)[i] = n
    BY <1>4, <1>6 DEF IsNumbering
  <1> QED
    BY <1>5, <1>6, <1>7

-----------------------------------------------------------------------------
(* Links are found *)

\* Signatures that differ in few bits agree on two bands: what the comment at 889-891 claims.
LEMMA BandsAgree ==
    ASSUME NEW s \in SUBSET Bits, NEW t \in SUBSET Bits, NEW near \in Nat,
           near + 2 <= Cardinality(Bands), Distance(s, t) <= near
    PROVE  \E pair \in Pairs : Part(s, pair) = Part(t, pair)
  <1> DEFINE differing == (s \ t) \cup (t \ s)
             band == [b \in differing |-> BandOf[b]]
             touched == {BandOf[b] : b \in differing}
             same == Bands \ touched
  <1>1. IsFiniteSet(differing) /\ differing \subseteq Bits
    BY BandsAssumption, FS_Subset
  <1>2. touched \subseteq Bands
    BY BandsAssumption, <1>1
  <1>3. band \in Surjection(differing, touched)
    BY DEF Surjection
  <1>4. IsFiniteSet(touched) /\ Cardinality(touched) <= Cardinality(differing)
    <2> HIDE DEF band, differing, touched
    <2> QED
      BY <1>1, <1>3, FS_Surjection
  <1>5. Cardinality(differing) = Distance(s, t)
    BY DEF Distance
  <1>6. /\ IsFiniteSet(same)
        /\ Cardinality(same) = Cardinality(Bands) - Cardinality(touched)
    <2>1. Bands \cap touched = touched
      BY <1>2
    <2>2. IsFiniteSet(Bands)
      BY BandsAssumption
    <2> HIDE DEF touched
    <2> QED
      BY <2>1, <2>2, FS_Difference
  <1>7. Cardinality(same) >= 2
    <2>1. Cardinality(differing) \in Nat /\ Cardinality(touched) \in Nat /\ Cardinality(Bands) \in Nat
      BY <1>1, <1>4, BandsAssumption, FS_CardinalityType
    <2> HIDE DEF differing, touched, same
    <2> QED
      BY <1>4, <1>5, <1>6, <2>1
  <1>8. PICK a \in same, b \in same : a # b
    <2>1. same # {}
      BY <1>6, <1>7, FS_EmptySet
    <2>2. PICK a \in same : TRUE
      BY <2>1
    <2>3. Cardinality({a}) = 1
      BY FS_Singleton
    <2>4. same # {a}
      <3> SUFFICES ASSUME same = {a} PROVE FALSE
        OBVIOUS
      <3>1. Cardinality(same) = 1
        BY <2>3
      <3> HIDE DEF same
      <3> QED
        BY <1>7, <3>1
    <2> QED
      BY <2>2, <2>4
  <1>9. Cardinality({a, b}) = 2
    <2>1. IsFiniteSet({a}) /\ Cardinality({a}) = 1
      BY FS_Singleton
    <2>2. {a, b} = {a} \cup {b} /\ b \notin {a}
      BY <1>8
    <2> QED
      BY <2>1, <2>2, FS_AddElement
  <1>10. {a, b} \in Pairs
    BY <1>9 DEF Pairs
  <1>11. Part(s, {a, b}) = Part(t, {a, b})
    BY <1>8 DEF Part
  <1> QED
    BY <1>10, <1>11

\* Whatever a preparation says, a signature with enough words is a set of bits.
LEMMA PayloadClean ==
    ASSUME NEW raw
    PROVE  Features(Payload(raw)).signatures \subseteq SUBSET Bits
  <1> DEFINE p == Payload(raw)
  <1>1. PICK u, v : p.near = [core |-> Near(u), full |-> Near(v)]
    BY DEF Payload
  <1>2. \A w : Near(w).tokens >= Limits.tokens => Near(w).signature \in SUBSET Bits
    <2> SUFFICES ASSUME NEW w, Near(w).tokens >= Limits.tokens
                 PROVE  Near(w).signature \in SUBSET Bits
      OBVIOUS
    <2>1. Near(w).tokens = Len(w)
      BY DEF Near
    <2>2. w # <<>>
      BY <2>1, LimitsAssumption
    <2>3. Near(w).signature = Majority(Shingles(w))
      BY <2>2 DEF Near
    <2> QED
      BY <2>3 DEF Majority
  <1>3. Range(p.near) = {Near(u), Near(v)}
    BY <1>1 DEF Range
  <1>4. \A signature \in Features(p).signatures :
            \E near \in Range(p.near) : near.tokens >= Limits.tokens /\ signature = near.signature
    BY DEF Features
  <1> HIDE DEF p
  <1>5. \A near \in Range(p.near) : near.tokens >= Limits.tokens => near.signature \in SUBSET Bits
    BY <1>2, <1>3
  <1>6. Features(p).signatures \subseteq SUBSET Bits
    BY <1>4, <1>5
  <1> QED
    BY <1>6 DEF p

\* Whoever is linked is linked by a run of some family.
LEMMA LinkedShareRun ==
    ASSUME corpus \in Corpora, IsFile(nodes),
           \A n \in Nodes : Content(n).signatures \subseteq SUBSET Bits,
           NEW n \in Nodes, NEW m \in Nodes, n # m, Linked(Content(n), Content(m))
    PROVE  \E i \in 1..5 : \E run \in Runs(Families[i]) : n \in run /\ m \in run
  <1> DEFINE c == Content(n)
             d == Content(m)
  <1>1. CASE \E i \in 1..4 : Keys(Families[i], c) \cap Keys(Families[i], d) # {}
    <2>1. PICK i \in 1..4 : Keys(Families[i], c) \cap Keys(Families[i], d) # {}
      BY <1>1
    <2>2. PICK key : key \in Keys(Families[i], c) /\ key \in Keys(Families[i], d)
      BY <2>1
    <2> DEFINE f == Families[i]
               run == {x \in Nodes : key \in Keys(f, Content(x))}
    <2>3. f # "near_duplicate"
      BY DEF Families
    <2> HIDE DEF f
    <2>4. n \in run /\ m \in run
      BY <2>2 DEF f
    <2>5. run \in Runs(f)
      <3>1. key \in UNION {Keys(f, Content(x)) : x \in Nodes}
        BY <2>2 DEF f
      <3> QED
        BY <2>3, <2>4, <3>1 DEF Runs
    <2> QED
      BY <2>4, <2>5 DEF f
  <1>2. CASE Similar(c, d)
    <2>1. PICK s \in c.signatures, t \in d.signatures : Distance(s, t) <= options.near
      BY <1>2 DEF Similar
    <2>2. PICK pair \in Pairs : Part(s, pair) = Part(t, pair)
      <3>1. s \in SUBSET Bits /\ t \in SUBSET Bits
        OBVIOUS
      <3>2. options.near \in Nat /\ options.near + 2 <= Cardinality(Bands)
        BY BandsAssumption DEF options
      <3> QED
        BY <2>1, <3>1, <3>2, BandsAgree
    <2>3. <<pair, Part(s, pair)>> \in NearKeys(c) /\ <<pair, Part(t, pair)>> \in NearKeys(d)
      BY <2>2 DEF NearKeys
    <2>4. Candidate(c, d) /\ Candidate(d, c)
      BY <2>2, <2>3 DEF Candidate
    <2>5. Similar(d, c)
      <3>1. Distance(s, t) = Distance(t, s)
        <4>1. (s \ t) \cup (t \ s) = (t \ s) \cup (s \ t)
          OBVIOUS
        <4> QED
          BY <4>1 DEF Distance
      <3> QED
        BY <2>1, <3>1 DEF Similar
    <2>6. {n, m} \in Candidates
      <3>1. n \in Nat /\ m \in Nat
        BY DEF IsFile, Nodes
      <3>2. n < m \/ m < n
        BY <3>1
      <3>3. {n, m} \in SUBSET Nodes /\ {n, m} = {m, n}
        OBVIOUS
      <3> QED
        BY <2>4, <3>2, <3>3 DEF Candidates
    <2>7. Families[5] = "near_duplicate"
      BY DEF Families
    <2>8. {n, m} \in Runs(Families[5])
      <3>1. \A x, y \in {n, m} : x # y => Similar(Content(x), Content(y))
        BY <1>2, <2>5
      <3> QED
        BY <2>6, <2>7, <3>1 DEF Runs
    <2> QED
      BY <2>8
  <1> QED
    BY <1>1, <1>2 DEF Linked

\* The runs of a family are sets of nodes.
LEMMA RunsOfNodes ==
    ASSUME NEW f, NEW run \in Runs(f)
    PROVE  run \subseteq Nodes
  BY DEF Runs, Candidates

-----------------------------------------------------------------------------
(* Groups *)

\* Linking keeps together who is together.
LEMMA MergedKeeps ==
    ASSUME NEW run, NEW n \in Nodes, NEW m \in Nodes,
           group[n] = group[m] \/ (n \in run /\ m \in run)
    PROVE  Merged(run)[n] = Merged(run)[m]
  BY DEF Merged

\* Everybody in a group gets the same role.
LEMMA RolesByGroup ==
    ASSUME NEW n \in Nodes, NEW m \in Nodes, group[n] = group[m]
    PROVE  NodeRoles[n] = NodeRoles[m]
  <1>1. Group(n) = Group(m)
    BY DEF Group
  <1> QED
    BY <1>1 DEF NodeRoles

\* What a pass compares stays while the corpus and its spool do.
LEMMA RunsStay ==
    ASSUME corpus' = corpus, nodes' = nodes, NEW i \in 1..5
    PROVE  Runs(Families[i])' = Runs(Families[i])
  <1>1. Nodes' = Nodes /\ \A n : Content(n)' = Content(n)
    BY DEF Nodes, Content
  <1>2. \A c, d : Similar(c, d)' <=> Similar(c, d)
    BY DEF Similar, options
  <1>3. Candidates' = Candidates
    BY <1>1 DEF Candidates
  <1> DEFINE f == Families[i]
  <1>4. {run \in Candidates : \A n, m \in run : n # m => Similar(Content(n), Content(m))}'
          = {run \in Candidates : \A n, m \in run : n # m => Similar(Content(n), Content(m))}
    BY <1>1, <1>2, <1>3
  <1>5. \A key : {n \in Nodes : key \in Keys(f, Content(n))}' = {n \in Nodes : key \in Keys(f, Content(n))}
    BY <1>1
  <1>6. {Keys(f, Content(n)) : n \in Nodes}' = {Keys(f, Content(n)) : n \in Nodes}
    BY <1>1
  <1>7. CASE f = "near_duplicate"
    BY <1>4, <1>7 DEF Runs
  <1>8. CASE f # "near_duplicate"
    <2> HIDE DEF f
    <2>1. Runs(f) = {run \in {{n \in Nodes : key \in Keys(f, Content(n))} :
                                  key \in UNION {Keys(f, Content(n)) : n \in Nodes}} : \E n, m \in run : n # m}
      BY <1>8 DEF Runs
    <2>2. Runs(f)' = {run \in {{n \in Nodes : key \in Keys(f, Content(n))}' :
                                  key \in UNION {Keys(f, Content(n)) : n \in Nodes}'} : \E n, m \in run : n # m}
      BY <1>8 DEF Runs
    <2> DEFINE keyed(key) == {n \in Nodes : key \in Keys(f, Content(n))}
               keys == UNION {Keys(f, Content(n)) : n \in Nodes}
    <2>3. keys' = keys
      BY <1>6
    <2>4. \A key : keyed(key)' = keyed(key)
      BY <1>5
    <2>5. Runs(f) = {run \in {keyed(key) : key \in keys} : \E n, m \in run : n # m}
      BY <2>1
    <2>6. Runs(f)' = {run \in {keyed(key)' : key \in keys'} : \E n, m \in run : n # m}
      BY <2>2
    <2>7. {keyed(key) : key \in keys} = {keyed(key)' : key \in keys'}
      <3> HIDE DEF keyed, keys
      <3> QED
        BY <2>3, <2>4
    <2>8. Runs(f)' = Runs(f)
      <3> HIDE DEF keyed, keys
      <3> QED
        BY <2>5, <2>6, <2>7
    <2> QED
      BY <2>8 DEF f
  <1> QED
    BY <1>7, <1>8

LEMMA ObservedStays ==
    ASSUME files' = files, NEW n
    PROVE  Observed(n)' = Observed(n)
  BY DEF Observed

-----------------------------------------------------------------------------
(* Induction *)

\* Nothing has been read, spooled or assigned.
LEMMA InitInv == Init => Inv
  <1> SUFFICES ASSUME Init PROVE Inv
    OBVIOUS
  <1>1. IsFile(<<>>) /\ IsClean(<<>>) /\ <<>> \in Seq(Range(<<>>))
    <2>1. <<>> \in Seq(Range(<<>>))
      OBVIOUS
    <2>2. DOMAIN <<>> = {}
      OBVIOUS
    <2>3. Range(<<>>) = {}
      BY <2>2 DEF Range
    <2> QED
      BY <2>1, <2>3 DEF IsFile, IsClean
  <1>2. BagToSet(EmptyBag) = {} /\ IsFiniteSet({})
    BY FS_EmptySet DEF EmptyBag, BagToSet, SetToBag
  <1>3. Types
    BY <1>1, <1>2 DEF Types, Init, PreparationInit
  <1>4. RunsJoined
    BY DEF RunsJoined, Init
  <1> QED
    BY <1>3, <1>4 DEF Inv, Init, PreparationInit, Assigned

\* A step that leaves the spool, the role files and the pass alone keeps what is said of them.
LEMMA SpoolStays ==
    ASSUME Inv, corpus' = corpus, UNCHANGED spoolVars, Types',
           Assigned' => Assigned,
           Assigned' \/ phase' = "link" => UNCHANGED <<files, pass>>,
           phase' = "link" => phase = "link",
           phase' \in {"verified", "published"} =>
               pass = "replay" /\ \A n \in Nodes : roles[n] = Observed(n)
    PROVE  Inv'
  <1>1. UNCHANGED <<nodes, group, family, pending, roles>>
    BY DEF spoolVars
  <1>2. RunsJoined'
    BY <1>1, RunsStay DEF Inv, RunsJoined
  <1>3. Assigned' => (family = 5 /\ pending = {} /\ GroupsWhole)'
    BY <1>1 DEF Inv, GroupsWhole, Nodes
  <1>4. (pass = "replay" /\ (phase = "link" \/ Assigned))' => nodes' = Spooled(Staged)'
    BY <1>1 DEF Inv, Assigned, Spooled, Staged
  <1>5. (phase \in {"verified", "published"})' =>
            (pass = "replay" /\ \A n \in Nodes : roles[n] = Observed(n))'
    BY <1>1, ObservedStays DEF Nodes, Assigned
  <1> QED
    BY <1>2, <1>3, <1>4, <1>5 DEF Inv

\* A preparation reads rows and writes clean records.
LEMMA PrepareInv == Inv /\ Prepare => Inv'
  <1> SUFFICES ASSUME Inv, Prepare PROVE Inv'
    OBVIOUS
  <1> USE DEF Inv, Types
  <1>1. UNCHANGED <<corpus, file, bound, pass, nodes, family, files>> /\ UNCHANGED spoolVars
    BY DEF Prepare, PreparationNext, Read, WritePrepared, CommitPreparation, spoolVars
  <1>2. /\ phase \in {"read", "written"} /\ phase' \in {"read", "written", "prepared", "failed"}
    BY DEF Prepare, PreparationNext, Read, WritePrepared, CommitPreparation
  <1>3. IsFiniteSet(BagToSet(spool))' /\ IsFile(prepared)' /\ IsClean(prepared)'
    <2>1. CASE Read
      <3>1. prepared' = prepared
        BY <2>1 DEF Read
      <3>2. spool' = spool \/ \E row : spool' = spool (+) SetToBag({row})
        BY <2>1 DEF Read
      <3>3. \A row : BagToSet(spool (+) SetToBag({row})) = BagToSet(spool) \cup {row}
        BY DEF BagToSet, SetToBag, (+)
      <3>4. IsFiniteSet(BagToSet(spool'))
        <4>1. \A row : IsFiniteSet(BagToSet(spool) \cup {row})
          BY FS_AddElement
        <4>2. IsFiniteSet(BagToSet(spool))
          OBVIOUS
        <4> HIDE DEF Inv, Types
        <4> QED
          BY <3>2, <3>3, <4>1, <4>2
      <3> QED
        BY <3>1, <3>4 DEF IsFile, IsClean, BagToSet
    <2>2. CASE WritePrepared
      <3> DEFINE k == Cardinality(BagToSet(spool))
                 record(i) ==
                    LET row == Ascending(BagToSet(spool))[i]
                    IN [id |-> row, occurrences |-> spool[row], payload |-> Payload(corpus.raw[row])]
      <3>1. prepared' = [i \in 1..k |-> record(i)] /\ spool' = spool
        BY <2>2 DEF WritePrepared
      <3>2. k \in Nat
        BY FS_CardinalityType
      <3>3. \A i \in 1..k : Features(record(i).payload).signatures \subseteq SUBSET Bits
        BY PayloadClean
      <3> HIDE DEF k, record
      <3>4. Range(prepared') = {record(i) : i \in 1..k}
        BY <3>1 DEF Range
      <3>5. prepared' \in Seq(Range(prepared'))
        BY <3>1, <3>2, <3>4
      <3>6. IsClean(prepared')
        BY <3>3, <3>4 DEF IsClean
      <3>7. IsFile(prepared)' /\ IsClean(prepared)'
        BY <3>5, <3>6 DEF IsFile, IsClean
      <3> QED
        BY <3>1, <3>7 DEF BagToSet
    <2>3. CASE CommitPreparation
      BY <2>3 DEF CommitPreparation, IsFile, IsClean, BagToSet
    <2> QED
      BY <2>1, <2>2, <2>3 DEF Prepare, PreparationNext
  <1>4. Types'
    BY <1>1, <1>2, <1>3 DEF IsFile, IsClean
  <1>5. Inv
    OBVIOUS
  <1>6. ~Assigned' /\ phase' # "link" /\ phase' \notin {"verified", "published"}
    BY <1>2 DEF Assigned
  <1> HIDE DEF Inv, Types
  <1> QED
    BY <1>1, <1>4, <1>5, <1>6, SpoolStays

\* A new spool has no groups yet.
LEMMA IngestInv ==
    ASSUME Inv, NEW records, IsFile(records), Ingest(records),
           UNCHANGED <<corpus, spool, prepared, file, bound, files>>,
           pass' \in {"build", "replay"}, pass' = "replay" => records = Staged
    PROVE  Inv'
  <1> USE DEF Ingest
  <1>1. nodes' = Spooled(records) /\ family' = 0 /\ phase' = "link"
    BY DEF Spooled
  <1>2. IsFile(nodes')
    <2>1. \A n \in DOMAIN records : nodes'[n] \in Range(nodes') /\ DOMAIN nodes' = DOMAIN records
      BY <1>1 DEF Spooled, Range
    <2>2. DOMAIN records = 1..Len(records) /\ Len(records) \in Nat
      BY DEF IsFile
    <2>3. nodes' = [n \in 1..Len(records) |-> nodes'[n]]
      BY <1>1, <2>2 DEF Spooled
    <2>4. nodes' \in Seq(Range(nodes'))
      BY <2>1, <2>2, <2>3
    <2> QED
      BY <2>4 DEF IsFile
  <1>3. Types'
    BY <1>1, <1>2 DEF Inv, Types, IsFile, IsClean, BagToSet
  <1>4. RunsJoined'
    BY <1>1 DEF RunsJoined
  <1>5. Staged' = Staged
    BY DEF Staged
  <1>6. ~Assigned' /\ phase' \notin {"verified", "published"}
    BY <1>1 DEF Assigned
  <1>7. (pass = "replay" => nodes = Spooled(Staged))'
    BY <1>1, <1>5 DEF Spooled
  <1> QED
    BY <1>3, <1>4, <1>6, <1>7 DEF Inv

LEMMA LinkInv == Inv /\ Link => Inv'
  <1> SUFFICES ASSUME Inv, Link PROVE Inv'
    OBVIOUS
  <1>1. PICK run \in pending : pending' = pending \ {run} /\ group' = Merged(run)
    BY DEF Link, LinkRun
  <1>2. /\ phase = "link" /\ phase' = phase
        /\ UNCHANGED <<corpus, spool, prepared, file, bound, pass, nodes, family, roles, files>>
    BY DEF Link, preparationVars
  <1>3. Types'
    BY <1>2 DEF Inv, Types, IsFile, IsClean, BagToSet
  <1>4. RunsJoined'
    <2> SUFFICES ASSUME NEW i \in 1..5, NEW other \in Runs(Families[i]),
                        i < family \/ (i = family /\ other \notin pending'),
                        NEW n \in other, NEW m \in other
                 PROVE  group'[n] = group'[m]
      BY <1>2, RunsStay DEF RunsJoined
    <2>1. n \in Nodes /\ m \in Nodes
      BY RunsOfNodes
    <2>2. CASE other = run
      BY <1>1, <2>1, <2>2, MergedKeeps
    <2>3. CASE other # run
      <3>1. i < family \/ (i = family /\ other \notin pending)
        BY <1>1, <2>3
      <3>2. group[n] = group[m]
        BY <3>1 DEF Inv, RunsJoined
      <3> QED
        BY <1>1, <2>1, <3>2, MergedKeeps
    <2> QED
      BY <2>2, <2>3
  <1>5. Staged' = Staged
    BY <1>2 DEF Staged
  <1>6. ~Assigned' /\ phase' \notin {"verified", "published"}
    BY <1>2 DEF Assigned
  <1>7. (pass = "replay" => nodes = Spooled(Staged))'
    BY <1>2, <1>5 DEF Inv, Spooled
  <1> QED
    BY <1>3, <1>4, <1>6, <1>7 DEF Inv

\* The next family starts when no run of the last one is left.
LEMMA NextFamilyInv == Inv /\ NextFamily => Inv'
  <1> SUFFICES ASSUME Inv, NextFamily PROVE Inv'
    OBVIOUS
  <1>1. /\ UNCHANGED <<corpus, spool, prepared, file, bound, pass, nodes, group, roles, files>>
        /\ phase = "link" /\ pending = {} /\ family < 5
    BY DEF NextFamily, Stop, spoolVars
  <1>2. CASE family' = family + 1 /\ phase' = "link" /\ pending' = Runs(Families[family + 1])
    <2>1. Types'
      BY <1>1, <1>2 DEF Inv, Types, IsFile, IsClean, BagToSet
    <2>2. RunsJoined'
      <3> SUFFICES ASSUME NEW i \in 1..5, NEW run \in Runs(Families[i]),
                          i < family' \/ (i = family' /\ run \notin pending'),
                          NEW n \in run, NEW m \in run
                   PROVE  group[n] = group[m]
        BY <1>1, RunsStay DEF RunsJoined
      <3>1. i < family \/ i = family
        BY <1>2 DEF Inv, Types
      <3> QED
        BY <1>1, <3>1 DEF Inv, RunsJoined
    <2>3. Staged' = Staged
      BY <1>1 DEF Staged
    <2>4. ~Assigned' /\ phase' \notin {"verified", "published"}
      BY <1>2 DEF Assigned
    <2>5. (pass = "replay" => nodes = Spooled(Staged))'
      BY <1>1, <2>3 DEF Inv, Spooled
    <2> QED
      BY <2>1, <2>2, <2>4, <2>5 DEF Inv
  <1>3. CASE Stop("refused")
    <2>1. Types' /\ UNCHANGED spoolVars /\ phase' = "refused"
      BY <1>1, <1>3 DEF Stop, spoolVars, Inv, Types, IsFile, IsClean, BagToSet
    <2> QED
      BY <1>1, <2>1, SpoolStays DEF Assigned
  <1> QED
    BY <1>2, <1>3, <1>1 DEF NextFamily

\* All five families are done when the roles are assigned, to whole groups.
LEMMA AssignInv == Inv /\ Assign => Inv'
  <1> SUFFICES ASSUME Inv, Assign PROVE Inv'
    OBVIOUS
  <1>1. /\ phase = "link" /\ pending = {} /\ family = 5
        /\ phase' = "assigned" /\ roles' = NodeRoles
        /\ UNCHANGED <<corpus, spool, prepared, file, bound, pass, nodes, group, family, pending, files>>
    BY DEF Assign
  <1>2. Types'
    BY <1>1 DEF Inv, Types, IsFile, IsClean, BagToSet
  <1>3. RunsJoined'
    BY <1>1, RunsStay DEF Inv, RunsJoined
  <1>4. GroupsWhole'
    BY <1>1, RolesByGroup DEF GroupsWhole, Nodes
  <1>5. Staged' = Staged
    BY <1>1 DEF Staged
  <1>6. (pass = "replay" => nodes = Spooled(Staged))'
    BY <1>1, <1>5 DEF Inv, Spooled
  <1> QED
    BY <1>1, <1>2, <1>3, <1>4, <1>6 DEF Inv

LEMMA LoadInv == Inv /\ Load => Inv'
  <1> SUFFICES ASSUME Inv, Load PROVE Inv'
    OBVIOUS
  <1>1. /\ phase = "prepared" /\ phase' \in {"bound", "failed"}
        /\ file' = prepared /\ bound' = prepared
        /\ UNCHANGED <<corpus, spool, prepared, pass, spoolVars, nodes, family, files>>
    BY DEF Load, spoolVars
  <1>2. \A role \in Range(Roles) : files'[role] \in Seq(Range(bound'))
    <2>1. \A role \in Range(Roles) : files'[role] = <<>>
      BY <1>1 DEF Inv, Types
    <2>2. \A S : <<>> \in Seq(S)
      OBVIOUS
    <2> QED
      BY <2>1, <2>2
  <1>3. Types'
    BY <1>1, <1>2 DEF Inv, Types, IsFile, IsClean, BagToSet
  <1> QED
    BY <1>1, <1>3, SpoolStays DEF Assigned

LEMMA SwapInv == Inv /\ Swap => Inv'
  <1> SUFFICES ASSUME Inv, Swap PROVE Inv'
    OBVIOUS
  <1>1. /\ file' \in {corpus.other, bound} /\ phase \in {"bound", "link", "assigned", "decided"}
        /\ UNCHANGED <<corpus, phase, spool, prepared, bound, pass, spoolVars, nodes, family, files>>
    BY DEF Swap, spoolVars, preparationVars
  <1>2. IsFile(file')
    BY <1>1, CorporaAssumption DEF Inv, Types, IsFile
  <1>3. Types'
    BY <1>1, <1>2 DEF Inv, Types, IsFile, IsClean, BagToSet
  <1> QED
    BY <1>1, <1>3, SpoolStays DEF Assigned, Inv

LEMMA IngestPreparedInv == Inv /\ IngestPrepared => Inv'
  <1> SUFFICES ASSUME Inv, IngestPrepared PROVE Inv'
    OBVIOUS
  <1>1. /\ phase = "bound"
        /\ UNCHANGED <<corpus, spool, prepared, file, bound, pass, files>>
    BY DEF IngestPrepared
  <1>2. CASE Ingest(file)
    BY <1>1, <1>2, IngestInv DEF Inv, Types
  <1>3. CASE Stop("refused")
    <2>1. Types' /\ UNCHANGED spoolVars /\ phase' = "refused"
      BY <1>1, <1>3 DEF Stop, spoolVars, Inv, Types, IsFile, IsClean, BagToSet
    <2> QED
      BY <1>1, <2>1, SpoolStays DEF Assigned
  <1> QED
    BY <1>2, <1>3 DEF IngestPrepared

\* Assigned groups are still whole when it is decided what becomes of them.
LEMMA DecideInv == Inv /\ Decide => Inv'
  <1> SUFFICES ASSUME Inv, Decide PROVE Inv'
    OBVIOUS
  <1>1. /\ phase' \in {"refused", "decided", "unfilled"}
        /\ UNCHANGED <<corpus, spool, prepared, file, bound, pass, spoolVars, nodes, family, files>>
    BY DEF Decide, spoolVars
  <1>2. Types'
    BY <1>1 DEF Inv, Types, IsFile, IsClean, BagToSet
  <1> QED
    BY <1>1, <1>2, SpoolStays DEF Assigned

\* The role files hold records of the bound preparation.
LEMMA WriteRolesInv == Inv /\ WriteRoles => Inv'
  <1> SUFFICES ASSUME Inv, WriteRoles PROVE Inv'
    OBVIOUS
  <1>1. /\ phase = "decided" /\ phase' \in {"staged", "changed"}
        /\ UNCHANGED <<corpus, spool, prepared, file, bound, pass, spoolVars, nodes, family>>
    BY DEF WriteRoles, spoolVars
  <1>2. CASE files' = files
    <2>1. Types'
      BY <1>1, <1>2 DEF Inv, Types, IsFile, IsClean, BagToSet
    <2> QED
      BY <1>1, <2>1, SpoolStays DEF Assigned
  <1>3. CASE /\ Len(file) = Len(nodes) /\ file = bound
             /\ files' = [role \in Range(Roles) |->
                           LET at == Ascending(Members(role)) IN [i \in DOMAIN at |-> file[at[i]]]]
    <2>1. \A role \in Range(Roles) : files'[role] \in Seq(Range(bound))
      <3> SUFFICES ASSUME NEW role \in Range(Roles) PROVE files'[role] \in Seq(Range(bound))
        OBVIOUS
      <3> DEFINE S == Members(role)
                 k == Cardinality(S)
      <3>1. Nodes = 1..Len(bound) /\ DOMAIN bound = 1..Len(bound) /\ Len(bound) \in Nat
        BY <1>3 DEF Inv, Types, IsFile, Nodes
      <3>2. S \in SUBSET Nodes /\ IsFiniteSet(Nodes)
        BY <3>1, FS_Interval DEF Members
      <3>3. IsFiniteSet(S) /\ k \in Nat
        BY <3>2, FS_Subset, FS_CardinalityType
      <3>4. S \in SUBSET Nat
        BY <3>1, <3>2
      <3> HIDE DEF S
      <3>5. \A i \in 1..k : Ascending(S)[i] \in S
        BY <3>3, <3>4, AscendingRange
      <3>6. \A i \in 1..k : file[Ascending(S)[i]] \in Range(bound)
        BY <1>3, <3>1, <3>2, <3>5 DEF Range
      <3>7. DOMAIN Ascending(S) = 1..k
        BY DEF Ascending
      <3>8. files'[role] = [i \in 1..k |-> file[Ascending(S)[i]]]
        BY <1>3, <3>7 DEF S
      <3> QED
        BY <3>3, <3>6, <3>8
    <2>2. Types'
      BY <1>1, <2>1 DEF Inv, Types, IsFile, IsClean, BagToSet
    <2> QED
      BY <1>1, <2>2, SpoolStays DEF Assigned
  <1> QED
    BY <1>2, <1>3 DEF WriteRoles, SameBytes

\* What the replay spools is what the role files hold.
LEMMA StartReplayInv == Inv /\ StartReplay => Inv'
  <1> SUFFICES ASSUME Inv, StartReplay PROVE Inv'
    OBVIOUS
  <1>1. /\ phase = "staged" /\ pass' = "replay"
        /\ UNCHANGED <<corpus, spool, prepared, file, bound, files>>
    BY DEF StartReplay
  <1>2. CASE Ingest(Staged)
    <2>1. Staged \in Seq(Range(bound))
      BY DEF Inv, Types, Staged, Roles, Range
    <2>2. IsFile(Staged)
      <3> DEFINE t == Staged
      <3>1. t \in Seq(Range(bound))
        BY <2>1
      <3> HIDE DEF t
      <3>2. \A i \in 1..Len(t) : t[i] \in Range(t)
        BY <3>1 DEF Range
      <3>3. t \in Seq(Range(t))
        BY <3>1, <3>2
      <3> QED
        BY <3>3 DEF t, IsFile
    <2> QED
      BY <1>1, <1>2, <2>2, IngestInv
  <1>3. CASE Stop("differs")
    <2>1. Types' /\ UNCHANGED spoolVars /\ phase' = "differs"
      BY <1>1, <1>3 DEF Stop, spoolVars, Inv, Types, IsFile, IsClean, BagToSet
    <2> QED
      BY <1>1, <2>1, SpoolStays DEF Assigned
  <1> QED
    BY <1>2, <1>3 DEF StartReplay

\* Verified roles are those of the files.
LEMMA CompareInv == Inv /\ Compare => Inv'
  <1> SUFFICES ASSUME Inv, Compare PROVE Inv'
    OBVIOUS
  <1>1. /\ phase = "assigned" /\ pass = "replay" /\ phase' \in {"verified", "differs"}
        /\ phase' = "verified" => \A n \in Nodes : roles[n] = Observed(n)
        /\ UNCHANGED <<corpus, spool, prepared, file, bound, pass, spoolVars, nodes, family, files>>
    BY DEF Compare, Agrees, spoolVars
  <1>2. Types'
    BY <1>1 DEF Inv, Types, IsFile, IsClean, BagToSet
  <1> QED
    BY <1>1, <1>2, SpoolStays DEF Assigned

LEMMA PublishInv == Inv /\ Publish => Inv'
  <1> SUFFICES ASSUME Inv, Publish PROVE Inv'
    OBVIOUS
  <1>1. /\ phase = "verified" /\ phase' = "published"
        /\ UNCHANGED <<corpus, spool, prepared, file, bound, pass, spoolVars, nodes, family, files>>
    BY DEF Publish, spoolVars
  <1>2. Types'
    BY <1>1 DEF Inv, Types, IsFile, IsClean, BagToSet
  <1> QED
    BY <1>1, <1>2, SpoolStays DEF Assigned, Inv

LEMMA StutterInv == Inv /\ UNCHANGED vars => Inv'
  <1> SUFFICES ASSUME Inv, UNCHANGED vars PROVE Inv'
    OBVIOUS
  <1>1. UNCHANGED <<corpus, phase, spool, prepared, file, bound, pass, spoolVars, nodes, family, files>>
    BY DEF vars, preparationVars, spoolVars
  <1>2. Types'
    BY <1>1 DEF Inv, Types, IsFile, IsClean, BagToSet
  <1> QED
    BY <1>1, <1>2, SpoolStays DEF Assigned, Inv

\* What the spool says of groups and files is inductive.
THEOREM SplitInvariant == Spec => []Inv
  <1>1. Inv /\ [Next]_vars => Inv'
    BY PrepareInv, LoadInv, SwapInv, IngestPreparedInv, NextFamilyInv, LinkInv, AssignInv, DecideInv,
       WriteRolesInv, StartReplayInv, CompareInv, PublishInv, StutterInv DEF Next
  <1> QED
    BY InitInv, <1>1, PTL DEF Spec

-----------------------------------------------------------------------------
(* No leakage *)

\* Where the records of a role file are among the staged ones.
Before(role) ==
    IF role = "train" THEN 0
    ELSE IF role = "validation" THEN Len(files["train"])
    ELSE Len(files["train"]) + Len(files["validation"])

LEMMA ConcatThree ==
    ASSUME NEW S, NEW a \in Seq(S), NEW b \in Seq(S), NEW c \in Seq(S)
    PROVE  /\ \A i \in 1..Len(a) : i \in DOMAIN (a \o b \o c) /\ (a \o b \o c)[i] = a[i]
           /\ \A i \in 1..Len(b) : /\ Len(a) + i \in DOMAIN (a \o b \o c)
                                   /\ (a \o b \o c)[Len(a) + i] = b[i]
           /\ \A i \in 1..Len(c) : /\ Len(a) + Len(b) + i \in DOMAIN (a \o b \o c)
                                   /\ (a \o b \o c)[Len(a) + Len(b) + i] = c[i]
  <1>1. /\ a \o b \in Seq(S) /\ Len(a \o b) = Len(a) + Len(b) /\ Len(a) \in Nat /\ Len(b) \in Nat
        /\ \A i \in 1..Len(a) : (a \o b)[i] = a[i]
        /\ \A i \in 1..Len(b) : (a \o b)[Len(a) + i] = b[i]
    OBVIOUS
  <1> DEFINE ab == a \o b
  <1> HIDE DEF ab
  <1>2. /\ ab \o c \in Seq(S) /\ Len(ab \o c) = Len(ab) + Len(c) /\ Len(c) \in Nat
        /\ \A i \in 1..Len(ab) : (ab \o c)[i] = ab[i]
        /\ \A i \in 1..Len(c) : (ab \o c)[Len(ab) + i] = c[i]
    BY <1>1 DEF ab
  <1>3. DOMAIN (ab \o c) = 1..(Len(a) + Len(b) + Len(c)) /\ Len(ab) = Len(a) + Len(b)
    BY <1>1, <1>2 DEF ab
  <1>4. \A i \in 1..Len(a) : i \in 1..Len(ab) /\ ab[i] = a[i] /\ i \in DOMAIN (ab \o c)
    BY <1>1, <1>2, <1>3 DEF ab
  <1>5. \A i \in 1..Len(b) : /\ Len(a) + i \in 1..Len(ab) /\ ab[Len(a) + i] = b[i]
                             /\ Len(a) + i \in DOMAIN (ab \o c)
    BY <1>1, <1>2, <1>3 DEF ab
  <1>6. \A i \in 1..Len(c) : Len(a) + Len(b) + i \in DOMAIN (ab \o c)
    BY <1>1, <1>2, <1>3
  <1> QED
    BY <1>2, <1>3, <1>4, <1>5, <1>6 DEF ab

LEMMA StagedAt ==
    ASSUME Types
    PROVE  /\ Staged \in Seq(Range(bound))
           /\ \A role \in Range(Roles) : \A i \in DOMAIN files[role] :
                /\ Before(role) + i \in DOMAIN Staged
                /\ Staged[Before(role) + i] = files[role][i]
                /\ Observed(Before(role) + i) = role
  <1> DEFINE train == files["train"]
             validation == files["validation"]
             test == files["test"]
             S == Range(bound)
  <1>1. Range(Roles) = {"train", "validation", "test"}
    BY DEF Roles, Range
  <1>2. train \in Seq(S) /\ validation \in Seq(S) /\ test \in Seq(S)
    BY <1>1 DEF Types
  <1>3. Staged = train \o validation \o test
    BY DEF Staged
  <1>4. \A n : Observed(n) = Threshold(n - 1, Len(train), Len(train) + Len(validation))
    BY DEF Observed
  <1>5. /\ Before("train") = 0 /\ Before("validation") = Len(train)
        /\ Before("test") = Len(train) + Len(validation)
    BY DEF Before
  <1>6. \A i \in DOMAIN files["train"] : i \in DOMAIN train /\ files["train"][i] = train[i]
    OBVIOUS
  <1>7. \A i \in DOMAIN files["validation"] : i \in DOMAIN validation /\ files["validation"][i] = validation[i]
    OBVIOUS
  <1>8. \A i \in DOMAIN files["test"] : i \in DOMAIN test /\ files["test"][i] = test[i]
    OBVIOUS
  <1> HIDE DEF train, validation, test, S
  <1>9. /\ Len(train) \in Nat /\ Len(validation) \in Nat /\ Len(test) \in Nat
        /\ DOMAIN train = 1..Len(train) /\ DOMAIN validation = 1..Len(validation) /\ DOMAIN test = 1..Len(test)
    BY <1>2
  <1>10. /\ \A i \in 1..Len(train) : i \in DOMAIN Staged /\ Staged[i] = train[i]
         /\ \A i \in 1..Len(validation) :
                Len(train) + i \in DOMAIN Staged /\ Staged[Len(train) + i] = validation[i]
         /\ \A i \in 1..Len(test) : /\ Len(train) + Len(validation) + i \in DOMAIN Staged
                                    /\ Staged[Len(train) + Len(validation) + i] = test[i]
         /\ Staged \in Seq(S)
    <2>1. train \o validation \o test \in Seq(S)
      BY <1>2
    <2> QED
      BY <1>2, <1>3, <2>1, ConcatThree
  <1>11. \A i \in DOMAIN files["train"] :
            /\ Before("train") + i \in DOMAIN Staged /\ Staged[Before("train") + i] = files["train"][i]
            /\ Observed(Before("train") + i) = "train"
    BY <1>4, <1>5, <1>6, <1>9, <1>10 DEF Threshold
  <1>12. \A i \in DOMAIN files["validation"] :
            /\ Before("validation") + i \in DOMAIN Staged
            /\ Staged[Before("validation") + i] = files["validation"][i]
            /\ Observed(Before("validation") + i) = "validation"
    BY <1>4, <1>5, <1>7, <1>9, <1>10 DEF Threshold
  <1>13. \A i \in DOMAIN files["test"] :
            /\ Before("test") + i \in DOMAIN Staged /\ Staged[Before("test") + i] = files["test"][i]
            /\ Observed(Before("test") + i) = "test"
    BY <1>4, <1>5, <1>8, <1>9, <1>10 DEF Threshold
  <1>14. Staged \in Seq(Range(bound))
    BY <1>10 DEF S
  <1> QED
    BY <1>1, <1>11, <1>12, <1>13, <1>14

\* The published roles do not give each other away, however near-duplicates are indexed and
\* whatever stood in the place of prepared.jsonl (the promise of policy "grouping", 1568-1600).
THEOREM LeakageFree == Spec => []NoLeakage
  <1>1. Inv => NoLeakage
    <2> SUFFICES ASSUME Inv, Published, NEW r \in Range(Roles), NEW s \in Range(Roles), r # s,
                        NEW i \in DOMAIN files[r], NEW j \in DOMAIN files[s],
                        Linked(Features(files[r][i].payload), Features(files[s][j].payload))
                 PROVE  FALSE
      BY DEF NoLeakage
    <2> DEFINE n == Before(r) + i
               m == Before(s) + j
    <2>1. /\ n \in DOMAIN Staged /\ Staged[n] = files[r][i] /\ Observed(n) = r
          /\ m \in DOMAIN Staged /\ Staged[m] = files[s][j] /\ Observed(m) = s
      BY StagedAt DEF Inv
    <2> HIDE DEF n, m
    <2>2. /\ nodes = Spooled(Staged) /\ \A x \in Nodes : roles[x] = Observed(x)
          /\ family = 5 /\ pending = {} /\ GroupsWhole
      BY DEF Inv, Published, Assigned
    <2>3. Nodes = DOMAIN Staged /\ \A x \in Nodes : Content(x) = Features(Staged[x].payload)
      BY <2>2 DEF Nodes, Content, Spooled
    <2>4. \A x \in Nodes : Content(x).signatures \subseteq SUBSET Bits
      <3>1. Staged \in Seq(Range(bound))
        BY StagedAt DEF Inv
      <3>2. \A x \in Nodes : Staged[x] \in Range(bound)
        BY <2>3, <3>1
      <3> QED
        BY <2>3, <3>2 DEF Inv, Types, IsClean
    <2>5. PICK k \in 1..5 : \E run \in Runs(Families[k]) : n \in run /\ m \in run
      BY <2>1, <2>3, <2>4, LinkedShareRun DEF Inv, Types
    <2>6. group[n] = group[m]
      BY <2>2, <2>5 DEF Inv, RunsJoined
    <2>7. roles[n] = roles[m]
      BY <2>1, <2>2, <2>3, <2>6 DEF GroupsWhole
    <2> QED
      BY <2>1, <2>2, <2>3, <2>7
  <1> QED
    BY <1>1, SplitInvariant, PTL

-----------------------------------------------------------------------------
(* Dates *)

Documents == UNION {Range(c.rows) : c \in Corpora}

\* What is known of a spool that came from a source.
Sourced ==
    /\ nodes \in Seq(Range(nodes))
    /\ \A n, m \in Nodes : n # m => nodes[n].id # nodes[m].id
    /\ \A n \in Nodes : nodes[n].id \in Documents /\ Content(n).date \in Int \cup {None}

-----------------------------------------------------------------------------
(* The cuts *)

\* There is a cut that comes closest, and it is where it is looked for.
LEMMA CutWithin ==
    ASSUME NEW order, NEW percent \in Nat, NEW low \in Nat, NEW high \in Nat, low <= high,
           low..high \subseteq DOMAIN order, Len(order) \in DOMAIN order,
           \A i \in DOMAIN order : Cumulative(order, i) \in Nat
    PROVE  Closest(order, percent, low, high) \in low..high
  <1> DEFINE cumulative == [i \in DOMAIN order |-> Cumulative(order, i)]
             off(i) == LET d == 100 * cumulative[i] - percent * cumulative[Len(order)]
                       IN IF d < 0 THEN -d ELSE d
             S == low..high
             distance == [i \in S |-> off(i)]
             better == [i \in S |-> {j \in S : \/ distance[j] < distance[i]
                                               \/ distance[j] = distance[i] /\ j < i}]
  <1>1. \A i \in S : off(i) \in Int
    <2> SUFFICES ASSUME NEW i \in S PROVE off(i) \in Int
      OBVIOUS
    <2>1. cumulative[i] \in Nat /\ cumulative[Len(order)] \in Nat
      OBVIOUS
    <2>2. 100 * cumulative[i] \in Int /\ percent * cumulative[Len(order)] \in Int
      <3> HIDE DEF cumulative
      <3> QED
        BY <2>1
    <2> HIDE DEF cumulative
    <2> QED
      BY <2>2
  <1>2. distance \in [S -> Int] /\ \A i \in S : distance[i] = off(i)
    BY <1>1
  <1>3. S \subseteq Int
    OBVIOUS
  <1>4. IsFiniteSet(S) /\ S # {}
    <2>1. low \in Int /\ high \in Int /\ low \in S
      OBVIOUS
    <2>2. IsFiniteSet(low..high)
      BY <2>1, FS_Interval
    <2> QED
      BY <2>1, <2>2
  <1> HIDE DEF off, S, distance
  <1>5. IsOrder(S, better)
    <2>1. \A i, j \in S : better[i] \in SUBSET S
             /\ (j \in better[i] <=> distance[j] < distance[i] \/ (distance[j] = distance[i] /\ j < i))
      OBVIOUS
    <2>2. \A i \in S : i \in Int /\ distance[i] \in Int
      BY <1>2, <1>3
    <2> HIDE DEF better
    <2>3. \A i, j, k \in S : i \in better[j] /\ j \in better[k] => i \in better[k]
      BY <2>1, <2>2
    <2>4. \A i, j \in S : i = j \/ i \in better[j] \/ j \in better[i]
      BY <2>1, <2>2
    <2>5. \A i \in S : i \notin better[i]
      BY <2>1, <2>2
    <2> QED
      BY <2>1, <2>3, <2>4, <2>5 DEF IsOrder
  <1>6. \A i, j \in S : (j \in better[i] <=> distance[j] < distance[i] \/ (distance[j] = distance[i] /\ j < i))
    OBVIOUS
  <1> HIDE DEF better
  <1>7. PICK i \in S : \A j \in S : j = i \/ i \in better[j]
    BY <1>4, <1>5, Extremes
  <1>8. \A j \in S : off(i) < off(j) \/ (off(i) = off(j) /\ i <= j)
    BY <1>2, <1>3, <1>6, <1>7
  <1>9. Closest(order, percent, low, high) =
           CHOOSE k \in S : \A j \in S : off(k) < off(j) \/ (off(k) = off(j) /\ k <= j)
    BY DEF Closest, off, S
  <1> QED
    BY <1>8, <1>9 DEF S

-----------------------------------------------------------------------------
(* The order of groups *)

Dated == {S \in Groups : Temporal(S)}

\* The dated groups that come before one.
OlderThan(S) == {T \in Dated : Older(T, S)}

LEMMA GroupsFinite ==
    ASSUME Sourced
    PROVE  IsFiniteSet(Nodes) /\ IsFiniteSet(Dated) /\ \A S \in Groups : S \in SUBSET Nodes /\ IsFiniteSet(S)
  <1>1. IsFiniteSet(Nodes)
    <2>1. Nodes = 1..Len(nodes) /\ Len(nodes) \in Nat
      BY DEF Sourced, Nodes
    <2> QED
      BY <2>1, FS_Interval
  <1>2. IsFiniteSet(SUBSET Nodes)
    BY <1>1, FS_SUBSET
  <1>3. \A S \in Groups : S \in SUBSET Nodes
    BY DEF Groups, Group
  <1>4. Dated \in SUBSET SUBSET Nodes
    BY <1>3 DEF Dated
  <1> QED
    BY <1>1, <1>2, <1>3, <1>4, FS_Subset

LEMMA DatesBelowAnchor ==
    ASSUME Sourced, NEW S \in Dated
    PROVE  /\ Dates(S) \subseteq Int
           /\ Anchor(S) \in Dates(S)
           /\ \A date \in Dates(S) : date <= Anchor(S)
  <1> DEFINE date == [n \in S |-> Content(n).date]
             all == {Content(n).date : n \in S}
  <1>1. S \in SUBSET Nodes /\ IsFiniteSet(S)
    BY GroupsFinite DEF Dated
  <1>2. date \in Surjection(S, all)
    BY DEF Surjection
  <1>3. IsFiniteSet(all)
    <2> HIDE DEF date, all
    <2> QED
      BY <1>1, <1>2, FS_Surjection
  <1>4. Dates(S) \in SUBSET all
    BY DEF Dates
  <1>5. IsFiniteSet(Dates(S))
    <2> HIDE DEF all
    <2> QED
      BY <1>3, <1>4, FS_Subset
  <1>6. Dates(S) \in SUBSET Int
    BY <1>1 DEF Dates, Sourced
  <1>7. Dates(S) # {}
    BY DEF Dated, Temporal
  <1> QED
    BY <1>5, <1>6, <1>7, MaxOf DEF Anchor

\* Different groups have different documents.
LEMMA GroupsApart ==
    ASSUME Sourced, NEW S \in Groups, NEW T \in Groups, S # T
    PROVE  GroupHash(GroupId(S)) \in Int /\ GroupHash(GroupId(S)) # GroupHash(GroupId(T))
  <1>1. S \in SUBSET Nodes /\ T \in SUBSET Nodes
    BY DEF Groups, Group
  <1>2. GroupId(S) = {nodes[n].id : n \in S} /\ GroupId(T) = {nodes[n].id : n \in T}
    BY DEF GroupId, Docs
  <1>3. GroupId(S) \in SUBSET Documents /\ GroupId(T) \in SUBSET Documents
    BY <1>1, <1>2 DEF Sourced
  <1>4. \A n \in S : nodes[n].id \in GroupId(T) => n \in T
    BY <1>1, <1>2 DEF Sourced
  <1>5. \A n \in T : nodes[n].id \in GroupId(S) => n \in S
    BY <1>1, <1>2 DEF Sourced
  <1>6. GroupId(S) # GroupId(T)
    BY <1>1, <1>2, <1>4, <1>5
  <1> HIDE DEF GroupId
  <1>7. \A A, B \in SUBSET Documents : GroupHash(A) \in Int /\ (GroupHash(A) = GroupHash(B) => A = B)
    BY HashAssumption DEF Documents
  <1> QED
    BY <1>3, <1>6, <1>7

LEMMA OlderIsOrder ==
    ASSUME Sourced
    PROVE  IsOrder(Dated, [S \in Dated |-> OlderThan(S)])
  <1> DEFINE before == [S \in Dated |-> OlderThan(S)]
             anchor == [S \in Dated |-> Anchor(S)]
             hash == [S \in Dated |-> GroupHash(GroupId(S))]
  <1>1. \A S \in Dated : anchor[S] \in Int
    BY DatesBelowAnchor
  <1>2. \A S, T \in Dated : S # T => hash[S] \in Int /\ hash[T] \in Int /\ hash[S] # hash[T]
    BY GroupsApart DEF Dated
  <1>3. \A S, T \in Dated : /\ before[S] \in SUBSET Dated
                            /\ T \in before[S] <=> \/ anchor[T] < anchor[S]
                                                   \/ anchor[T] = anchor[S] /\ hash[T] < hash[S]
    BY DEF Older, OlderThan
  <1>4. \A S \in Dated : hash[S] \in Int
    <2> SUFFICES ASSUME NEW S \in Dated PROVE GroupHash(GroupId(S)) \in Int
      OBVIOUS
    <2>1. S \in SUBSET Nodes
      BY DEF Dated, Groups, Group
    <2>2. GroupId(S) \in SUBSET Documents
      BY <2>1 DEF GroupId, Docs, Sourced
    <2>3. \A A \in SUBSET Documents : GroupHash(A) \in Int
      BY HashAssumption DEF Documents
    <2> QED
      BY <2>2, <2>3
  <1> HIDE DEF before, anchor, hash
  <1>5. \A S \in Dated : S \notin before[S]
    BY <1>1, <1>3, <1>4
  <1>6. \A S, T, U \in Dated : S \in before[T] /\ T \in before[U] => S \in before[U]
    BY <1>1, <1>3, <1>4
  <1>7. \A S, T \in Dated : S = T \/ S \in before[T] \/ T \in before[S]
    BY <1>1, <1>2, <1>3
  <1>8. IsOrder(Dated, before)
    BY <1>3, <1>5, <1>6, <1>7 DEF IsOrder
  <1> QED
    BY <1>8 DEF before

-----------------------------------------------------------------------------
(* Older groups have earlier roles *)

GroupRank == Rank(Dated, [S \in Dated |-> OlderThan(S)])

Position(S) == CHOOSE i \in DOMAIN TemporalGroups : TemporalGroups[i] = S

\* What the order of groups is for: an older group has a lower rank.
LEMMA GroupRanks ==
    ASSUME Sourced
    PROVE  /\ Cardinality(Dated) \in Nat
           /\ \A S \in Dated : /\ GroupRank[S] \in 0..Cardinality(Dated) - 1
                               /\ GroupRank[S] = Cardinality({T \in Dated : Older(T, S)})
           /\ \A S, T \in Dated : Older(S, T) => GroupRank[S] < GroupRank[T]
           /\ \A S, T \in Dated : GroupRank[S] = GroupRank[T] => S = T
           /\ \A i \in 0..Cardinality(Dated) - 1 : \E S \in Dated : GroupRank[S] = i
  <1> DEFINE before == [S \in Dated |-> OlderThan(S)]
             N == Cardinality(Dated)
  <1>1. IsFiniteSet(Dated) /\ IsOrder(Dated, before)
    BY GroupsFinite, OlderIsOrder
  <1>2. \A S, T \in Dated : S \in before[T] <=> Older(S, T)
    BY DEF OlderThan
  <1>3. \A S \in Dated : before[S] = {T \in Dated : Older(T, S)}
    BY DEF OlderThan
  <1>4. GroupRank = Rank(Dated, before)
    BY DEF GroupRank
  <1> HIDE DEF before
  <1>5. /\ N \in Nat
        /\ \A S \in Dated : GroupRank[S] \in 0..N - 1
        /\ \A S, T \in Dated : S \in before[T] => GroupRank[S] < GroupRank[T]
        /\ \A i \in 0..N - 1 : \E S \in Dated : GroupRank[S] = i
    <2>1. RunsAlong(Dated, before, GroupRank)
      BY <1>1, <1>4, RanksRun
    <2> QED
      BY <1>1, <2>1, FS_CardinalityType DEF RunsAlong
  <1>6. \A S \in Dated : GroupRank[S] = Cardinality(before[S])
    BY <1>4 DEF Rank
  <1>7. \A S, T \in Dated : GroupRank[S] = GroupRank[T] => S = T
    <2> SUFFICES ASSUME NEW S \in Dated, NEW T \in Dated, GroupRank[S] = GroupRank[T] PROVE S = T
      OBVIOUS
    <2>1. S \notin before[T] /\ T \notin before[S]
      BY <1>5
    <2> QED
      BY <1>1, <2>1 DEF IsOrder
  <1> QED
    BY <1>2, <1>3, <1>5, <1>6, <1>7

\* The order has every dated group, each at its rank.
LEMMA OrderOfGroups ==
    ASSUME Sourced
    PROVE  /\ DOMAIN TemporalGroups = 1..Cardinality(Dated) /\ Len(TemporalGroups) = Cardinality(Dated)
           /\ \A i \in 1..Cardinality(Dated) :
                 TemporalGroups[i] \in Dated /\ GroupRank[TemporalGroups[i]] = i - 1
  <1> DEFINE N == Cardinality(Dated)
  <1>1. TemporalGroups = [i \in 1..N |-> CHOOSE S \in Dated : Cardinality({T \in Dated : Older(T, S)}) = i - 1]
    BY DEF TemporalGroups, Dated
  <1>2. N \in Nat
    BY GroupRanks
  <1>3. DOMAIN TemporalGroups = 1..N
    BY <1>1
  <1>4. \A i \in 1..N : TemporalGroups[i] \in Dated /\ GroupRank[TemporalGroups[i]] = i - 1
    <2> SUFFICES ASSUME NEW i \in 1..N
                 PROVE  TemporalGroups[i] \in Dated /\ GroupRank[TemporalGroups[i]] = i - 1
      OBVIOUS
    <2>1. i - 1 \in 0..N - 1
      BY <1>2
    <2>2. PICK S \in Dated : GroupRank[S] = i - 1
      BY <2>1, GroupRanks
    <2>3. Cardinality({T \in Dated : Older(T, S)}) = i - 1
      BY <2>2, GroupRanks
    <2>4. TemporalGroups[i] = CHOOSE U \in Dated : Cardinality({T \in Dated : Older(T, U)}) = i - 1
      BY <1>1
    <2>5. TemporalGroups[i] \in Dated /\ Cardinality({T \in Dated : Older(T, TemporalGroups[i])}) = i - 1
      BY <2>3, <2>4
    <2> QED
      BY <2>5, GroupRanks
  <1>5. Len(TemporalGroups) = N
    <2>1. TemporalGroups \in Seq(Dated)
      <3>1. \A i \in 1..N : TemporalGroups[i] \in Dated
        BY <1>4
      <3> DEFINE at(i) == CHOOSE S \in Dated : Cardinality({T \in Dated : Older(T, S)}) = i - 1
      <3>2. TemporalGroups = [i \in 1..N |-> at(i)]
        BY <1>1
      <3> HIDE DEF N, at
      <3>3. \A i \in 1..N : at(i) \in Dated
        BY <3>1, <3>2
      <3> QED
        BY <1>2, <3>2, <3>3
    <2> HIDE DEF N
    <2> QED
      BY <1>2, <1>3, <2>1
  <1> QED
    BY <1>3, <1>4, <1>5

LEMMA PositionOf ==
    ASSUME Sourced, NEW S \in Dated
    PROVE  Position(S) \in 1..Cardinality(Dated) /\ GroupRank[S] = Position(S) - 1
  <1> DEFINE N == Cardinality(Dated)
             i == GroupRank[S] + 1
  <1>1. N \in Nat /\ GroupRank[S] \in 0..N - 1
    BY GroupRanks
  <1>2. i \in 1..N /\ i - 1 = GroupRank[S]
    <2> HIDE DEF N
    <2> QED
      BY <1>1
  <1>3. TemporalGroups[i] \in Dated /\ GroupRank[TemporalGroups[i]] = GroupRank[S]
    BY <1>2, OrderOfGroups
  <1>4. TemporalGroups[i] = S
    BY <1>3, GroupRanks
  <1> HIDE DEF i
  <1>5. Position(S) \in DOMAIN TemporalGroups /\ TemporalGroups[Position(S)] = S
    BY <1>2, <1>4, OrderOfGroups DEF Position
  <1> QED
    BY <1>5, OrderOfGroups

LEMMA CumulativeCounts ==
    ASSUME Sourced, NEW i \in DOMAIN TemporalGroups
    PROVE  Cumulative(TemporalGroups, i) \in Nat
  <1> DEFINE first == UNION {TemporalGroups[j] : j \in 1..i}
  <1>1. \A j \in 1..i : TemporalGroups[j] \in SUBSET Nodes
    <2> SUFFICES ASSUME NEW j \in 1..i PROVE TemporalGroups[j] \in SUBSET Nodes
      OBVIOUS
    <2>1. j \in 1..Cardinality(Dated)
      BY OrderOfGroups, GroupRanks
    <2> QED
      BY <2>1, OrderOfGroups, GroupsFinite DEF Dated
  <1>2. first \in SUBSET Nodes
    BY <1>1
  <1>3. Cardinality(first) \in Nat
    <2> HIDE DEF first
    <2> QED
      BY <1>2, GroupsFinite, FS_Subset, FS_CardinalityType
  <1> QED
    BY <1>3 DEF Cumulative

LEMMA CutsAreNumbers ==
    ASSUME Sourced, corpus \in Corpora
    PROVE  TrainEnd(TemporalGroups) \in Int /\ ValidationEnd(TemporalGroups) \in Int
  <1> DEFINE N == Cardinality(Dated)
             order == TemporalGroups
             validation == options.train + options.validation
  <1>1. N \in Nat /\ DOMAIN order = 1..N /\ Len(order) = N /\ \A i \in DOMAIN order : Cumulative(order, i) \in Nat
    BY GroupRanks, OrderOfGroups, CumulativeCounts
  <1>2. options.train \in Nat /\ validation \in Nat
    <2>1. options.train \in Nat /\ options.validation \in Nat
      BY SharesAssumption DEF options
    <2> QED
      BY <2>1
  <1> HIDE DEF N, order, validation
  <1>3. CASE N < 3
    <2>1. TrainEnd(order) = 1 /\ ValidationEnd(order) = Max({1, N - 1})
      BY <1>1, <1>3 DEF TrainEnd, ValidationEnd
    <2>2. {1, N - 1} \in SUBSET Int /\ {1, N - 1} # {}
      BY <1>1
    <2>3. IsFiniteSet({1, N - 1})
      <3>1. IsFiniteSet({1})
        BY FS_Singleton
      <3>2. {1, N - 1} = {1} \cup {N - 1}
        OBVIOUS
      <3> QED
        BY <3>1, <3>2, FS_AddElement
    <2>4. Max({1, N - 1}) \in {1, N - 1}
      BY <2>2, <2>3, MaxOf
    <2> QED
      BY <1>1, <2>1, <2>4 DEF order
  <1>4. CASE ~(N < 3)
    <2>1. /\ TrainEnd(order) = Closest(order, options.train, 1, N - 2)
          /\ ValidationEnd(order) = Closest(order, validation, TrainEnd(order) + 1, N - 1)
      BY <1>1, <1>4 DEF TrainEnd, ValidationEnd, validation
    <2>2. /\ 1 \in Nat /\ N - 2 \in Nat /\ N - 1 \in Nat /\ 1 <= N - 2
          /\ 1..(N - 2) \subseteq DOMAIN order /\ Len(order) \in DOMAIN order
      BY <1>1, <1>4
    <2>3. TrainEnd(order) \in 1..(N - 2)
      <3>1. Closest(order, options.train, 1, N - 2) \in 1..(N - 2)
        BY <1>1, <1>2, <2>2, CutWithin, Zenon
      <3> QED
        BY <2>1, <3>1
    <2>4. /\ TrainEnd(order) + 1 \in Nat /\ TrainEnd(order) + 1 <= N - 1
          /\ (TrainEnd(order) + 1)..(N - 1) \subseteq DOMAIN order
      BY <1>1, <1>4, <2>3
    <2>5. ValidationEnd(order) \in (TrainEnd(order) + 1)..(N - 1)
      <3>1. Closest(order, validation, TrainEnd(order) + 1, N - 1) \in (TrainEnd(order) + 1)..(N - 1)
        BY <1>1, <1>2, <2>2, <2>4, CutWithin, Zenon
      <3> QED
        BY <2>1, <3>1
    <2> QED
      BY <2>3, <2>4, <2>5 DEF order
  <1> QED
    BY <1>3, <1>4

\* A dated record is no later than the latest record of any group in a later role.
LEMMA RolesInOrder ==
    ASSUME Sourced, corpus \in Corpora,
           NEW n \in Nodes, NEW m \in Nodes, NEW k \in DOMAIN Roles, NEW l \in DOMAIN Roles, k < l,
           NodeRoles[n] = Roles[k], NodeRoles[m] = Roles[l],
           Content(n).date # None, Temporal(Group(m))
    PROVE  \E x \in Group(m) : Content(x).date # None /\ Content(n).date <= Content(x).date
  <1> DEFINE S == Group(n)
             T == Group(m)
             trainEnd == TrainEnd(TemporalGroups)
             validationEnd == ValidationEnd(TemporalGroups)
             date == Content(n).date
  <1>1. n \in S /\ date \in Dates(S)
    BY DEF Group, Dates
  <1>2. S \in Dated /\ T \in Dated
    BY <1>1 DEF Dated, Groups, Temporal
  <1>3. \A x \in Nodes : Temporal(Group(x)) =>
            NodeRoles[x] = Threshold(Position(Group(x)) - 1, trainEnd, validationEnd)
    BY DEF NodeRoles, Position, Groups
  <1>4. /\ Roles[k] = Threshold(Position(S) - 1, trainEnd, validationEnd)
        /\ Roles[l] = Threshold(Position(T) - 1, trainEnd, validationEnd)
    BY <1>2, <1>3 DEF Dated
  <1>5. trainEnd \in Int /\ validationEnd \in Int
    BY CutsAreNumbers
  <1>6. Position(S) \in Int /\ Position(T) \in Int /\ GroupRank[S] = Position(S) - 1 /\ GroupRank[T] = Position(T) - 1
    BY <1>2, PositionOf
  <1> HIDE DEF S, T, trainEnd, validationEnd, date
  <1>7. Position(S) < Position(T)
    <2> DEFINE i == Position(S)
               j == Position(T)
    <2>1. k \in 1..3 /\ l \in 1..3 /\ Roles[1] = "train" /\ Roles[2] = "validation" /\ Roles[3] = "test"
      BY DEF Roles
    <2>2. i \in Int /\ j \in Int
      BY <1>6
    <2> HIDE DEF i, j
    <2>3. \/ Roles[k] = "train" /\ Roles[l] \in {"validation", "test"}
          \/ Roles[k] = "validation" /\ Roles[l] = "test"
      BY <2>1
    <2>4. i - 1 < j - 1
      BY <1>4, <1>5, <2>2, <2>3 DEF Threshold, i, j
    <2> QED
      BY <2>2, <2>4 DEF i, j
  <1>8. ~Older(T, S)
    <2> SUFFICES ASSUME Older(T, S) PROVE FALSE
      OBVIOUS
    <2>1. GroupRank[T] < GroupRank[S]
      BY <1>2, GroupRanks
    <2> QED
      BY <1>6, <1>7, <2>1
  <1>9. Anchor(S) <= Anchor(T)
    <2>1. Anchor(S) \in Int /\ Anchor(T) \in Int
      BY <1>2, DatesBelowAnchor
    <2>2. ~(Anchor(T) < Anchor(S))
      BY <1>8 DEF Older
    <2> QED
      BY <2>1, <2>2
  <1>10. date <= Anchor(S) /\ date \in Int /\ Anchor(S) \in Int /\ Anchor(T) \in Dates(T) /\ Anchor(T) \in Int
    BY <1>1, <1>2, DatesBelowAnchor
  <1>11. date <= Anchor(T)
    BY <1>9, <1>10
  <1>12. PICK x \in T : Content(x).date = Anchor(T) /\ Anchor(T) # None
    BY <1>10 DEF Dates
  <1> QED
    BY <1>11, <1>12 DEF T, date

-----------------------------------------------------------------------------
(* From the source to the published evidence *)

\* What a reader finds in a preparation of the corpus.
IsSourced(records) ==
    \A r \in Range(records) : r.id \in Range(corpus.rows) /\ Features(r.payload).date \in Int \cup {None}

Sources ==
    /\ read \in 0..Len(corpus.rows)
    /\ BagToSet(spool) \subseteq Range(corpus.rows)
    /\ IsSourced(prepared) /\ IsSourced(bound)

\* A dated record is no later than the latest one of any group with a later role.
RolesFollowDates ==
    \A n, m \in Nodes : \A k, l \in DOMAIN Roles :
        /\ k < l /\ roles[n] = Roles[k] /\ roles[m] = Roles[l]
        /\ Content(n).date # None /\ \E x \in Group(m) : Content(x).date # None
        => \E x \in Group(m) : Content(x).date # None /\ Content(n).date <= Content(x).date

\* The evidence names the documents of whole groups.
EvidenceOfGroups ==
    \A g \in evidence.groups : \E m \in Nodes : g.role = roles[m] /\ Range(g.members) = Docs(Group(m))

Ordered ==
    /\ pass = "replay" /\ (phase = "link" \/ Assigned) => Distinct(Staged)
    /\ pass = "replay" /\ Assigned => RolesFollowDates
    /\ phase \in {"verified", "published"} => EvidenceOfGroups

LEMMA SourcesStay ==
    ASSUME Sources, UNCHANGED <<corpus, read, spool, prepared, bound>>
    PROVE  Sources'
  BY DEF Sources, IsSourced, BagToSet

LEMMA OrderStays ==
    ASSUME Ordered, UNCHANGED <<pass, nodes, group, roles, files, evidence>>,
           Assigned' => Assigned, phase' = "link" => phase = "link",
           phase' \in {"verified", "published"} => phase \in {"verified", "published"}
    PROVE  Ordered'
  <1>1. Distinct(Staged)' <=> Distinct(Staged)
    BY DEF Distinct, Staged
  <1>2. RolesFollowDates' <=> RolesFollowDates
    BY DEF RolesFollowDates, Group, Nodes, Content
  <1>3. EvidenceOfGroups' <=> EvidenceOfGroups
    BY DEF EvidenceOfGroups, Group, Docs, Nodes
  <1> QED
    BY <1>1, <1>2, <1>3 DEF Ordered, Assigned

LEMMA PayloadDated ==
    ASSUME NEW raw, raw.date.at \in Int
    PROVE  Features(Payload(raw)).date \in Int \cup {None}
  <1> DEFINE p == Payload(raw)
  <1>1. p.date = Date(raw.date)
    BY DEF Payload
  <1>2. Features(p).date = IF p.date.eligible THEN p.date.utc ELSE None
    BY DEF Features
  <1>3. Date(raw.date).eligible => Date(raw.date).utc = raw.date.at
    BY DEF Date
  <1> HIDE DEF p
  <1>4. Features(p).date \in Int \cup {None}
    BY <1>1, <1>2, <1>3
  <1> QED
    BY <1>4 DEF p

LEMMA InitOrdered == Init => Sources /\ Ordered
  <1> SUFFICES ASSUME Init PROVE Sources /\ Ordered
    OBVIOUS
  <1>1. corpus.rows \in Seq(DOMAIN corpus.raw \cap Nat)
    BY CorporaAssumption DEF Init, PreparationInit
  <1>2. Len(corpus.rows) \in Nat
    BY <1>1
  <1>3. read \in 0..Len(corpus.rows)
    BY <1>2 DEF Init, PreparationInit
  <1>4. BagToSet(spool) = {}
    BY DEF Init, PreparationInit, EmptyBag, BagToSet, SetToBag
  <1>5. IsSourced(<<>>)
    <2>1. DOMAIN <<>> = {}
      OBVIOUS
    <2>2. Range(<<>>) = {}
      BY <2>1 DEF Range
    <2> QED
      BY <2>2 DEF IsSourced
  <1> QED
    BY <1>3, <1>4, <1>5 DEF Sources, Ordered, Init, PreparationInit, Assigned

\* Rows are read in their order, and a written record is one of them.
LEMMA PrepareSources == Inv /\ Sources /\ Prepare => Sources'
  <1> SUFFICES ASSUME Inv, Sources, Prepare PROVE Sources'
    OBVIOUS
  <1> DEFINE rows == corpus.rows
  <1>1. rows \in Seq(DOMAIN corpus.raw \cap Nat) /\ \A row \in Range(rows) : corpus.raw[row].date.at \in Int
    BY CorporaAssumption DEF Inv, Types
  <1>2. Range(rows) \subseteq Nat
    BY <1>1 DEF Range
  <1>3. UNCHANGED <<corpus, bound>>
    BY DEF Prepare, PreparationNext, Read, WritePrepared, CommitPreparation
  <1>4. CASE Read
    <2>1. read' = read + 1 /\ read # Len(rows) /\ prepared' = prepared
      BY <1>4 DEF Read, AllRead
    <2>2. read' \in 1..Len(rows)
      <3>1. read \in 0..Len(rows) /\ Len(rows) \in Nat
        BY <1>1 DEF Sources
      <3> HIDE DEF rows
      <3> QED
        BY <2>1, <3>1
    <2>3. rows[read + 1] \in Range(rows)
      <3>1. DOMAIN rows = 1..Len(rows)
        BY <1>1
      <3> HIDE DEF rows
      <3> QED
        BY <2>1, <2>2, <3>1 DEF Range
    <2>4. spool' = spool \/ spool' = spool (+) SetToBag({rows[read + 1]})
      BY <1>4 DEF Read
    <2>5. \A row : BagToSet(spool (+) SetToBag({row})) = BagToSet(spool) \cup {row}
      BY DEF BagToSet, SetToBag, (+)
    <2>6. BagToSet(spool') \subseteq Range(rows)
      <3> HIDE DEF rows
      <3>1. BagToSet(spool) \subseteq Range(rows)
        BY DEF Sources, rows
      <3> QED
        BY <2>3, <2>4, <2>5, <3>1
    <2>7. BagToSet(spool)' = BagToSet(spool')
      BY DEF BagToSet
    <2> QED
      BY <1>3, <2>1, <2>2, <2>6, <2>7 DEF Sources, IsSourced
  <1>5. CASE WritePrepared
    <2> DEFINE S == BagToSet(spool)
               k == Cardinality(S)
               record(i) ==
                  LET row == Ascending(S)[i]
                  IN [id |-> row, occurrences |-> spool[row], payload |-> Payload(corpus.raw[row])]
    <2>1. prepared' = [i \in 1..k |-> record(i)] /\ UNCHANGED <<read, spool>>
      BY <1>5 DEF WritePrepared
    <2>2. S \in SUBSET Nat /\ IsFiniteSet(S) /\ S \subseteq Range(rows)
      BY <1>2 DEF Sources, Inv, Types
    <2>3. \A i \in 1..k : Ascending(S)[i] \in Range(rows)
      <3> HIDE DEF S
      <3> QED
        BY <2>2, AscendingRange
    <2>4. \A i \in 1..k : record(i).id \in Range(rows) /\ Features(record(i).payload).date \in Int \cup {None}
      BY <1>1, <2>3, PayloadDated
    <2> HIDE DEF record, k
    <2>5. Range(prepared') = {record(i) : i \in 1..k}
      BY <2>1 DEF Range
    <2>6. \A r \in Range(prepared') : r.id \in Range(rows) /\ Features(r.payload).date \in Int \cup {None}
      BY <2>4, <2>5
    <2>7. IsSourced(prepared)'
      BY <1>3, <2>6 DEF IsSourced
    <2> QED
      BY <1>3, <2>1, <2>7 DEF Sources, IsSourced, BagToSet
  <1>6. CASE CommitPreparation
    BY <1>3, <1>6 DEF CommitPreparation, Sources, IsSourced, BagToSet
  <1> QED
    BY <1>4, <1>5, <1>6 DEF Prepare, PreparationNext

\* The replay knows where its records come from.
LEMMA ReplaySourced ==
    ASSUME Inv, Sources, Ordered, pass = "replay", phase = "link" \/ Assigned
    PROVE  /\ Sourced
           /\ nodes = Spooled(Staged)
           /\ Nodes = DOMAIN Staged /\ \A n \in Nodes : Content(n) = Features(Staged[n].payload)
  <1>1. nodes = Spooled(Staged) /\ Distinct(Staged)
    BY DEF Inv, Ordered
  <1>2. /\ Nodes = DOMAIN Staged
        /\ \A n \in Nodes : nodes[n].id = Staged[n].id /\ Content(n) = Features(Staged[n].payload)
    BY <1>1 DEF Nodes, Content, Spooled
  <1>3. Staged \in Seq(Range(bound))
    BY StagedAt DEF Inv
  <1>4. \A n \in Nodes : Staged[n] \in Range(bound)
    BY <1>2, <1>3
  <1>5. Range(corpus.rows) \subseteq Documents
    BY DEF Documents, Inv, Types
  <1>6. \A n \in Nodes : nodes[n].id \in Documents /\ Content(n).date \in Int \cup {None}
    BY <1>2, <1>4, <1>5 DEF Sources, IsSourced
  <1>7. \A n, m \in Nodes : n # m => nodes[n].id # nodes[m].id
    BY <1>1, <1>2 DEF Distinct
  <1>8. nodes \in Seq(Range(nodes))
    BY DEF Inv, Types, IsFile
  <1> QED
    BY <1>1, <1>2, <1>6, <1>7, <1>8 DEF Sourced

LEMMA AssignOrdered == Inv /\ Sources /\ Ordered /\ Assign => Ordered'
  <1> SUFFICES ASSUME Inv, Sources, Ordered, Assign PROVE Ordered'
    OBVIOUS
  <1>1. /\ phase = "link" /\ phase' = "assigned" /\ roles' = NodeRoles
        /\ UNCHANGED <<corpus, pass, nodes, group, files>>
    BY DEF Assign
  <1>2. Distinct(Staged)' <=> Distinct(Staged)
    BY <1>1 DEF Distinct, Staged
  <1>3. ASSUME pass = "replay" PROVE RolesFollowDates'
    <2>1. Sourced /\ corpus \in Corpora
      BY <1>1, <1>3, ReplaySourced DEF Inv, Types
    <2>2. Nodes' = Nodes /\ \A n : Content(n)' = Content(n) /\ Group(n)' = Group(n)
      BY <1>1 DEF Nodes, Content, Group
    <2>3. \A m \in Nodes : (\E x \in Group(m) : Content(x).date # None) => Temporal(Group(m))
      BY DEF Temporal, Dates
    <2>4. \A n, m \in Nodes : \A k, l \in DOMAIN Roles :
             /\ k < l /\ NodeRoles[n] = Roles[k] /\ NodeRoles[m] = Roles[l]
             /\ Content(n).date # None /\ Temporal(Group(m))
             => \E x \in Group(m) : Content(x).date # None /\ Content(n).date <= Content(x).date
      BY <2>1, RolesInOrder
    <2> QED
      BY <1>1, <2>2, <2>3, <2>4 DEF RolesFollowDates
  <1> QED
    BY <1>1, <1>2, <1>3 DEF Ordered

\* What the evidence that agrees says of the groups.
LEMMA CompareOrdered == Inv /\ Sources /\ Ordered /\ Compare => Ordered'
  <1> SUFFICES ASSUME Inv, Sources, Ordered, Compare PROVE Ordered'
    OBVIOUS
  <1>1. /\ phase = "assigned" /\ pass = "replay" /\ phase' \in {"verified", "differs"}
        /\ phase' = "verified" => ByDocument(Evidence) = evidence
        /\ UNCHANGED <<corpus, pass, nodes, group, roles, files, evidence>>
    BY DEF Compare, Agrees, spoolVars
  <1>2. Sourced
    BY <1>1, ReplaySourced DEF Assigned
  <1>3. ASSUME phase' = "verified" PROVE EvidenceOfGroups
    <2>1. evidence.groups = {GroupPayload(S) : S \in Groups}
      <3>1. ByDocument(Evidence).groups = Evidence.groups
        BY DEF ByDocument, Evidence
      <3>2. Evidence.groups = {GroupPayload(S) : S \in Groups}
        BY DEF Evidence
      <3> QED
        BY <1>1, <1>3, <3>1, <3>2
    <2> SUFFICES ASSUME NEW S \in Groups
                 PROVE  \E m \in Nodes : /\ GroupPayload(S).role = roles[m]
                                         /\ Range(GroupPayload(S).members) = Docs(Group(m))
      BY <2>1 DEF EvidenceOfGroups
    <2>2. S \in SUBSET Nodes /\ IsFiniteSet(S) /\ S # {}
      <3>1. S # {}
        BY DEF Groups, Group
      <3> QED
        BY <1>2, <3>1, GroupsFinite
    <2>3. S \in SUBSET Nat
      BY <1>2, <2>2 DEF Sourced, Nodes
    <2>4. Min(S) \in S
      BY <2>2, <2>3, MinOf
    <2>5. Group(Min(S)) = S
      BY <2>4 DEF Groups, Group
    <2> DEFINE members == [i \in 1..Cardinality(S) |-> nodes[Ascending(S)[i]].id]
    <2>6. GroupPayload(S).role = roles[Min(S)] /\ GroupPayload(S).members = members
      BY DEF GroupPayload
    <2>7. Range(members) = Docs(S)
      <3>1. Range(members) = {nodes[Ascending(S)[i]].id : i \in 1..Cardinality(S)}
        BY DEF Range
      <3>2. /\ \A i \in 1..Cardinality(S) : Ascending(S)[i] \in S
            /\ \A n \in S : \E i \in 1..Cardinality(S) : Ascending(S)[i] = n
        BY <2>2, <2>3, AscendingRange
      <3> HIDE DEF members
      <3> QED
        BY <3>1, <3>2 DEF Docs
    <2> QED
      BY <2>2, <2>4, <2>5, <2>6, <2>7
  <1>4. EvidenceOfGroups' <=> EvidenceOfGroups
    BY <1>1 DEF EvidenceOfGroups, Group, Docs, Nodes
  <1>5. Distinct(Staged)' <=> Distinct(Staged)
    BY <1>1 DEF Distinct, Staged
  <1>6. RolesFollowDates' <=> RolesFollowDates
    BY <1>1 DEF RolesFollowDates, Group, Nodes, Content
  <1> QED
    BY <1>1, <1>3, <1>4, <1>5, <1>6 DEF Ordered, Assigned

LEMMA StartReplayOrdered == Ordered /\ StartReplay => Ordered'
  <1> SUFFICES ASSUME Ordered, StartReplay PROVE Ordered'
    OBVIOUS
  <1>1. UNCHANGED files /\ ((phase' = "link" /\ Distinct(Staged)) \/ phase' = "differs")
    BY DEF StartReplay, Ingest, Stop
  <1>2. Distinct(Staged)' <=> Distinct(Staged)
    BY <1>1 DEF Distinct, Staged
  <1> QED
    BY <1>1, <1>2 DEF Ordered, Assigned

LEMMA StepOrdered == Inv /\ Sources /\ Ordered /\ [Next]_vars => Sources' /\ Ordered'
  <1> SUFFICES ASSUME Inv, Sources, Ordered, [Next]_vars PROVE Sources' /\ Ordered'
    OBVIOUS
  <1>1. CASE Prepare
    <2>1. phase' \notin {"link", "assigned", "verified", "published"}
      BY <1>1 DEF Prepare, PreparationNext, Read, WritePrepared, CommitPreparation
    <2> QED
      BY <1>1, <2>1, PrepareSources DEF Ordered, Assigned
  <1>2. CASE Load
    <2>1. phase' \in {"bound", "failed"} /\ bound' = prepared /\ UNCHANGED <<corpus, read, spool, prepared>>
      BY <1>2 DEF Load
    <2> QED
      BY <2>1 DEF Sources, IsSourced, BagToSet, Ordered, Assigned
  <1>3. CASE Swap
    <2>1. UNCHANGED <<corpus, phase, read, spool, prepared, bound, pass, nodes, group, roles, files, evidence>>
      BY <1>3 DEF Swap, preparationVars, spoolVars
    <2> QED
      BY <2>1, SourcesStay, OrderStays DEF Assigned
  <1>4. CASE IngestPrepared
    <2>1. /\ phase = "bound" /\ phase' \in {"link", "refused"}
          /\ UNCHANGED <<corpus, read, spool, prepared, bound, pass>>
      BY <1>4 DEF IngestPrepared, Ingest, Stop
    <2>2. pass = "build"
      BY <2>1 DEF Inv, Types
    <2> QED
      BY <2>1, <2>2, SourcesStay DEF Ordered, Assigned
  <1>5. CASE NextFamily
    <2>1. /\ phase = "link" /\ phase' \in {"link", "refused"}
          /\ UNCHANGED <<corpus, read, spool, prepared, bound, pass, nodes, group, roles, files, evidence>>
      BY <1>5 DEF NextFamily, Stop, spoolVars
    <2> QED
      BY <2>1, SourcesStay, OrderStays DEF Assigned
  <1>6. CASE Link
    <2>1. /\ phase = "link" /\ phase' = "link"
          /\ UNCHANGED <<corpus, read, spool, prepared, bound, pass, files>>
      BY <1>6 DEF Link, preparationVars
    <2>2. Distinct(Staged)' <=> Distinct(Staged)
      BY <2>1 DEF Distinct, Staged
    <2> QED
      BY <2>1, <2>2, SourcesStay DEF Ordered, Assigned
  <1>7. CASE Assign
    <2>1. UNCHANGED <<corpus, read, spool, prepared, bound>>
      BY <1>7 DEF Assign
    <2> QED
      BY <1>7, <2>1, SourcesStay, AssignOrdered
  <1>8. CASE Decide
    <2>1. /\ phase' \in {"refused", "decided", "unfilled"}
          /\ UNCHANGED <<corpus, read, spool, prepared, bound>>
      BY <1>8 DEF Decide
    <2> QED
      BY <2>1, SourcesStay DEF Ordered, Assigned
  <1>9. CASE WriteRoles
    <2>1. phase' \in {"staged", "changed"} /\ UNCHANGED <<corpus, read, spool, prepared, bound>>
      BY <1>9 DEF WriteRoles
    <2> QED
      BY <2>1, SourcesStay DEF Ordered, Assigned
  <1>10. CASE StartReplay
    <2>1. UNCHANGED <<corpus, read, spool, prepared, bound>>
      BY <1>10 DEF StartReplay
    <2> QED
      BY <1>10, <2>1, SourcesStay, StartReplayOrdered
  <1>11. CASE Compare
    <2>1. UNCHANGED <<corpus, read, spool, prepared, bound>>
      BY <1>11 DEF Compare
    <2> QED
      BY <1>11, <2>1, SourcesStay, CompareOrdered
  <1>12. CASE Publish
    <2>1. /\ phase = "verified" /\ phase' = "published"
          /\ UNCHANGED <<corpus, read, spool, prepared, bound, pass, nodes, group, roles, files, evidence>>
      BY <1>12 DEF Publish, spoolVars
    <2> QED
      BY <2>1, SourcesStay, OrderStays DEF Assigned
  <1>13. CASE UNCHANGED vars
    <2>1. UNCHANGED <<corpus, phase, read, spool, prepared, bound, pass, nodes, group, roles, files, evidence>>
      BY <1>13 DEF vars, preparationVars, spoolVars
    <2> QED
      BY <2>1, SourcesStay, OrderStays DEF Assigned
  <1> QED
    BY <1>1, <1>2, <1>3, <1>4, <1>5, <1>6, <1>7, <1>8, <1>9, <1>10, <1>11, <1>12, <1>13 DEF Next

\* The records of the roles are in the order of their dates, for every corpus with dates that are
\* numbers and every hash that separates its groups.
THEOREM OrderHolds == Spec => [](Sources /\ Ordered)
  <1>1. Init => Sources /\ Ordered
    BY InitOrdered
  <1>2. Inv /\ (Sources /\ Ordered) /\ [Next]_vars => (Sources /\ Ordered)'
    BY StepOrdered
  <1> QED
    BY <1>1, <1>2, SplitInvariant, PTL DEF Spec

\* Nothing from the future of a later role is in an earlier one: the groups are ordered by their
\* latest record, cut twice, and the published files and evidence say so (the temporal policy of
\* _assign_components, 1017-1044).
THEOREM FutureAhead == Spec => []FutureStaysAhead
  <1>1. Inv /\ Sources /\ Ordered => FutureStaysAhead
    <2> SUFFICES ASSUME Inv, Sources, Ordered, Published PROVE FutureStaysAhead
      BY DEF FutureStaysAhead
    <2> DEFINE dateOf(d) == CHOOSE i \in DOMAIN Staged : Staged[i].id = d
               datesOf(g) == {Features(Staged[dateOf(d)].payload).date : d \in Range(g.members)} \ {None}
    <2>1. pass = "replay" /\ Assigned /\ \A n \in Nodes : roles[n] = Observed(n)
      BY DEF Published, Inv, Assigned
    <2>2. RolesFollowDates /\ EvidenceOfGroups /\ Distinct(Staged)
      BY <2>1 DEF Ordered, Published
    <2>3. /\ Sourced /\ nodes = Spooled(Staged) /\ Nodes = DOMAIN Staged
          /\ \A n \in Nodes : Content(n) = Features(Staged[n].payload)
      BY <2>1, ReplaySourced
    <2>4. \A x \in Nodes : dateOf(nodes[x].id) = x
      <3>1. \A x \in Nodes : nodes[x].id = Staged[x].id
        BY <2>3 DEF Spooled
      <3>2. \A x, y \in Nodes : x # y => Staged[x].id # Staged[y].id
        BY <2>2, <2>3 DEF Distinct
      <3> QED
        BY <2>3, <3>1, <3>2
    <2> SUFFICES ASSUME NEW k \in DOMAIN Roles, NEW l \in DOMAIN Roles, k < l,
                        NEW i \in DOMAIN files[Roles[k]], NEW g \in evidence.groups,
                        g.role = Roles[l], Features(files[Roles[k]][i].payload).date # None, datesOf(g) # {}
                 PROVE  Features(files[Roles[k]][i].payload).date <= Max(datesOf(g))
      BY DEF FutureStaysAhead
    <2> DEFINE n == Before(Roles[k]) + i
    <2>5. n \in Nodes /\ Staged[n] = files[Roles[k]][i] /\ roles[n] = Roles[k]
      <3>1. Roles[k] \in Range(Roles)
        BY DEF Range
      <3> QED
        BY <2>1, <2>3, <3>1, StagedAt DEF Inv
    <2> HIDE DEF n, dateOf
    <2>6. PICK m \in Nodes : g.role = roles[m] /\ Range(g.members) = Docs(Group(m))
      BY <2>2 DEF EvidenceOfGroups
    <2> DEFINE S == Group(m)
    <2>7. S \in Groups /\ S \subseteq Nodes
      BY DEF Groups, Group
    <2>8. datesOf(g) = Dates(S)
      <3>1. Range(g.members) = {nodes[x].id : x \in S}
        BY <2>6 DEF Docs
      <3>2. \A x \in S : Features(Staged[dateOf(nodes[x].id)].payload).date = Content(x).date
        BY <2>3, <2>4, <2>7
      <3> HIDE DEF S
      <3> QED
        BY <3>1, <3>2 DEF Dates
    <2>9. S \in Dated
      BY <2>7, <2>8 DEF Dated, Temporal
    <2>10. PICK x \in S : Content(x).date # None /\ Content(n).date <= Content(x).date
      <3>1. \E x \in S : Content(x).date # None
        BY <2>8 DEF Dates
      <3>2. Content(n).date # None
        BY <2>3, <2>5
      <3> QED
        BY <2>2, <2>5, <2>6, <3>1, <3>2 DEF RolesFollowDates
    <2>11. Content(x).date \in Dates(S)
      BY <2>10 DEF Dates
    <2>12. Content(x).date <= Max(Dates(S)) /\ Content(x).date \in Int /\ Max(Dates(S)) \in Int
      BY <2>3, <2>9, <2>11, DatesBelowAnchor DEF Anchor
    <2>13. Content(n).date \in Int
      BY <2>3, <2>5 DEF Sourced
    <2> HIDE DEF S, datesOf
    <2>14. Content(n).date <= Max(Dates(S))
      BY <2>10, <2>12, <2>13
    <2> QED
      BY <2>3, <2>5, <2>8, <2>14
  <1> QED
    BY <1>1, SplitInvariant, OrderHolds, PTL

-----------------------------------------------------------------------------
(* No row is lost *)

\* Merging loses nothing and adds nothing.
LEMMA ByIdRange ==
    ASSUME NEW records, records \in Seq(Range(records)), \A r \in Range(records) : r.id \in Int,
           Distinct(records)
    PROVE  Range(ById(records)) = Range(records)
  <1> DEFINE S == Range(records)
             before == [r \in S |-> {s \in S : s.id < r.id}]
             number == [r \in S |-> Cardinality({s \in S : s.id <= r.id})]
             k == Len(records)
  <1>1. k \in Nat /\ DOMAIN records = 1..k /\ \A i \in 1..k : records[i] \in S
    BY DEF Range
  <1>2. \A i, j \in 1..k : i # j => records[i].id # records[j].id
    BY <1>1 DEF Distinct
  <1>3. \A r \in S : \E i \in 1..k : records[i] = r
    BY <1>1 DEF Range
  <1>4. \A r, s \in S : r # s => r.id # s.id
    <2> SUFFICES ASSUME NEW r \in S, NEW s \in S, r # s PROVE r.id # s.id
      OBVIOUS
    <2>1. PICK i \in 1..k, j \in 1..k : records[i] = r /\ records[j] = s
      BY <1>3
    <2> QED
      BY <1>2, <2>1
  <1>5. DOMAIN ById(records) = 1..k /\ \A i \in 1..k : ById(records)[i] = CHOOSE r \in S : number[r] = i
    BY <1>1 DEF ById
  <1>6. IsFiniteSet(S) /\ Cardinality(S) = k
    <2>1. records \in Bijection(1..k, S)
      <3>1. records \in [1..k -> S]
        BY <1>1
      <3> HIDE DEF S, k
      <3> QED
        BY <1>2, <1>3, <3>1 DEF Bijection, Injection, Surjection, IsInjective
    <2>2. IsFiniteSet(1..k) /\ Cardinality(1..k) = k
      BY <1>1, FS_Interval
    <2> HIDE DEF S, k
    <2> QED
      BY <2>1, <2>2, FS_Bijection DEF ExistsBijection
  <1>7. \A r \in S : number[r] = Cardinality(before[r] \cup {r})
    <2> SUFFICES ASSUME NEW r \in S PROVE {s \in S : s.id <= r.id} = before[r] \cup {r}
      OBVIOUS
    <2>1. \A s \in S : s.id <= r.id <=> (s.id < r.id \/ s = r)
      BY <1>4
    <2>2. before[r] = {s \in S : s.id < r.id}
      OBVIOUS
    <2> HIDE DEF S, before
    <2> QED
      BY <2>1, <2>2
  <1>8. IsOrder(S, before)
    <2> DEFINE id == [r \in S |-> r.id]
    <2>1. \A r, s \in S : before[r] \in SUBSET S /\ (s \in before[r] <=> id[s] < id[r])
      OBVIOUS
    <2>2. \A r, s \in S : id[r] \in Int /\ (r # s => id[r] # id[s])
      BY <1>4
    <2> HIDE DEF S, before, id
    <2>3. \A r, s, t \in S : r \in before[s] /\ s \in before[t] => r \in before[t]
      BY <2>1, <2>2
    <2>4. \A r, s \in S : r = s \/ r \in before[s] \/ s \in before[r]
      BY <2>1, <2>2
    <2>5. \A r \in S : r \notin before[r]
      BY <2>1, <2>2
    <2> QED
      BY <2>1, <2>3, <2>4, <2>5 DEF IsOrder
  <1> HIDE DEF S, before, number, k
  <1>9. IsNumbering(S, number)
    BY <1>6, <1>7, <1>8, Numbered
  <1>10. \A i \in 1..k : ById(records)[i] \in S /\ number[ById(records)[i]] = i
    BY <1>5, <1>6, <1>9 DEF IsNumbering
  <1>11. \A r \in S : \E i \in 1..k : ById(records)[i] = r
    BY <1>6, <1>9, <1>10 DEF IsNumbering
  <1>12. Range(ById(records)) = S
    BY <1>5, <1>10, <1>11 DEF Range
  <1> QED
    BY <1>12 DEF S

\* How often a bag has a row.
Copies(row, bag) == IF BagIn(row, bag) THEN bag[row] ELSE 0

IsCount(bag) == \A row \in BagToSet(bag) : bag[row] \in Nat

\* The records are those of the spool, with their counts.
Recorded(records) ==
    /\ \A r \in Range(records) : r.id \in BagToSet(spool) /\ r.occurrences = spool[r.id]
    /\ \A row \in BagToSet(spool) : \E r \in Range(records) : r.id = row

\* Every row is accounted for from the source to the role files that are replayed.
Counted ==
    /\ IsCount(items) /\ IsCount(spool) /\ IsCount(rejections)
    /\ \A row : Copies(row, items) = Copies(row, rejections) + Copies(row, spool)
    /\ phase \in {"written", "prepared"} => Recorded(prepared)
    /\ phase \notin {"read", "written", "prepared", "failed"} => Recorded(bound)
    /\ pass = "replay" /\ (phase = "link" \/ Assigned) => Range(Staged) = Range(bound)

\* A row that is counted.
LEMMA CountOne ==
    ASSUME NEW bag, NEW row, IsCount(bag)
    PROVE  /\ IsCount(bag (+) SetToBag({row}))
           /\ \A other : Copies(other, bag (+) SetToBag({row})) =
                            Copies(other, bag) + IF other = row THEN 1 ELSE 0
  <1> DEFINE more == bag (+) SetToBag({row})
  <1>1. BagToSet(more) = BagToSet(bag) \cup {row}
    BY DEF BagToSet, SetToBag, (+)
  <1>2. \A other \in BagToSet(more) : more[other] = Copies(other, bag) + IF other = row THEN 1 ELSE 0
    BY <1>1 DEF BagToSet, SetToBag, (+), Copies, BagIn
  <1>3. \A other : Copies(other, bag) \in Nat
    BY DEF Copies, BagIn, IsCount
  <1> HIDE DEF more
  <1>4. IsCount(more)
    <2> SUFFICES ASSUME NEW other \in BagToSet(more) PROVE more[other] \in Nat
      BY DEF IsCount
    <2>1. Copies(other, bag) \in Nat
      BY <1>3
    <2> QED
      BY <1>2, <2>1
  <1>5. \A other : Copies(other, more) = Copies(other, bag) + IF other = row THEN 1 ELSE 0
    <2> SUFFICES ASSUME NEW other
                 PROVE  Copies(other, more) = Copies(other, bag) + IF other = row THEN 1 ELSE 0
      OBVIOUS
    <2>1. CASE other \in BagToSet(more)
      BY <1>2, <2>1 DEF Copies, BagIn
    <2>2. CASE other \notin BagToSet(more)
      <3>1. other # row /\ Copies(other, more) = 0 /\ Copies(other, bag) = 0
        BY <1>1, <2>2 DEF Copies, BagIn
      <3> QED
        BY <3>1
    <2> QED
      BY <2>1, <2>2
  <1> QED
    BY <1>4, <1>5 DEF more

LEMMA SumOfNone ==
    ASSUME NEW f, DOMAIN f = {}
    PROVE  SumFunction(f) = 0
  BY DEF SumFunction, SumFunctionOnSet, FoldFunctionOnSet, MapThenFoldSet

LEMMA SumOfOne ==
    ASSUME NEW f, NEW x, DOMAIN f = {x}, f[x] \in Int
    PROVE  SumFunction(f) = f[x]
  <1> DEFINE body(g) == [s \in SUBSET {x} |->
                            IF s = {} THEN 0 ELSE LET y == CHOOSE y \in s : TRUE IN f[y] + g[s \ {y}]]
             sum == [s \in SUBSET {x} |-> IF s = {} THEN 0 ELSE f[x]]
             iter == CHOOSE g : g = body(g)
             one == CHOOSE y \in {x} : TRUE
  <1>1. sum = body(sum)
    OBVIOUS
  <1>2. iter = body(iter)
    BY <1>1
  <1>3. iter[{}] = 0
    BY <1>2
  <1>4. iter[{x}] = f[one] + iter[{x} \ {one}]
    <2> HIDE DEF iter
    <2>1. {x} \in SUBSET {x} /\ {x} # {}
      OBVIOUS
    <2> QED
      BY <1>2, <2>1
  <1>5. one = x
    OBVIOUS
  <1>6. iter[{x}] = f[x]
    <2> HIDE DEF iter, one
    <2>1. {x} \ {one} = {}
      BY <1>5
    <2>2. iter[{x}] = f[x] + 0
      BY <1>3, <1>4, <1>5, <2>1
    <2>3. \A v \in Int : v + 0 = v
      OBVIOUS
    <2> QED
      BY <2>2, <2>3
  <1> QED
    BY <1>6 DEF SumFunction, SumFunctionOnSet, FoldFunctionOnSet, MapThenFoldSet

LEMMA InitCounted == Init => Counted
  <1> SUFFICES ASSUME Init PROVE Counted
    OBVIOUS
  <1>1. BagToSet(EmptyBag) = {}
    BY DEF EmptyBag, BagToSet, SetToBag
  <1>2. \A row : Copies(row, EmptyBag) = 0
    BY <1>1 DEF Copies, BagIn
  <1>3. IsCount(EmptyBag)
    BY <1>1 DEF IsCount
  <1> HIDE DEF EmptyBag
  <1>4. \A row : Copies(row, items) = Copies(row, rejections) + Copies(row, spool)
    BY <1>2 DEF Init, PreparationInit
  <1> QED
    BY <1>3, <1>4 DEF Counted, Init, PreparationInit, Assigned

LEMMA PrepareCounted == Inv /\ Sources /\ Counted /\ Prepare => Counted'
  <1> SUFFICES ASSUME Inv, Sources, Counted, Prepare PROVE Counted'
    OBVIOUS
  <1>1. phase \in {"read", "written"} /\ phase' \in {"read", "written", "prepared", "failed"}
    BY DEF Prepare, PreparationNext, Read, WritePrepared, CommitPreparation
  <1>2. ~Assigned' /\ phase' # "link"
    BY <1>1 DEF Assigned
  <1>3. CASE Read
    <2> DEFINE row == corpus.rows[read + 1]
    <2>1. /\ phase' = "read"
          /\ items' = items (+) SetToBag({row})
          /\ \/ rejections' = rejections (+) SetToBag({row}) /\ spool' = spool
             \/ spool' = spool (+) SetToBag({row}) /\ rejections' = rejections
      BY <1>3 DEF Read
    <2>2. /\ IsCount(items) /\ IsCount(spool) /\ IsCount(rejections)
          /\ \A other : Copies(other, items) = Copies(other, rejections) + Copies(other, spool)
      BY DEF Counted
    <2> HIDE DEF row
    <2>3. IsCount(items') /\ IsCount(spool') /\ IsCount(rejections')
      BY <2>1, <2>2, CountOne
    <2>4. \A bag, other : IsCount(bag) => Copies(other, bag) \in Nat
      BY DEF Copies, BagIn, IsCount
    <2>5. \A other : Copies(other, items') = Copies(other, rejections') + Copies(other, spool')
      <3> SUFFICES ASSUME NEW other
                   PROVE  Copies(other, items') = Copies(other, rejections') + Copies(other, spool')
        OBVIOUS
      <3> DEFINE new == IF other = row THEN 1 ELSE 0
                 i == Copies(other, items)
                 r == Copies(other, rejections)
                 s == Copies(other, spool)
      <3>1. i \in Nat /\ r \in Nat /\ s \in Nat /\ i = r + s
        BY <2>2, <2>4
      <3>2. Copies(other, items') = i + new
        BY <2>1, <2>2, CountOne
      <3>3. \/ Copies(other, rejections') = r + new /\ Copies(other, spool') = s
            \/ Copies(other, spool') = s + new /\ Copies(other, rejections') = r
        <4>1. CASE rejections' = rejections (+) SetToBag({row}) /\ spool' = spool
          BY <2>2, <4>1, CountOne
        <4>2. CASE spool' = spool (+) SetToBag({row}) /\ rejections' = rejections
          BY <2>2, <4>2, CountOne
        <4> QED
          BY <2>1, <4>1, <4>2
      <3>4. new \in Nat
        OBVIOUS
      <3> HIDE DEF new, i, r, s
      <3> QED
        BY <3>1, <3>2, <3>3, <3>4
    <2> QED
      BY <1>2, <2>1, <2>3, <2>5 DEF Counted, IsCount, Copies, BagIn, BagToSet
  <1>4. CASE WritePrepared
    <2> DEFINE S == BagToSet(spool)
               k == Cardinality(S)
               record(i) ==
                  LET row == Ascending(S)[i]
                  IN [id |-> row, occurrences |-> spool[row], payload |-> Payload(corpus.raw[row])]
    <2>1. phase' = "written" /\ prepared' = [i \in 1..k |-> record(i)] /\ UNCHANGED <<items, spool, rejections>>
      BY <1>4 DEF WritePrepared
    <2>2. S \in SUBSET Nat /\ IsFiniteSet(S)
      <3>1. Range(corpus.rows) \subseteq Nat
        <4>1. corpus.rows \in Seq(DOMAIN corpus.raw \cap Nat)
          BY CorporaAssumption DEF Inv, Types
        <4> QED
          BY <4>1 DEF Range
      <3> QED
        BY <3>1 DEF Sources, Inv, Types
    <2>3. /\ \A i \in 1..k : Ascending(S)[i] \in S
          /\ \A n \in S : \E i \in 1..k : Ascending(S)[i] = n
      <3> HIDE DEF S
      <3> QED
        BY <2>2, AscendingRange
    <2>4. \A i : record(i).id = Ascending(S)[i] /\ record(i).occurrences = spool[Ascending(S)[i]]
      OBVIOUS
    <2> HIDE DEF S, k, record
    <2>5. Range(prepared') = {record(i) : i \in 1..k}
      BY <2>1 DEF Range
    <2>6. /\ \A r \in Range(prepared') : r.id \in S /\ r.occurrences = spool[r.id]
          /\ \A row \in S : \E r \in Range(prepared') : r.id = row
      BY <2>3, <2>4, <2>5
    <2>7. Recorded(prepared)'
      BY <2>1, <2>6 DEF Recorded, BagToSet, S
    <2> QED
      BY <1>2, <2>1, <2>7 DEF Counted, IsCount, Copies, BagIn, BagToSet
  <1>5. CASE CommitPreparation
    <2>1. phase = "written" /\ phase' \in {"prepared", "failed"} /\ UNCHANGED <<items, spool, rejections, prepared>>
      BY <1>5 DEF CommitPreparation
    <2> QED
      BY <1>2, <2>1 DEF Counted, IsCount, Copies, BagIn, BagToSet, Recorded
  <1> QED
    BY <1>3, <1>4, <1>5 DEF Prepare, PreparationNext

\* What is merged is what is bound.
LEMMA StartReplayCounted == Inv /\ Sources /\ Counted /\ StartReplay => Counted'
  <1> SUFFICES ASSUME Inv, Sources, Counted, StartReplay PROVE Counted'
    OBVIOUS
  <1>1. /\ phase = "staged" /\ UNCHANGED <<items, spool, rejections, bound, files>>
        /\ \/ phase' = "link" /\ Distinct(Staged) /\ ById(Staged) = bound
           \/ phase' = "differs"
    BY DEF StartReplay, Ingest, Stop, SameBytes
  <1>2. Recorded(bound)'
    BY <1>1 DEF Counted, Recorded, BagToSet
  <1>3. Staged' = Staged
    BY <1>1 DEF Staged
  <1>4. CASE phase' = "link"
    <2>1. Staged \in Seq(Range(bound))
      BY StagedAt DEF Inv
    <2>2. Staged \in Seq(Range(Staged)) /\ Range(Staged) \subseteq Range(bound)
      <3> DEFINE t == Staged
      <3>1. t \in Seq(Range(bound))
        BY <2>1
      <3> HIDE DEF t
      <3>2. \A i \in 1..Len(t) : t[i] \in Range(t) /\ t[i] \in Range(bound)
        BY <3>1 DEF Range
      <3>3. t \in Seq(Range(t)) /\ Range(t) \subseteq Range(bound)
        BY <3>1, <3>2 DEF Range
      <3> QED
        BY <3>3 DEF t
    <2>3. \A r \in Range(Staged) : r.id \in Int
      <3>1. corpus.rows \in Seq(DOMAIN corpus.raw \cap Nat)
        BY CorporaAssumption DEF Inv, Types
      <3>2. Range(corpus.rows) \subseteq Nat
        BY <3>1 DEF Range
      <3> QED
        BY <2>2, <3>2 DEF Sources, IsSourced
    <2> DEFINE t == Staged
    <2>4. Range(ById(t)) = Range(t)
      <3>1. t \in Seq(Range(t)) /\ (\A r \in Range(t) : r.id \in Int) /\ Distinct(t)
        BY <1>1, <1>4, <2>2, <2>3
      <3> HIDE DEF t
      <3> QED
        BY <3>1, ByIdRange
    <2>5. Range(Staged)' = Range(bound)'
      BY <1>1, <1>3, <1>4, <2>4 DEF Range
    <2> QED
      BY <1>1, <1>2, <1>4, <2>5 DEF Counted, IsCount, Copies, BagIn, BagToSet, Assigned
  <1>5. CASE phase' = "differs"
    BY <1>1, <1>2, <1>5 DEF Counted, IsCount, Copies, BagIn, BagToSet, Assigned
  <1> QED
    BY <1>1, <1>4, <1>5

\* From then on nothing is counted again.
LEMMA CountedStays ==
    ASSUME Counted, UNCHANGED <<items, spool, rejections, prepared, bound>>,
           phase' \in {"written", "prepared"} => phase \in {"written", "prepared"},
           phase' \notin {"read", "written", "prepared", "failed"} =>
               phase \notin {"read", "written", "prepared", "failed"},
           (pass = "replay" /\ (phase = "link" \/ Assigned))' =>
               pass = "replay" /\ (phase = "link" \/ Assigned) /\ UNCHANGED files
    PROVE  Counted'
  <1>1. UNCHANGED files => Staged' = Staged
    BY DEF Staged
  <1>2. Recorded(prepared)' <=> Recorded(prepared)
    BY DEF Recorded, BagToSet, Range
  <1>3. Recorded(bound)' <=> Recorded(bound)
    BY DEF Recorded, BagToSet, Range
  <1>4. (pass = "replay" /\ (phase = "link" \/ Assigned))' => Range(Staged)' = Range(bound)'
    BY <1>1 DEF Counted, Range
  <1>5. /\ (IsCount(items) /\ IsCount(spool) /\ IsCount(rejections))'
        /\ (\A row : Copies(row, items) = Copies(row, rejections) + Copies(row, spool))'
    BY DEF Counted, IsCount, Copies, BagIn, BagToSet
  <1> QED
    BY <1>2, <1>3, <1>4, <1>5 DEF Counted

LEMMA StepCounted == Inv /\ Sources /\ Counted /\ [Next]_vars => Counted'
  <1> SUFFICES ASSUME Inv, Sources, Counted, [Next]_vars PROVE Counted'
    OBVIOUS
  <1>1. CASE Prepare
    BY <1>1, PrepareCounted
  <1>2. CASE Load
    <2>1. /\ phase = "prepared" /\ phase' \in {"bound", "failed"} /\ bound' = prepared
          /\ UNCHANGED <<items, spool, rejections, pass>>
      BY <1>2 DEF Load
    <2>2. Recorded(bound)' <=> Recorded(prepared)
      BY <2>1 DEF Recorded, BagToSet, Range
    <2> QED
      BY <2>1, <2>2 DEF Counted, IsCount, Copies, BagIn, BagToSet, Assigned
  <1>3. CASE Swap
    <2>1. UNCHANGED <<phase, items, spool, rejections, prepared, bound, pass, files>>
      BY <1>3 DEF Swap, preparationVars
    <2> QED
      BY <2>1, CountedStays DEF Assigned
  <1>4. CASE IngestPrepared
    <2>1. /\ phase = "bound" /\ phase' \in {"link", "refused"}
          /\ UNCHANGED <<items, spool, rejections, prepared, bound, pass>>
      BY <1>4 DEF IngestPrepared, Ingest, Stop
    <2>2. pass = "build"
      BY <2>1 DEF Inv, Types
    <2> QED
      BY <2>1, <2>2, CountedStays
  <1>5. CASE NextFamily
    <2>1. /\ phase = "link" /\ phase' \in {"link", "refused"}
          /\ UNCHANGED <<items, spool, rejections, prepared, bound, pass, files>>
      BY <1>5 DEF NextFamily, Stop
    <2> QED
      BY <2>1, CountedStays DEF Assigned
  <1>6. CASE Link
    <2>1. phase = "link" /\ UNCHANGED <<phase, items, spool, rejections, prepared, bound, pass, files>>
      BY <1>6 DEF Link, preparationVars
    <2> QED
      BY <2>1, CountedStays DEF Assigned
  <1>7. CASE Assign
    <2>1. /\ phase = "link" /\ phase' = "assigned"
          /\ UNCHANGED <<items, spool, rejections, prepared, bound, pass, files>>
      BY <1>7 DEF Assign
    <2> QED
      BY <2>1, CountedStays DEF Assigned
  <1>8. CASE Decide
    <2>1. /\ phase = "assigned" /\ phase' \in {"refused", "decided", "unfilled"}
          /\ UNCHANGED <<items, spool, rejections, prepared, bound, pass, files>>
      BY <1>8 DEF Decide
    <2> QED
      BY <2>1, CountedStays DEF Assigned
  <1>9. CASE WriteRoles
    <2>1. /\ phase = "decided" /\ phase' \in {"staged", "changed"}
          /\ UNCHANGED <<items, spool, rejections, prepared, bound, pass>>
      BY <1>9 DEF WriteRoles
    <2> QED
      BY <2>1, CountedStays DEF Assigned
  <1>10. CASE StartReplay
    BY <1>10, StartReplayCounted
  <1>11. CASE Compare
    <2>1. /\ phase = "assigned" /\ phase' \in {"verified", "differs"}
          /\ UNCHANGED <<items, spool, rejections, prepared, bound, pass, files>>
      BY <1>11 DEF Compare
    <2> QED
      BY <2>1, CountedStays DEF Assigned
  <1>12. CASE Publish
    <2>1. /\ phase = "verified" /\ phase' = "published"
          /\ UNCHANGED <<items, spool, rejections, prepared, bound, pass, files>>
      BY <1>12 DEF Publish
    <2> QED
      BY <2>1, CountedStays DEF Assigned
  <1>13. CASE UNCHANGED vars
    <2>1. UNCHANGED <<phase, items, spool, rejections, prepared, bound, pass, files>>
      BY <1>13 DEF vars, preparationVars
    <2> QED
      BY <2>1, CountedStays DEF Assigned
  <1> QED
    BY <1>1, <1>2, <1>3, <1>4, <1>5, <1>6, <1>7, <1>8, <1>9, <1>10, <1>11, <1>12, <1>13 DEF Next

\* Reading, spooling, writing and merging lose no row and invent none, for every corpus.
THEOREM CountHolds == Spec => []Counted
  <1>1. Init => Counted
    BY InitCounted
  <1>2. Inv /\ Sources /\ Counted /\ [Next]_vars => Counted'
    BY StepCounted
  <1> QED
    BY <1>1, <1>2, SplitInvariant, OrderHolds, PTL DEF Spec

\* The rows that were read are the rejected ones and those of the published role files, each in one
\* record and as often as it was read (_verify_prepared_conservation, 3551-3595).
THEOREM EverythingIsAccounted == Spec => []EverythingAccounted
  <1>1. Inv /\ Ordered /\ Counted => EverythingAccounted
    <2> SUFFICES ASSUME Inv, Ordered, Counted, Published PROVE EverythingAccounted
      BY DEF EverythingAccounted
    <2> DEFINE placed(row) == {i \in DOMAIN Staged : Staged[i].id = row}
               counts(row) == [i \in placed(row) |-> Staged[i].occurrences]
    <2>1. Distinct(Staged) /\ Range(Staged) = Range(bound) /\ Recorded(bound)
      BY DEF Published, Inv, Ordered, Counted, Assigned
    <2>2. /\ \A i \in DOMAIN Staged : /\ Staged[i].id \in BagToSet(spool)
                                      /\ Staged[i].occurrences = spool[Staged[i].id]
          /\ \A row \in BagToSet(spool) : \E i \in DOMAIN Staged : Staged[i].id = row
      BY <2>1 DEF Recorded, Range
    <2> SUFFICES ASSUME NEW row
                 PROVE  /\ Cardinality(placed(row)) <= 1
                        /\ Copies(row, items) = Copies(row, rejections) + SumFunction(counts(row))
      BY DEF EverythingAccounted, Copies
    <2>3. Copies(row, items) = Copies(row, rejections) + Copies(row, spool)
      BY DEF Counted
    <2>4. CASE row \in BagToSet(spool)
      <3>1. PICK i \in DOMAIN Staged : Staged[i].id = row
        BY <2>2, <2>4
      <3>2. placed(row) = {i}
        BY <2>1, <3>1 DEF Distinct
      <3>3. Cardinality(placed(row)) = 1
        BY <3>2, FS_Singleton
      <3>4. Copies(row, spool) = spool[row] /\ spool[row] \in Nat
        BY <2>4 DEF Copies, BagIn, BagToSet, Counted, IsCount
      <3>5. DOMAIN counts(row) = {i} /\ counts(row)[i] = spool[row]
        BY <2>2, <3>1, <3>2
      <3>6. SumFunction(counts(row)) = spool[row]
        <4> HIDE DEF counts
        <4> QED
          BY <3>4, <3>5, SumOfOne
      <3> QED
        BY <2>3, <3>3, <3>4, <3>6
    <2>5. CASE row \notin BagToSet(spool)
      <3>1. placed(row) = {}
        BY <2>2, <2>5
      <3>2. Cardinality(placed(row)) = 0
        BY <3>1, FS_EmptySet
      <3>3. Copies(row, spool) = 0
        BY <2>5 DEF Copies, BagIn
      <3>4. SumFunction(counts(row)) = 0
        <4>1. DOMAIN counts(row) = {}
          BY <3>1
        <4> HIDE DEF counts
        <4> QED
          BY <4>1, SumOfNone
      <3> QED
        BY <2>3, <3>2, <3>3, <3>4
    <2> QED
      BY <2>4, <2>5
  <1> QED
    BY <1>1, SplitInvariant, OrderHolds, CountHolds, PTL
=============================================================================
