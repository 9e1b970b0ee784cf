---------------------------- MODULE CorpusSplit ----------------------------
(***************************************************************************)
(* The split of a prepared corpus into train, validation and test            *)
(* (src/nerb/enron_splitting.py).  Records that could give each other away    *)
(* are grouped, groups are assigned whole, older ones to train; memberships,  *)
(* samples and evidence are derived.  Then the role files are read back, the  *)
(* whole computation is repeated on them, and only an equal result is sealed. *)
(* Other programs may meanwhile put the output of another preparation of the  *)
(* same source in the place of prepared.jsonl, which is read twice.           *)
(***************************************************************************)
EXTENDS CorpusPreparation

CONSTANTS
    Bands,              \* of the bits of a near-duplicate signature
    BandOf,             \* [Bits -> Bands]
    GroupHash(_),       \* of the documents of a group, for the order of groups
    Draw(_),            \* of a group without dates, in percent
    SampleHash(_),      \* of a document, for the order within a sample
    HeadGroups,         \* IDENTITY_HEAD_MIN_TRAIN_GROUPS
    Support,            \* what production asks for: [records, groups, largest (percent), cohort]
    MaxSwaps

\* Two signatures that differ in few bits agree on two bands (the comment at 889-891).
ASSUME BandsAssumption ==
    /\ IsFiniteSet(Bits) /\ IsFiniteSet(Bands) /\ BandOf \in [Bits -> Bands]
    /\ \A c \in Corpora : c.options.near \in Nat /\ c.options.near + 2 <= Cardinality(Bands)

ASSUME SharesAssumption ==
    \A c \in Corpora : c.options.train \in Nat /\ c.options.validation \in Nat

\* SHA-256: no two sets of documents of the corpora have the same hash.
ASSUME HashAssumption ==
    \A S, T \in SUBSET UNION {Range(c.rows) : c \in Corpora} :
        GroupHash(S) \in Int /\ (GroupHash(S) = GroupHash(T) => S = T)

VARIABLES
    file,           \* prepared.jsonl
    swaps,
    bound,          \* the prepared records that were verified and are bound by their hash
    pass,           \* build or replay
    nodes,          \* the records in the spool of the pass
    group,          \* union-find: each node's root, the least node of its group
    family,         \* the kind of link under construction
    pending,        \* its runs: sets of nodes to be linked
    joined,         \* edge_counts
    provenance,     \* edge_provenance: for each family the nodes it linked
    roles,          \* node_roles
    files,          \* what the role files hold
    evidence        \* memberships, samples, groups, audit and allocation as written
spoolVars == <<nodes, group, family, pending, joined, provenance, roles>>
vars == <<preparationVars, file, swaps, bound, pass, spoolVars, files, evidence>>

options == corpus.options   \* [fixture, train, validation (percent), near, budget, perRole]

Roles == <<"train", "validation", "test">>
Families == <<"exact_plaintext", "same_message_id", "message_id_reference",
              "thread_shared_participant", "near_duplicate">>

-----------------------------------------------------------------------------
(* Links *)

\* What _ingest_prepared spools of a record.
Features(p) ==
    [texts |-> Range(p.views) \ {<<>>}, mid |-> p.message_id,
     refs |-> {line.words[1] : line \in {line \in Range(p.views.full) : line.kind = "message_id"}},
     thread |-> p.thread, people |-> Participants(p.headers),
     signatures |-> {near.signature : near \in {near \in Range(p.near) :
                        near.tokens >= Limits.tokens /\ near.shingles >= Limits.distinct}},
     date |-> IF p.date.eligible THEN p.date.utc ELSE None, status |-> p.date.status,
     owner |-> p.mailbox.owner,
     folder |-> IF p.mailbox.owner = None THEN "unavailable" ELSE p.mailbox.folder,
     size |-> Len(Words(p.views.subject_current)) \div Limits.size,
     natural |-> p.views.subject_current # <<>>,
     truncated |-> p.body_truncated \/ \E f \in DOMAIN p.headers : p.headers[f].dropped]

Nodes == DOMAIN nodes
Content(n) == nodes[n].content
Docs(S) == {nodes[n].id : n \in S}

\* Mutant of GroupId: the numbers that the nodes have in a pass.
NodeNumbers(S) == S

\* What the id of a group is the hash of.
GroupId(S) == Docs(S)

\* What a family compares: records with a common key are linked.
Keys(f, c) ==
    CASE f = "exact_plaintext" -> c.texts
      [] f = "same_message_id" -> {c.mid} \ {None}
      [] f = "message_id_reference" -> ({c.mid} \ {None}) \cup c.refs
      [] f = "thread_shared_participant" -> ({c.thread} \ {None}) \X c.people

\* _near_pair_keys: what the signatures of a record have in two bands.
Pairs == {pair \in SUBSET Bands : Cardinality(pair) = 2}
Part(signature, pair) == {b \in signature : BandOf[b] \in pair}
NearKeys(c) == {<<pair, Part(s, pair)>> : pair \in Pairs, s \in c.signatures}

\* Mutant of Candidate: only pairs of neighbouring bands are indexed.
CandidateByNeighbours(c, d) ==
    \E key \in NearKeys(c) \cap NearKeys(d) : \E b \in Bands : key[1] = {b, b + 1}

Candidate(c, d) == NearKeys(c) \cap NearKeys(d) # {}

Distance(s, t) == Cardinality((s \ t) \cup (t \ s))
Similar(c, d) == \E s \in c.signatures, t \in d.signatures : Distance(s, t) <= options.near

Linked(c, d) ==
    \/ \E i \in 1..4 : Keys(Families[i], c) \cap Keys(Families[i], d) # {}
    \/ Similar(c, d)

Candidates == {run \in SUBSET Nodes :
                  \E n, m \in Nodes : n < m /\ run = {n, m} /\ Candidate(Content(n), Content(m))}

\* The joins that enumerating the candidates costs.
Emissions ==
    LET keys == UNION {NearKeys(Content(n)) : n \in Nodes}
        size == [key \in keys |-> Cardinality({n \in Nodes : key \in NearKeys(Content(n))})]
    IN SumFunction([key \in keys |-> (size[key] * (size[key] - 1)) \div 2])

WithinBudget == Emissions <= options.budget /\ Cardinality(Candidates) <= options.budget

\* The nodes that a family links to each other.
Runs(f) ==
    IF f = "near_duplicate"
    THEN {run \in Candidates : \A n, m \in run : n # m => Similar(Content(n), Content(m))}
    ELSE {run \in {{n \in Nodes : key \in Keys(f, Content(n))} :
                      key \in UNION {Keys(f, Content(n)) : n \in Nodes}} : \E n, m \in run : n # m}

Merged(run) ==
    LET roots == {group[n] : n \in run}
    IN [n \in Nodes |-> IF group[n] \in roots THEN Min(roots) ELSE group[n]]

-----------------------------------------------------------------------------
(* Groups and roles *)

Group(n) == {m \in Nodes : group[m] = group[n]}
Groups == {Group(n) : n \in Nodes}

Dates(S) == {Content(n).date : n \in S} \ {None}
Temporal(S) == Dates(S) # {}

\* Mutant of Anchor: the first date.
FirstDate(S) == Min(Dates(S))

Anchor(S) == Max(Dates(S))

\* Older groups first, ties by the id of the group.
Older(S, T) ==
    \/ Anchor(S) < Anchor(T)
    \/ Anchor(S) = Anchor(T) /\ GroupHash(GroupId(S)) < GroupHash(GroupId(T))
TemporalGroups ==
    LET temporal == {S \in Groups : Temporal(S)}
    IN [i \in 1..Cardinality(temporal) |->
            CHOOSE S \in temporal : Cardinality({T \in temporal : Older(T, S)}) = i - 1]

\* Records in the first k of an order of groups.
Cumulative(order, k) == Cardinality(UNION {order[i] : i \in 1..k})

\* The cut whose records come closest to the percentage, the earlier of two.
Closest(order, percent, low, high) ==
    LET cumulative == [i \in DOMAIN order |-> Cumulative(order, i)]
        off(i) == LET d == 100 * cumulative[i] - percent * cumulative[Len(order)]
                  IN IF d < 0 THEN -d ELSE d
    IN CHOOSE i \in low..high : \A j \in low..high :
          off(i) < off(j) \/ (off(i) = off(j) /\ i <= j)

TrainEnd(order) ==
    IF Len(order) < 3 THEN 1 ELSE Closest(order, options.train, 1, Len(order) - 2)
ValidationEnd(order) ==
    IF Len(order) < 3 THEN Max({1, Len(order) - 1})
    ELSE Closest(order, options.train + options.validation, TrainEnd(order) + 1, Len(order) - 1)

Threshold(value, train, validation) ==
    IF value < train THEN "train" ELSE IF value < validation THEN "validation" ELSE "test"

\* The role of each node: its group's.
NodeRoles ==
    LET order == TemporalGroups
        trainEnd == TrainEnd(order)
        validationEnd == ValidationEnd(order)
        position(S) == CHOOSE i \in DOMAIN order : order[i] = S
        role == [S \in Groups |->
                   IF Temporal(S) THEN Threshold(position(S) - 1, trainEnd, validationEnd)
                   ELSE Threshold(Draw(GroupId(S)), options.train, options.train + options.validation)]
    IN [n \in Nodes |-> role[Group(n)]]

Members(role) == {n \in Nodes : roles[n] = role}
GroupsOf(role) == {S \in Groups : S \subseteq Members(role)}

TruncatedNodes == {n \in Nodes : Content(n).truncated}

\* Each role has something; production wants much of everything.
Supported ==
    /\ Cardinality(Groups) >= 3 /\ \A role \in Range(Roles) : Members(role) # {}
    /\ ~options.fixture =>
        /\ TruncatedNodes = {}
        /\ \A role \in Range(Roles) :
              /\ Cardinality(Members(role)) >= Support.records
              /\ Cardinality(GroupsOf(role)) >= Support.groups
        /\ \A S \in Groups : 100 * Cardinality(S) < Support.largest * Cardinality(Nodes)

-----------------------------------------------------------------------------
(* Memberships *)

\* How many groups of train know an identity, or a mailbox owner.
Known(person) == Cardinality({S \in GroupsOf("train") : \E n \in S : person \in Content(n).people})
OwnerKnown(owner) == Cardinality({S \in GroupsOf("train") : \E n \in S : Content(n).owner = owner})

Frequency(k) ==
    IF k = 0 THEN "novel" ELSE IF k = 1 THEN "tail" ELSE IF k < HeadGroups THEN "mid" ELSE "head"

Recurrence(c) ==
    CASE c.people = {} -> "unavailable"
      [] c.people # {} /\ \A p \in c.people : Known(p) > 0 -> "all_known"
      [] c.people # {} /\ \A p \in c.people : Known(p) = 0 -> "all_novel"
      [] OTHER -> "mixed"

MailboxRecurrence(c) ==
    IF c.owner = None THEN "unavailable" ELSE IF OwnerKnown(c.owner) > 0 THEN "known" ELSE "novel"

GroupSize(k) ==
    IF k <= 2 THEN <<k, k>> ELSE IF k <= 4 THEN <<3, 4>> ELSE IF k <= 9 THEN <<5, 9>>
    ELSE IF k <= 99 THEN <<10, 99>> ELSE <<100>>

\* The families with a link inside the group of a node.
FamiliesIn(S) == {f \in Range(Families) : provenance[f] \cap S # {}}

Challenges(n) ==
    LET c == Content(n)
        families == FamiliesIn(Group(n))
        if(condition, name) == IF condition THEN {name} ELSE {}
    IN UNION {
        if(c.date = None, "non_temporal"),
        if(c.owner = None, "mailbox_unavailable"),
        if(MailboxRecurrence(c) = "novel", "mailbox_novelty"),
        if(Cardinality(Group(n)) > 1, "multi_record_leakage_group"),
        if("exact_plaintext" \in families, "exact_duplicate_group"),
        if(families \cap {"same_message_id", "message_id_reference", "thread_shared_participant"} # {},
           "thread_or_reply_group"),
        if("near_duplicate" \in families, "near_duplicate_group"),
        if(roles[n] # "train" /\ c.date # None, "temporal_future"),
        if(~c.natural, "natural_empty"),
        if(c.people = {}, "structured_empty"),
        if(Recurrence(c) \in {"all_novel", "mixed"}, "identity_novelty")}

Membership(n) ==
    LET c == Content(n) IN
    [role |-> roles[n], docs |-> GroupId(Group(n)), occurrences |-> nodes[n].occurrences,
     date |-> c.date, status |-> c.status,
     anchor |-> IF Temporal(Group(n)) THEN Anchor(Group(n)) ELSE None,
     mailbox |-> c.folder,
     mailboxRecurrence |-> MailboxRecurrence(c), size |-> c.size,
     groupSize |-> GroupSize(Cardinality(Group(n))), recurrence |-> Recurrence(c),
     frequencies |-> {Frequency(Known(p)) : p \in c.people}, natural |-> c.natural,
     structured |-> c.people # {}, challenges |-> Challenges(n)]

\* A production split must have enough of the cohorts that are compared.
CohortsSupported ==
    ~options.fixture => \A role \in {"validation", "test"} :
        LET many(P(_)) == Cardinality({n \in Members(role) : P(Membership(n))}) >= Support.cohort
        IN /\ many(LAMBDA m : m.recurrence = "all_known") /\ many(LAMBDA m : m.recurrence = "all_novel")
           /\ many(LAMBDA m : "head" \in m.frequencies) /\ many(LAMBDA m : "tail" \in m.frequencies)
           /\ many(LAMBDA m : m.natural) /\ many(LAMBDA m : m.structured)

-----------------------------------------------------------------------------
(* Samples: first one of every kind, then in proportion to the strata *)

Stratum(n) ==
    LET m == Membership(n) IN
    <<m.role, m.date # None, m.mailbox, m.mailboxRecurrence, m.size, m.groupSize, m.recurrence>>

Margins(n) ==
    LET m == Membership(n) IN
    {<<"date_status", m.status>>, <<"natural", m.natural>>, <<"structured", m.structured>>}
        \cup ({"identity_frequency"} \X m.frequencies) \cup ({"challenge"} \X m.challenges)

First(S) == CHOOSE n \in S : \A m \in S : SampleHash(nodes[n].id) <= SampleHash(nodes[m].id)

\* The first record of each stratum and of each margin.
Covering(role) ==
    LET stratum == [n \in Members(role) |-> Stratum(n)]
        margins == [n \in Members(role) |-> Margins(n)]
    IN {First({m \in Members(role) : stratum[m] = x}) : x \in Range(stratum)}
         \cup {First({m \in Members(role) : x \in margins[m]}) : x \in UNION Range(margins)}

\* Hamilton's method: each stratum gets its share of the remaining budget rounded down, and the
\* largest remainders get one more.
Quotas(capacity, remaining) ==
    LET strata == SetToSeq(DOMAIN capacity)     \* in a fixed order
        total == SumFunction(capacity)
        share(i) == remaining * capacity[strata[i]]
        floor == [i \in DOMAIN strata |-> share(i) \div total]
        residual == remaining - SumFunction(floor)
        larger(i, j) == \/ share(i) % total > share(j) % total
                        \/ share(i) % total = share(j) % total /\ i < j
        one(i) == IF Cardinality({j \in DOMAIN strata : larger(j, i)}) < residual THEN 1 ELSE 0
    IN IF remaining = 0 \/ total = 0 THEN [x \in DOMAIN capacity |-> 0]
       ELSE [x \in DOMAIN capacity |->
               LET i == CHOOSE i \in DOMAIN strata : strata[i] = x IN floor[i] + one(i)]

Target(role) == Max({Min({options.perRole, Cardinality(Members(role))}), Cardinality(Covering(role))})

Sample(role) ==
    LET covering == Covering(role)
        stratum == [n \in Members(role) |-> Stratum(n)]
        left(x) == {n \in Members(role) \ covering : stratum[n] = x}
        quota == Quotas([x \in Range(stratum) |-> Cardinality(left(x))],
                        Target(role) - Cardinality(covering))
        before(n, m) == SampleHash(nodes[m].id) < SampleHash(nodes[n].id)
    IN covering \cup {n \in Members(role) \ covering :
            Cardinality({m \in left(stratum[n]) : before(n, m)}) < quota[stratum[n]]}

\* A production budget has to cover every stratum and margin, and is always filled.
BudgetCovers == options.fixture \/ \A role \in Range(Roles) :
    Cardinality(Covering(role)) <= Min({options.perRole, Cardinality(Members(role))})
SamplesFilled == \A role \in Range(Roles) : Cardinality(Sample(role)) = Target(role)

-----------------------------------------------------------------------------
(* Evidence *)

\* Where the temporal groups of a role end, and who was moved forward with its group.
Boundary(role) ==
    LET order == TemporalGroups
        ends == {i \in DOMAIN order : order[i] \subseteq Members(role)}
    IN IF ends = {} THEN None
       ELSE [anchor |-> Anchor(order[Max(ends)]), docs |-> Docs(order[Max(ends)]),
             cumulative |-> Cumulative(order, Max(ends))]

Promoted == {n \in Nodes : LET S == Group(n) IN
                Temporal(S) /\ (Content(n).date = None \/ Content(n).date < Anchor(S))}

ThreeKinds == {"exact_duplicate_group", "thread_or_reply_group", "near_duplicate_group"}

GroupPayload(S) ==
    [members |-> [i \in 1..Cardinality(S) |-> nodes[Ascending(S)[i]].id], role |-> roles[Min(S)],
     occurrences |-> SumFunction([n \in S |-> nodes[n].occurrences]),
     anchor |-> IF Temporal(S) THEN Anchor(S) ELSE None,
     families |-> ThreeKinds \cap UNION {Challenges(n) : n \in S}]

Evidence ==
    [memberships |-> [n \in Nodes |-> Membership(n)],
     samples |-> UNION {Sample(role) : role \in Range(Roles)},
     groups |-> {GroupPayload(S) : S \in Groups},
     audit |-> [edges |-> joined, emissions |-> Emissions, pairs |-> Cardinality(Candidates),
                largest |-> Max({Cardinality(S) : S \in Groups}), truncated |-> Cardinality(TruncatedNodes)],
     allocation |-> [ends |-> [role \in {"train", "validation"} |-> Boundary(role)],
                     promoted |-> Cardinality(Promoted)]]

\* What is written names documents, not nodes.
ByDocument(e) ==
    LET node(d) == CHOOSE n \in Nodes : nodes[n].id = d
    IN [e EXCEPT !.memberships = [d \in Docs(Nodes) |-> e.memberships[node(d)]],
                 !.samples = Docs(e.samples)]

-----------------------------------------------------------------------------
Init ==
    /\ PreparationInit
    /\ file = <<>> /\ swaps = 0 /\ bound = <<>> /\ pass = "build"
    /\ nodes = <<>> /\ group = <<>> /\ family = 0 /\ pending = {}
    /\ joined = <<>> /\ provenance = <<>> /\ roles = <<>>
    /\ files = [role \in Range(Roles) |-> <<>>] /\ evidence = None

\* load_enron_preparation_run and _preparation_binding.
Load ==
    /\ phase = "prepared"
    /\ phase' = IF Verified(prepared) THEN "bound" ELSE "failed"
    /\ file' = prepared /\ bound' = prepared
    /\ UNCHANGED <<corpus, read, items, spool, rejections, counters, prepared, profile, swaps, pass, spoolVars, files, evidence>>

\* Another program replaces the run, or puts the first one back; after the second reading it
\* makes no difference.
Swap ==
    /\ phase \in {"bound", "link", "assigned", "decided"} /\ pass = "build" /\ swaps < MaxSwaps
    /\ swaps' = swaps + 1
    /\ file' = IF file = bound THEN corpus.other ELSE bound
    /\ UNCHANGED <<preparationVars, bound, pass, spoolVars, files, evidence>>

Distinct(records) == \A i, j \in DOMAIN records : i # j => records[i].id # records[j].id

\* A new spool.
Ingest(records) ==
    /\ phase' = "link"
    /\ nodes' = [n \in DOMAIN records |-> [id |-> records[n].id, occurrences |-> records[n].occurrences,
                                           content |-> Features(records[n].payload)]]
    /\ group' = [n \in DOMAIN records |-> n]
    /\ family' = 0 /\ pending' = {}
    /\ joined' = [f \in Range(Families) |-> 0]
    /\ provenance' = [f \in Range(Families) |-> {}]
    /\ roles' = <<>>

Stop(reason) == phase' = reason /\ UNCHANGED spoolVars

IngestPrepared ==
    /\ phase = "bound"
    /\ IF file # <<>> /\ Increasing(file) THEN Ingest(file) ELSE Stop("refused")
    /\ UNCHANGED <<corpus, read, items, spool, rejections, counters, prepared, profile, file, swaps, bound, pass, files, evidence>>

NextFamily ==
    /\ phase = "link" /\ pending = {} /\ family < 5
    /\ IF family = 4 /\ ~WithinBudget THEN Stop("refused")
       ELSE /\ family' = family + 1
            /\ pending' = Runs(Families[family + 1])
            /\ UNCHANGED <<phase, nodes, group, joined, provenance, roles>>
    /\ UNCHANGED <<corpus, read, items, spool, rejections, counters, prepared, profile, file, swaps, bound, pass, files, evidence>>

\* The nodes of a run become one group; the links that were needed are counted.
LinkRun(run) ==
    LET f == Families[family]
        new == Cardinality({group[n] : n \in run}) - 1
    IN /\ group' = Merged(run)
       /\ joined' = [joined EXCEPT ![f] = @ + new]
       /\ provenance' = [provenance EXCEPT ![f] = @ \cup run]

Link ==
    /\ phase = "link"
    /\ \E run \in pending : pending' = pending \ {run} /\ LinkRun(run)
    /\ UNCHANGED <<preparationVars, file, swaps, bound, pass, nodes, family, roles, files, evidence>>

\* _assign_components.
Assign ==
    /\ phase = "link" /\ pending = {} /\ family = 5
    /\ phase' = "assigned"
    /\ roles' = NodeRoles
    /\ UNCHANGED <<corpus, read, items, spool, rejections, counters, prepared, profile, file, swaps, bound, pass,
                   nodes, group, family, pending, joined, provenance, files, evidence>>

Decide ==
    /\ phase = "assigned" /\ pass = "build"
    /\ IF ~(Supported /\ CohortsSupported /\ BudgetCovers)
       THEN phase' = "refused" /\ UNCHANGED evidence
       ELSE /\ phase' = IF SamplesFilled THEN "decided" ELSE "unfilled"
            /\ evidence' = ByDocument(Evidence)
    /\ UNCHANGED <<corpus, read, items, spool, rejections, counters, prepared, profile, file, swaps, bound, pass, spoolVars, files>>

\* Mutant of SameBytes: the documents are compared, not what they say.
SameDocuments(records) ==
    Len(records) = Len(bound) /\ \A i \in DOMAIN bound : records[i].id = bound[i].id

\* The hash of the preparation binding.
SameBytes(records) == records = bound

\* _write_role_records: prepared.jsonl is read again.
WriteRoles ==
    /\ phase = "decided"
    /\ IF /\ Len(file) = Len(nodes) /\ \A n \in Nodes : file[n].id = nodes[n].id
          /\ SameBytes(file)
       THEN /\ phase' = "staged"
            /\ files' = [role \in Range(Roles) |->
                            LET at == Ascending(Members(role)) IN [i \in DOMAIN at |-> file[at[i]]]]
       ELSE phase' = "changed" /\ UNCHANGED files
    /\ UNCHANGED <<corpus, read, items, spool, rejections, counters, prepared, profile, file, swaps, bound, pass, spoolVars, evidence>>

Staged == files["train"] \o files["validation"] \o files["test"]

\* What merging the role files by the ids of their documents gives.
ById(records) ==
    [i \in DOMAIN records |->
        CHOOSE r \in Range(records) : Cardinality({s \in Range(records) : s.id <= r.id}) = i]

\* _verify_prepared_conservation, and the spool of _rebuild_preseal_state.
StartReplay ==
    /\ phase = "staged" /\ pass' = "replay"
    /\ IF /\ \A role \in Range(Roles) : files[role] # <<>> /\ Increasing(files[role])
          /\ Distinct(Staged)
          /\ SameBytes(ById(Staged))
       THEN Ingest(Staged) ELSE Stop("differs")
    /\ UNCHANGED <<corpus, read, items, spool, rejections, counters, prepared, profile, file, swaps, bound, files, evidence>>

Observed(n) ==
    Threshold(n - 1, Len(files["train"]), Len(files["train"]) + Len(files["validation"]))

Agrees ==
    /\ \A n \in Nodes : roles[n] = Observed(n)
    /\ Supported /\ CohortsSupported /\ BudgetCovers /\ SamplesFilled
    /\ ByDocument(Evidence) = evidence

Compare ==
    /\ phase = "assigned" /\ pass = "replay"
    /\ phase' = IF Agrees THEN "verified" ELSE "differs"
    /\ UNCHANGED <<corpus, read, items, spool, rejections, counters, prepared, profile, file, swaps, bound, pass, spoolVars, files, evidence>>

\* Both runs are committed and the pair is receipted; SealedAccess goes on from here.
Publish ==
    /\ phase = "verified" /\ phase' = "published"
    /\ UNCHANGED <<corpus, read, items, spool, rejections, counters, prepared, profile, file, swaps, bound, pass, spoolVars, files, evidence>>

Prepare == PreparationNext /\ UNCHANGED <<file, swaps, bound, pass, spoolVars, files, evidence>>

Next ==
    \/ Prepare \/ Load \/ Swap \/ IngestPrepared \/ NextFamily \/ Link
    \/ Assign \/ Decide \/ WriteRoles \/ StartReplay \/ Compare \/ Publish

Spec == Init /\ [][Next]_vars

-----------------------------------------------------------------------------
(* Properties *)

Published == phase = "published"

\* Every row that was read is in the rejections or in exactly one record of one published role
\* file, as often as it was read.
EverythingAccounted ==
    Published =>
        LET placed(row) == {i \in DOMAIN Staged : Staged[i].id = row}
            times(row) == SumFunction([i \in placed(row) |-> Staged[i].occurrences])
            copies(row, bag) == IF BagIn(row, bag) THEN bag[row] ELSE 0
        IN \A row \in BagToSet(items) \cup {Staged[i].id : i \in DOMAIN Staged} :
              /\ Cardinality(placed(row)) <= 1
              /\ copies(row, items) = copies(row, rejections) + times(row)

\* No two records in different published roles share a text, a message id or a reference to it, a
\* subject together with a participant, or nearly the same wording, whatever was in the place of
\* prepared.jsonl when the roles were computed (the promise of policy "grouping", 1568-1600).
NoLeakage ==
    Published => \A r, s \in Range(Roles) : r # s =>
        \A i \in DOMAIN files[r], j \in DOMAIN files[s] :
            ~Linked(Features(files[r][i].payload), Features(files[s][j].payload))

\* Left alone, nothing that was written is refused by its readers: the staged and the committed
\* preparation are verified, unless a stream gave nothing, the split finds the file it read before,
\* fills its samples, and agrees with its replay on files in another order.
ReadersAgree ==
    swaps = 0 => /\ phase \notin {"differs", "unfilled", "changed"}
                 /\ phase = "failed" => corpus.streamed /\ spool = EmptyBag

\* A dated record is no later than the latest record of any group in a later role.
FutureStaysAhead ==
    Published =>
        LET dateOf(d) == CHOOSE i \in DOMAIN Staged : Staged[i].id = d
        IN \A k, l \in DOMAIN Roles : k < l =>
              \A i \in DOMAIN files[Roles[k]], g \in evidence.groups :
                 LET date == Features(files[Roles[k]][i].payload).date
                     dates == {Features(Staged[dateOf(d)].payload).date : d \in Range(g.members)} \ {None}
                 IN g.role = Roles[l] /\ date # None /\ dates # {} => date <= Max(dates)
=============================================================================
