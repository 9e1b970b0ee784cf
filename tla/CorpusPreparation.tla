-------------------------- MODULE CorpusPreparation --------------------------
(***************************************************************************)
(* Preparation of a corpus (src/nerb/enron_preparation.py with               *)
(* enron_cleaning.py): the rows of a source are cleaned one by one into a     *)
(* spool in which identical rows are counted, or rejected with a reason;      *)
(* prepared.jsonl, rejections.jsonl and a profile are written, compared with  *)
(* each other and committed.  A row is known by its digest, a number that is  *)
(* also the order of document ids.  A body is a sequence of lines             *)
(* [kind, words]; decoding, layout and case are taken as done.                *)
(***************************************************************************)
EXTENDS Integers, FiniteSets, FiniteSetsExt, Bags, SequencesExt

CONSTANTS
    Corpora,        \* [rows, limit, streamed, raw, other, options]: digests of the rows of a source,
                    \* the max_rows option, whether it is streamed, raw rows by digest; and for
                    \* other and options see CorpusSplit
    Limits,         \* [lines, entries, shingles, from, until, size, tokens, distinct]
    ShingleHash(_), \* of three words, a number of bits
    Bits,
    None

ASSUME CorporaAssumption ==
    \A c \in Corpora :
        /\ c.limit \in Nat /\ c.rows \in Seq(DOMAIN c.raw \cap Nat)
        /\ \A row \in Range(c.rows) : c.raw[row].date.at \in Int
        /\ c.other \in Seq(Range(c.other))

\* Only a wording with tokens counts as near another one (1592).
ASSUME LimitsAssumption == Limits.tokens \in Nat \ {0}

VARIABLES
    corpus,
    phase,
    read,           \* rows read so far
    items,          \* source_items: how often each row was read
    spool,          \* records: how often each accepted row was read
    rejections,     \* how often each rejected row was read
    counters,       \* ingestion_counters
    prepared,       \* prepared.jsonl: [id, occurrences, payload] in the order of ids
    profile

preparationVars == <<corpus, phase, read, items, spool, rejections, counters, prepared, profile>>

-----------------------------------------------------------------------------
(* Cleaning of one row *)

Words(lines) == FlattenSeq([i \in DOMAIN lines |-> lines[i].words])

\* Consecutive header lines that name a sender, a date and a recipient or subject.
ReplyHeader(lines, start) ==
    LET run == {i \in start..Min({Len(lines), start + 9}) :
                  \A j \in start..i : lines[j].kind = "header"}
        names == {lines[i].words[1] : i \in run}
    IN "from" \in names /\ names \cap {"sent", "date"} # {} /\ names \cap {"to", "subject"} # {}

\* What is above the first quoted message, without quoted lines.
CurrentBody(lines) ==
    LET ends == {i \in DOMAIN lines :
                    \/ lines[i].kind \in {"original", "forward"}
                    \/ lines[i].kind = "separator" /\ i < Len(lines) /\ ReplyHeader(lines, i + 1)}
    IN SelectSeq(SubSeq(lines, 1, Min(ends \cup {Len(lines) + 1}) - 1),
                 LAMBDA line : line.kind \notin {"wrote", "quote"})

\* Without a signature or a template in the last lines.
Core(lines) ==
    LET n == Len(lines)
        signature == {i \in Max({2, n - 15})..n :
                         lines[i].kind = "dashes" /\ \E j \in i + 1..n : lines[j].kind # "blank"}
        template == {i \in Max({1, n - 29})..n : lines[i].kind = "template"}
    IN SubSeq(lines, 1, Min(signature \cup template \cup {n + 1}) - 1)

\* The smallest hashes of three consecutive words, in a heap of bounded size.
Shingles(words) ==
    LET width == Min({3, Len(words)})
        windows == [i \in 1..Len(words) - width + 1 |-> ShingleHash(SubSeq(words, i, i + width - 1))]
        keep(heap, hash) ==
            IF hash \in heap \/ (Cardinality(heap) = Limits.shingles /\ hash > Max(heap)) THEN heap
            ELSE IF Cardinality(heap) < Limits.shingles THEN heap \cup {hash}
            ELSE (heap \ {Max(heap)}) \cup {hash}
    IN IF words = <<>> THEN {} ELSE FoldLeft(keep, {}, windows)

\* _simhash64_majority: the bits that half of the hashes have.
Majority(hashes) ==
    {b \in Bits : 2 * Cardinality({h \in hashes : (h \div 2 ^ b) % 2 = 1}) >= Cardinality(hashes)}

Near(words) ==
    [tokens |-> Len(words), shingles |-> Cardinality(Shingles(words)),
     signature |-> IF words = <<>> THEN None ELSE Majority(Shingles(words))]

\* Addresses of a header field; the surplus is dropped.
Entries(field, limit) ==
    LET parsed == SelectSeq(field, LAMBDA entry : entry.name # "" \/ entry.address # "")
    IN [kept |-> SubSeq(parsed, 1, Min({limit, Len(parsed)})), dropped |-> Len(parsed) > limit]

Headers(raw) ==
    [f \in {"from", "to", "cc", "bcc"} |-> Entries(raw[f], IF f = "from" THEN 1 ELSE Limits.entries)]

\* _participant_values: an address, or else a name.
Participants(headers) ==
    {IF entry.address # "" THEN entry.address ELSE entry.name :
        entry \in UNION {Range(headers[f].kept) : f \in DOMAIN headers}}

\* _parse_date.  Not modelled: a date within an offset of the ends of the calendar, whose
\* astimezone (2278) raises an OverflowError outside the try and ends the preparation.
Date(raw) ==
    LET plausible == raw.at >= Limits.from /\ raw.at < Limits.until
    IN IF raw.kind # "zoned" THEN [status |-> raw.kind, utc |-> None, eligible |-> FALSE]
       ELSE [status |-> IF plausible THEN "valid" ELSE "out_of_range", utc |-> raw.at,
             eligible |-> plausible]

\* _mailbox_locator_features: owner and folder of [maildir/]owner/folder/.../file.
Mailbox(path) ==
    LET at == IF path # <<>> /\ path[1] = "maildir" THEN 2 ELSE 1
        folders == Range(SubSeq(path, at + 1, Len(path) - 1))
        named == {i \in 1..5 : <<"sent", "inbox", "deleted", "draft", "archive">>[i] \in folders}
    IN IF Len(path) < 2 \/ Range(path) \cap {"", ".", ".."} # {} \/ at >= Len(path)
       THEN [owner |-> None, folder |-> None]
       ELSE [owner |-> path[at],
             folder |-> IF named = {} THEN "other"
                        ELSE <<"sent", "inbox", "deleted", "draft", "archive">>[Min(named)]]

\* Reply and forward prefixes go.
ThreadSubject(subject) ==
    LET said == {i \in DOMAIN subject : subject[i] \notin {"re", "fw"}}
    IN IF said = {} THEN None ELSE SubSeq(subject, Min(said), Len(subject))

\* _prepare_unique_row
Payload(raw) ==
    LET full == SubSeq(raw.body, 1, Min({Limits.lines, Len(raw.body)}))
        current == CurrentBody(full)
        core == Core(current)
        subject == IF raw.subject = <<>> THEN <<>> ELSE <<[kind |-> "text", words |-> raw.subject]>>
    IN [views |-> [full |-> full, current |-> current, subject_current |-> subject \o current,
                   core |-> core],
        headers |-> Headers(raw), message_id |-> raw.message_id,
        thread |-> ThreadSubject(raw.subject), date |-> Date(raw.date),
        mailbox |-> Mailbox(raw.file_name),
        near |-> [core |-> Near(Words(IF core = <<>> THEN current ELSE core)), full |-> Near(Words(full))],
        body_truncated |-> Len(raw.body) > Limits.lines]

-----------------------------------------------------------------------------
(* The run *)

PreparationInit ==
    /\ corpus \in Corpora
    /\ phase = "read" /\ read = 0
    /\ items = EmptyBag /\ spool = EmptyBag /\ rejections = EmptyBag /\ counters = EmptyBag
    /\ prepared = <<>> /\ profile = None

\* A set of numbers in increasing order.
Ascending(S) == [i \in 1..Cardinality(S) |-> CHOOSE n \in S : Cardinality({m \in S : m <= n}) = i]

AllRead == read = Len(corpus.rows) \/ read = corpus.limit

Truncated(row) == Len(corpus.raw[row].body) > Limits.lines

\* One turn of the loop of _ingest_source: a malformed row is rejected, a known one is counted,
\* another one is cleaned, or rejected when that fails.
Read ==
    LET row == corpus.rows[read + 1]
        raw == corpus.raw[row]
        known == BagIn(row, spool)
        rejected == raw.error # None
        count(names) == counters' = counters (+) SetToBag(names)
    IN
    /\ phase = "read" /\ ~AllRead
    /\ read' = read + 1
    /\ items' = items (+) SetToBag({row})
    /\ IF rejected
       THEN /\ rejections' = rejections (+) SetToBag({row})
            /\ count({raw.error} \cup
                     IF raw.error = "cleaning" /\ Truncated(row) THEN {"body_truncated"} ELSE {})
            /\ UNCHANGED spool
       ELSE /\ spool' = spool (+) SetToBag({row})
            /\ count({IF known THEN "duplicate" ELSE "accepted"})
            /\ UNCHANGED rejections
    /\ UNCHANGED <<corpus, phase, prepared, profile>>

Occurrences(records) == FoldLeft(LAMBDA n, r : n + r.occurrences, 0, records)

\* What the profile says of the records, counting each as often as it occurs.
Aggregates(records) ==
    LET times(P(_)) == Occurrences(SelectSeq(records, LAMBDA r : P(r.payload)))
        dates(P(_)) == {r.payload.date.utc : r \in {r \in Range(records) : P(r.payload.date)}}
        ends(S) == IF S = {} THEN None ELSE <<Min(S), Max(S)>>
        contents == {r.payload.views.subject_current : r \in Range(records)}
        sizes == {<<c, times(LAMBDA p : p.views.subject_current = c)>> : c \in contents}
        repeated == {s \in sizes : s[2] > 1}
    IN [records |-> Len(records), occurrences |-> Occurrences(records),
        empty |-> [v \in {"full", "current", "subject_current", "core"} |->
                      times(LAMBDA p : p.views[v] = <<>>)],
        statuses |-> [s \in {"missing", "invalid", "ambiguous_timezone", "out_of_range", "valid"} |->
                         times(LAMBDA p : p.date.status = s)],
        parseable |-> ends(dates(LAMBDA d : d.utc # None)),
        eligible |-> ends(dates(LAMBDA d : d.eligible)),
        repetitions |-> SumFunction([s \in repeated |-> s[2] - 1]), groups |-> Cardinality(repeated),
        message_id |-> times(LAMBDA p : p.message_id # None),
        thread |-> times(LAMBDA p : p.thread # None),
        near |-> times(LAMBDA p : p.near.core.signature # None),
        mailbox |-> times(LAMBDA p : p.mailbox.owner # None)]

WritePrepared ==
    /\ phase = "read" /\ AllRead
    /\ phase' = "written"
    /\ prepared' = [i \in 1..Cardinality(BagToSet(spool)) |->
                        LET row == Ascending(BagToSet(spool))[i]
                        IN [id |-> row, occurrences |-> spool[row],
                            payload |-> Payload(corpus.raw[row])]]
    /\ profile' = [input |-> read, multiset |-> items, ingestion |-> counters,
                   rejected |-> read - Occurrences(prepared'), aggregates |-> Aggregates(prepared')]
    /\ UNCHANGED <<corpus, read, items, spool, rejections, counters>>

\* A stream that gives nothing usable is an error, an empty file is not.
SourceVolumeValid == corpus.streamed => read > 0 /\ Occurrences(prepared) > 0

Increasing(records) == \A i, j \in DOMAIN records : i < j => records[i].id < records[j].id

AsBag(records) ==
    [row \in {r.id : r \in Range(records)} |-> Occurrences(SelectSeq(records, LAMBDA r : r.id = row))]

\* The counters that the two files tell of.
Recounted(records) ==
    LET rejected(P(_)) == BagCardinality([row \in {row \in BagToSet(rejections) : P(row)} |-> rejections[row]])
        n == [c \in {"accepted", "duplicate", "body_truncated"} \cup {corpus.raw[row].error : row \in BagToSet(rejections)} |->
                CASE c = "accepted" -> Len(records)
                  [] c = "duplicate" -> Occurrences(records) - Len(records)
                  [] c = "body_truncated" ->
                        rejected(LAMBDA row : corpus.raw[row].error = "cleaning" /\ Truncated(row))
                  [] OTHER -> rejected(LAMBDA row : corpus.raw[row].error = c)]
    IN [c \in {c \in DOMAIN n : n[c] > 0} |-> n[c]]

\* What a reader of the run checks again: the order, the aggregates, the counters, and that the
\* multiset of the rows of both files is the one that was read.
Verified(records) ==
    /\ Increasing(records)
    /\ Aggregates(records) = profile.aggregates
    /\ BagCardinality(rejections) = profile.rejected
    /\ profile.input = profile.aggregates.occurrences + profile.rejected
    /\ Recounted(records) = profile.ingestion
    /\ AsBag(records) (+) rejections = profile.multiset

\* The staged run is verified and committed.
CommitPreparation ==
    /\ phase = "written"
    /\ phase' = IF SourceVolumeValid /\ Verified(prepared) THEN "prepared" ELSE "failed"
    /\ UNCHANGED <<corpus, read, items, spool, rejections, counters, prepared, profile>>

PreparationNext == Read \/ WritePrepared \/ CommitPreparation

=============================================================================
