--------------------------- MODULE MCCorpusSplit ---------------------------
(***************************************************************************)
(* TLC instance of CorpusSplit.  Signatures have eight bits in four bands;   *)
(* a corpus has up to seven rows, six different ones.                        *)
(***************************************************************************)
EXTENDS CorpusSplit

Rows == 1..6
BandOfBit == [bit \in 0..7 |-> bit \div 2]

\* Hashes that separate the sets of rows.
Scattered(S) == (53 * SumFunction([d \in S |-> 2 ^ d])) % 127
Percent(S) == (100 * Scattered(S)) \div 127
RowHash(d) == (3 * d) % 7

\* Wordings: each of the first three is near the next, and the last two are near each other.
Shingle == (<<"a", "b", "c">> :> 0) @@ (<<"a", "b", "d">> :> 20) @@ (<<"a", "e", "d">> :> 85)
             @@ (<<"m", "n", "o">> :> 170) @@ (<<"m", "n", "p">> :> 171)
ShingleNumber(words) == IF words \in DOMAIN Shingle THEN Shingle[words] ELSE 15

SomeLimits == [lines |-> 6, entries |-> 2, shingles |-> 2, from |-> 1, until |-> 9,
               size |-> 2, tokens |-> 3, distinct |-> 1]

-----------------------------------------------------------------------------
TextLine(words) == [kind |-> "text", words |-> words]
Mark(kind) == [kind |-> kind, words |-> <<>>]
Named(kind, word) == [kind |-> kind, words |-> <<word>>]
By(address) == [name |-> "", address |-> address]

Blank ==
    [error |-> None, subject |-> <<>>, body |-> <<>>, from |-> <<>>, to |-> <<>>, cc |-> <<>>,
     bcc |-> <<>>, date |-> [kind |-> "missing", at |-> 0], message_id |-> None, file_name |-> <<>>]
On(at, raw) == [raw EXCEPT !.date = [kind |-> "zoned", at |-> at]]

\* Two copies of a text, one above a quotation; a reply; messages of a thread with common people.
Threads == <<
    [Blank EXCEPT !.body = <<TextLine(<<"hello">>), Mark("wrote"), Named("quote", "hi")>>,
                  !.file_name = <<"maildir", "kim", "inbox", "1">>],
    On(5, [Blank EXCEPT !.body = <<TextLine(<<"hello">>)>>, !.message_id = "m", !.from = <<By("ann")>>]),
    On(2, [Blank EXCEPT !.body = <<TextLine(<<"yes">>), Mark("separator"), Named("header", "from"),
                                   Named("header", "date"), Named("header", "to"), Named("message_id", "m")>>,
                        !.from = <<By("bob")>>, !.file_name = <<"kim", "inbox", "2">>]),
    On(7, [Blank EXCEPT !.subject = <<"re", "lunch">>, !.from = <<By("ann")>>,
                        !.to = <<By(""), By("bob")>>, !.cc = <<[name |-> "dan", address |-> ""]>>]),
    On(3, [Blank EXCEPT !.subject = <<"lunch">>, !.from = <<By("ann")>>, !.file_name = <<"lee", "sent", "x", "2">>]),
    On(4, [Blank EXCEPT !.subject = <<"fw", "re", "lunch">>, !.from = <<By("cat")>>,
                        !.body = <<TextLine(<<"sure">>), Mark("dashes"), Named("text", "cat")>>])>>

\* Without the copy and the reply.
Unthreaded == [Threads EXCEPT ![1].body = <<TextLine(<<"bye">>)>>, ![2].message_id = None]

Wordings == <<
    On(1, [Blank EXCEPT !.body = <<TextLine(<<"a", "b", "c">>)>>]),
    On(6, [Blank EXCEPT !.body = <<TextLine(<<"a", "b", "d">>), Mark("original"), Named("text", "q")>>]),
    On(2, [Blank EXCEPT !.body = <<TextLine(<<"a", "e", "d">>), Mark("template")>>]),
    On(3, [Blank EXCEPT !.body = <<TextLine(<<"m", "n", "o">>)>>]),
    On(4, [Blank EXCEPT !.body = <<TextLine(<<"m", "n", "p">>)>>, !.message_id = "w"]),
    On(9, [Blank EXCEPT !.body = <<Named("message_id", "v")>>])>>

\* Nothing is dated: the hash of a group decides.
Undated == [r \in Rows |->
    IF r <= 2 THEN [Blank EXCEPT !.body = <<TextLine(<<"same">>)>>]
    ELSE [Blank EXCEPT !.from = <<By("ann")>>,
                       !.date.kind = IF r % 2 = 0 THEN "invalid" ELSE "ambiguous_timezone"]]

\* Production: known and novel identities, frequent and rare ones, in each role.
Production ==
    LET by(people, owner, number) ==
            [Blank EXCEPT !.subject = <<number>>, !.to = people,
                          !.file_name = IF owner = "" THEN <<>> ELSE <<owner, "inbox", number>>]
    IN << On(1, by(<<By("ann"), By("bob")>>, "kim", "1")), On(2, by(<<By("ann")>>, "", "2")),
          On(3, by(<<By("ann"), By("bob")>>, "kim", "3")), On(4, by(<<By("cat")>>, "lee", "4")),
          On(5, by(<<By("ann"), By("bob")>>, "", "5")), On(6, by(<<By("dan")>>, "", "6"))>>

Crowd == <<By("ann"), By("cat"), By("dan")>>

-----------------------------------------------------------------------------
Fixture(train, validation, budget, perRole) ==
    [fixture |-> TRUE, train |-> train, validation |-> validation, near |-> 2, budget |-> budget,
     perRole |-> perRole]
ProductionOptions(perRole) ==
    [fixture |-> FALSE, train |-> 33, validation |-> 33, near |-> 2, budget |-> 9, perRole |-> perRole]

Corpus(rows, raw, other, opts) ==
    [rows |-> rows, limit |-> 7, streamed |-> TRUE, raw |-> raw, other |-> other, options |-> opts]

File(raw, rows) ==
    [r \in 1..rows |-> [id |-> r, occurrences |-> 1, payload |-> Payload(raw[r])]]

All == <<4, 1, 6, 3, 5, 2>>
Shares == {<<20, 50>>, <<30, 30>>, <<40, 30>>, <<60, 20>>}

Ordinary ==
    {Corpus(rows, raw, other, Fixture(shares[1], shares[2], 15, perRole)) :
        rows \in {All, <<4, 1, 6, 3, 4, 5, 2>>}, raw \in {Threads, Unthreaded, Wordings, Undated},
        other \in {File(Threads, 6), File(Unthreaded, 6)}, shares \in Shares, perRole \in {1, 3}}

WithError(raw, row, error) == [raw EXCEPT ![row].error = error]
Long == [i \in 1..7 |-> TextLine(<<"l">>)]

Unusual == {
    Corpus(All, Wordings, File(Undated, 6), Fixture(20, 50, 3, 1)),      \* too many candidates
    Corpus(<<3, 1, 3, 5, 2, 1, 4>>, WithError(WithError(Undated, 5, "unknown_source_fields"), 2, "cleaning"),
           <<>>, Fixture(40, 30, 9, 3)),
    Corpus(<<3, 1, 3, 5, 2, 1, 4>>, WithError(Wordings, 5, "cleaning"), File(Wordings, 4), Fixture(40, 30, 9, 3)),
    [Corpus(<<3, 3, 1, 3, 4, 4>>, [WithError(Threads, 3, "cleaning") EXCEPT ![3].body = Long], <<>>,
            Fixture(40, 30, 9, 3)) EXCEPT !.limit = 4],
    Corpus(<<5, 5>>, WithError(Undated, 5, "malformed_json"), <<>>, Fixture(40, 30, 9, 3)),
    [Corpus(<<5, 5>>, WithError(Undated, 5, "malformed_json"), <<>>, Fixture(40, 30, 9, 3))
        EXCEPT !.streamed = FALSE],
    Corpus(All, Production, <<>>, ProductionOptions(2)),
    Corpus(All, Production, <<>>, ProductionOptions(1)),                 \* cannot cover
    Corpus(All, [Production EXCEPT ![4].to = <<By("ann")>>], <<>>, ProductionOptions(2)),
    Corpus(All, [Production EXCEPT ![4].to = Crowd], <<>>, ProductionOptions(2)),
    Corpus(All, [Production EXCEPT ![4].body = Long], <<>>, ProductionOptions(2))}

SomeCorpora == Ordinary \cup Unusual

Production6 == [records |-> 2, groups |-> 2, largest |-> 50, cohort |-> 1]
=============================================================================
