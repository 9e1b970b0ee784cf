---------------------------- MODULE MCNativeScan ----------------------------
(***************************************************************************)
(* TLC instances of the native scan: one scan step by step, and the        *)
(* threads that share banks.  A behaviour is of either kind, as its        *)
(* workload says; the two have no state in common.                         *)
(***************************************************************************)
EXTENDS LayeredScan, BankService

-----------------------------------------------------------------------------
(* One scan.                                                               *)

P(parts, left, right, ignoreCase) ==
    [parts |-> parts, left |-> left, right |-> right, ignoreCase |-> ignoreCase]

\* Patterns of every kind of layer, short enough to collide with each other.
Plain == P(<< <<"x">> >>, FALSE, FALSE, FALSE)
PlainWithSpace == P(<< <<"x", "sp">> >>, FALSE, FALSE, FALSE)
PlainFolded == P(<< <<"x", "k">> >>, FALSE, FALSE, TRUE)
BoundedFolded == P(<< <<"k">> >>, TRUE, TRUE, TRUE)
BoundedPrefix == P(<< <<"k">> >>, TRUE, TRUE, FALSE)
BoundedLong == P(<< <<"k", "x">> >>, TRUE, FALSE, FALSE)
RightBounded == P(<< <<"x">> >>, FALSE, TRUE, FALSE)
Normalized == P(<< <<"x">>, <<"k">> >>, TRUE, FALSE, FALSE)
NormalizedFolded == P(<< <<"k">>, <<"x">> >>, TRUE, TRUE, TRUE)
NormalizedRight == P(<< <<"k">>, <<"x">> >>, FALSE, TRUE, FALSE)
LeadingWhitespace == P(<< <<>>, <<"k">> >>, FALSE, FALSE, FALSE)

LeftBounded == P(<< <<"k">> >>, TRUE, FALSE, FALSE)

\* Entities whose patterns meet in the same text, in every kind of shard.
ScannedBanks == {
    << <<BoundedPrefix, BoundedLong, Plain>> >>,
    << <<BoundedPrefix, LeftBounded, RightBounded>> >>,
    << <<Normalized, PlainWithSpace, LeadingWhitespace>> >>,
    << <<NormalizedFolded, PlainFolded, RightBounded>> >>,
    << <<RightBounded, NormalizedRight, LeadingWhitespace>> >>,
    << <<PlainFolded, BoundedFolded, Normalized>> >>,
    << <<LeadingWhitespace, PlainWithSpace, NormalizedFolded>> >>,
    << <<BoundedLong, BoundedFolded, BoundedPrefix>> >>,
    << <<RightBounded, LeadingWhitespace>> >>,
    << <<PlainWithSpace, Plain>> >>,
    << <<Plain>>, <<Normalized, RightBounded>> >>}

Characters == {<<"k">>, <<"K", "+">>, <<"x">>, <<"sp">>, <<"tab">>}

Texts(n) == {FlattenSeq(t) : t \in UNION {[1..m -> Characters] : m \in 0..n}}

ShortTexts == Texts(4)

-----------------------------------------------------------------------------
(* Threads: two spellings of one bank and another bank; room for one of the two. *)

CONSTANTS t1, t2, t3, json, yaml, other, bankA, bankB

MCKeyOf == json :> bankA @@ yaml :> bankA @@ other :> bankB
MCBanks == 1..MaxCalls

\* Races on the tables: lookups, compilations, evictions and clearings.
Fetches == [sources |-> {json, yaml, other}, uncached |-> FALSE, calls |-> 3,
            scans |-> 0, clears |-> 1, panics |-> 0]

\* Three threads on one bank with two slots.
Scanners == [sources |-> {json}, uncached |-> FALSE, calls |-> 3,
             scans |-> 4, clears |-> 0, panics |-> 0]

\* Objects of one bank that are not shared: kept over a clearing, or uncached.
Strays == [sources |-> {json}, uncached |-> TRUE, calls |-> 2,
           scans |-> 2, clears |-> 1, panics |-> 1]

\* No thread calls: a single scan.
Alone == [sources |-> {json}, uncached |-> FALSE, calls |-> 0, scans |-> 0, clears |-> 0, panics |-> 0]

MCWorkloads == {Fetches, Scanners, Strays, Alone}

-----------------------------------------------------------------------------
(* Both kinds of behaviour.                                                *)

NativeInit ==
    /\ Init
    /\ \/ load = Alone /\ MergeInit
       \/ load # Alone /\ bank = << <<PlainWithSpace, Plain>> >> /\ haystack = <<>> /\ MergeInit

NativeNext ==
    \/ load # Alone /\ Next /\ UNCHANGED mergeVars
    \/ load = Alone /\ MergeNext /\ UNCHANGED vars

\* The fairness of FairSpec.
NativeSpec ==
    /\ NativeInit /\ [][NativeNext]_<<vars, mergeVars>>
    /\ \A t \in Threads : WF_<<vars, mergeVars>>(Proceed(t) /\ UNCHANGED mergeVars)
=============================================================================
