------------------------------ MODULE BankCache ------------------------------
(***************************************************************************)
(* The process-wide cache of compiled banks (engine.py Bank.from_source_   *)
(* bytes and its _with_report twin).  A source is looked up under a lock;  *)
(* on a miss it is compiled WITHOUT the lock; and under the lock again the *)
(* result is entered, unless another thread entered the same bank first,   *)
(* whose object is then returned.  Two least-recently-used tables: banks   *)
(* by their canonical key, and canonical keys by source key.  Sources that *)
(* differ only in form have one canonical key.                             *)
(*                                                                         *)
(* Abstractions.  A source key (hash, size, format, options, platform) is  *)
(* a model value, a canonical key the value KeyOf gives it.  An OrderedDict *)
(* is a sequence without duplicates, least recently used first.            *)
(***************************************************************************)
EXTENDS Integers, Sequences, SequencesExt, ProcessThreads

CONSTANTS
    Sources,        \* source keys
    KeyOf,          \* KeyOf[s]: the canonical key of what s compiles to
    MaxEntries,     \* DEFAULT_BANK_CACHE_MAX_ENTRIES
    MaxSourceKeys,  \* DEFAULT_BANK_SOURCE_CACHE_MAX_ENTRIES
    MaxCalls,       \* bound on the calls made
    NoSource        \* the caller has asked for nothing

ASSUME CapacityAssumption == MaxEntries \in Nat \ {0} /\ MaxSourceKeys \in Nat \ {0}
ASSUME CallsAssumption == MaxCalls \in Nat
ASSUME NoSourceAssumption == NoSource \notin Sources

\* A native bank object is the number of the compilation that made it; 0: none.
NativeBanks == 1..MaxCalls

VARIABLES
    banks,    \* _BANK_CACHE: [key, bank] entries
    sources,  \* _SOURCE_CACHE_KEYS: [source, key] entries
    hits,     \* _CACHE_HITS
    misses,   \* _CACHE_MISSES
    call,     \* call[t]: where t stands and the bank it was given
    calls,    \* calls made so far
    made      \* made[n]: the key of the n-th native bank compiled

\* Auxiliary, read by no guard: the objects that were entered and have left since.
VARIABLE retired

cacheVars == <<banks, sources, hits, misses, call, calls, made, retired>>

NoCall == [stage |-> "idle", source |-> NoSource, bank |-> 0, cached |-> FALSE]

KeysIn(bs) == {bs[i].key : i \in DOMAIN bs}
BanksIn(bs) == {bs[i].bank : i \in DOMAIN bs}
BankFor(bs, k) == (CHOOSE e \in ToSet(bs) : e.key = k).bank
SourceEntries(ss, s) == {e \in ToSet(ss) : e.source = s}

\* The entries of q at some of its places, in their order.
Kept(q, places) ==
    [j \in 1..Cardinality(places) |->
        q[CHOOSE i \in places : Cardinality({h \in places : h <= i}) = j]]
WithoutKeys(q, keys) == Kept(q, {i \in DOMAIN q : q[i].key \notin keys})
WithoutSource(ss, s) == Kept(ss, {i \in DOMAIN ss : ss[i].source # s})

\* move_to_end, and the assignment to a key that may be there already.
BankLast(bs, k, n) == Append(WithoutKeys(bs, {k}), [key |-> k, bank |-> n])
SourceLast(ss, s, k) == Append(WithoutSource(ss, s), [source |-> s, key |-> k])

\* The last n elements of a sequence.
LastOf(q, n) == IF Len(q) > n THEN SubSeq(q, Len(q) - n + 1, Len(q)) ELSE q

\* _evict_bank_cache_if_needed: a bank that goes takes its source keys with it.
Store(bs, ss) ==
    /\ banks' = LastOf(bs, MaxEntries)
    /\ sources' = LastOf(WithoutKeys(ss, KeysIn(bs) \ KeysIn(banks')), MaxSourceKeys)
    /\ retired' = retired \cup (BanksIn(bs) \ BanksIn(banks'))

CacheInit ==
    /\ banks = <<>> /\ sources = <<>> /\ hits = 0 /\ misses = 0
    /\ call = [t \in Threads |-> NoCall]
    /\ calls = 0 /\ made = <<>> /\ retired = {}

-----------------------------------------------------------------------------
Given(t, n) == call' = [call EXCEPT ![t] = [@ EXCEPT !.stage = "ready", !.bank = n]]

\* The first locked section, when the source is known and its bank is there.
Lookup(t, s) ==
    /\ call[t].stage = "idle" /\ calls < MaxCalls
    /\ calls' = calls + 1
    /\ \E e \in SourceEntries(sources, s) :
        /\ e.key \in KeysIn(banks)
        /\ banks' = BankLast(banks, e.key, BankFor(banks, e.key))
        /\ sources' = SourceLast(sources, s, e.key)
        /\ call' = [call EXCEPT ![t] = [stage |-> "ready", source |-> s, cached |-> TRUE,
                                        bank |-> BankFor(banks, e.key)]]
    /\ hits' = hits + 1
    /\ UNCHANGED <<misses, made, retired>>

\* The first locked section, when it finds nothing: an entry without its bank is
\* deleted.  With use_cache=False nothing is looked up.
Miss(t, s, useCache) ==
    /\ call[t].stage = "idle" /\ calls < MaxCalls
    /\ calls' = calls + 1
    /\ useCache => \A e \in SourceEntries(sources, s) : e.key \notin KeysIn(banks)
    /\ sources' = IF useCache THEN WithoutSource(sources, s) ELSE sources
    /\ call' = [call EXCEPT ![t] = [stage |-> "compiling", source |-> s, cached |-> useCache,
                                    bank |-> 0]]
    /\ UNCHANGED <<banks, hits, misses, made, retired>>

\* The native compilation, outside the lock.
Compile(t) ==
    /\ call[t].stage = "compiling"
    /\ made' = Append(made, KeyOf[call[t].source])
    /\ call' = [call EXCEPT ![t] = [@ EXCEPT !.bank = Len(made'),
                                    !.stage = IF call[t].cached THEN "compiled" ELSE "ready"]]
    /\ UNCHANGED <<banks, sources, hits, misses, calls, retired>>

\* The compilation raises: the caller gets no bank and nothing is entered.
CompileFails(t) ==
    /\ call[t].stage = "compiling"
    /\ call' = [call EXCEPT ![t] = NoCall]
    /\ UNCHANGED <<banks, sources, hits, misses, calls, made, retired>>

\* Mutant of Reuse: the thread that lost the race keeps its own object.
ReuseOwn(t) ==
    LET k == made[call[t].bank] IN
    /\ call[t].stage = "compiled"
    /\ k \in KeysIn(banks)
    /\ Store(BankLast(banks, k, BankFor(banks, k)), SourceLast(sources, call[t].source, k))
    /\ Given(t, call[t].bank)
    /\ hits' = hits + 1
    /\ UNCHANGED <<misses, calls, made>>

\* The second locked section.
Reuse(t) ==
    LET k == made[call[t].bank] IN
    /\ call[t].stage = "compiled"
    /\ k \in KeysIn(banks)
    /\ Store(BankLast(banks, k, BankFor(banks, k)), SourceLast(sources, call[t].source, k))
    /\ Given(t, BankFor(banks, k))
    /\ hits' = hits + 1
    /\ UNCHANGED <<misses, calls, made>>

Insert(t) ==
    LET k == made[call[t].bank] IN
    /\ call[t].stage = "compiled"
    /\ k \notin KeysIn(banks)
    /\ Store(BankLast(banks, k, call[t].bank), SourceLast(sources, call[t].source, k))
    /\ Given(t, call[t].bank)
    /\ misses' = misses + 1
    /\ UNCHANGED <<hits, calls, made>>

\* clear_bank_cache, also the tool clear_engine_cache: callers keep what they have,
\* compilations under way will still be entered.
Clear ==
    /\ banks # <<>> \/ hits + misses > 0
    /\ banks' = <<>> /\ sources' = <<>> /\ hits' = 0 /\ misses' = 0
    /\ retired' = retired \cup BanksIn(banks)
    /\ UNCHANGED <<call, calls, made>>

\* The caller lets go of its bank.
Release(t) ==
    /\ call[t].stage = "ready"
    /\ call' = [call EXCEPT ![t] = NoCall]
    /\ UNCHANGED <<banks, sources, hits, misses, calls, made, retired>>

CacheStep(t) == Compile(t) \/ CompileFails(t) \/ Reuse(t) \/ Insert(t)

-----------------------------------------------------------------------------
BankEntries == [key : {KeyOf[s] : s \in Sources}, bank : NativeBanks]
SourceKeyEntries == [source : Sources, key : {KeyOf[s] : s \in Sources}]

CacheTypeOK ==
    /\ banks \in Seq(BankEntries) /\ Len(banks) <= MaxEntries
    /\ sources \in Seq(SourceKeyEntries) /\ Len(sources) <= MaxSourceKeys
    /\ hits \in 0..MaxCalls /\ misses \in 0..MaxCalls /\ calls \in 0..MaxCalls
    /\ call \in [Threads -> [stage : {"idle", "compiling", "compiled", "ready"},
                             source : Sources \cup {NoSource}, bank : 0..MaxCalls,
                             cached : BOOLEAN]]
    /\ made \in Seq({KeyOf[s] : s \in Sources}) /\ Len(made) <= calls
    /\ retired \subseteq NativeBanks

\* Every source key leads to the bank its source compiles to, which is there:
\* entering, evicting, clearing and late compilations never leave a source key
\* without its bank, whatever their order (engine.py 113-149, 517-526).
SourcesResolve ==
    \A e \in ToSet(sources) :
        /\ e.key = KeyOf[e.source]
        /\ \E b \in ToSet(banks) : b.key = e.key /\ made[b.bank] = e.key

\* Every caller has the bank it asked for, and one that used the cache has the
\* shared object, not a duplicate that lost the race to be entered: all of them
\* scan under one limit (engine.py 136-150).
CallersShareBanks ==
    \A t \in Threads : call[t].stage = "ready" =>
        /\ made[call[t].bank] = KeyOf[call[t].source]
        /\ call[t].cached => call[t].bank \in BanksIn(banks) \cup retired

\* An entry was counted when it was made.
EntriesWereCounted == Len(banks) <= misses
=============================================================================
