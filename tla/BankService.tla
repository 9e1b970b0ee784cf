----------------------------- MODULE BankService -----------------------------
(* Threads that fetch banks through the cache and scan with them: extraction *)
(* (engines.py, extraction.py), the MCP tools and library callers.           *)
EXTENDS BankCache, ScanLimiter

\* A workload: the sources asked for, with or without the cache, and bounds on
\* the calls made, the scans started, the clearings and the panics.
CONSTANT Workloads

ASSUME WorkloadsAssumption ==
    Workloads \subseteq [sources : SUBSET Sources, uncached : BOOLEAN, calls : 0..MaxCalls,
                         scans : Nat, clears : Nat, panics : Nat]
ASSUME BanksAssumption == Banks = NativeBanks

VARIABLES
    load,    \* the workload of this behaviour
    scans,   \* scans started so far
    clears,  \* clearings so far
    panics   \* panics so far

counters == <<scans, clears, panics>>

vars == <<cacheVars, limiterVars, load, counters>>

Init ==
    /\ CacheInit /\ LimiterInit
    /\ load \in Workloads
    /\ scans = 0 /\ clears = 0 /\ panics = 0

\* Bank.scan_bytes and its relatives: the bank the thread was given.
BeginScan(t) ==
    /\ call[t].stage = "ready" /\ scans < load.scans
    /\ Enter(t, call[t].bank)
    /\ scans' = scans + 1
    /\ UNCHANGED <<cacheVars, load, clears, panics>>

Scanning(t) ==
    /\ ScanStep(t)
    /\ UNCHANGED <<cacheVars, load, counters>>

Panicking(t) ==
    /\ panics < load.panics
    /\ Panic(t)
    /\ panics' = panics + 1
    /\ UNCHANGED <<cacheVars, load, scans, clears>>

StrayWake(t) ==
    /\ WakeUnasked(t)
    /\ UNCHANGED <<cacheVars, load, counters>>

Fetching(t) ==
    /\ scan[t].stage = "idle"
    /\ \/ CacheStep(t) \/ Release(t)
       \/ /\ calls < load.calls
          /\ \E s \in load.sources, useCache \in {TRUE, ~load.uncached} :
                Lookup(t, s) \/ Miss(t, s, useCache)
    /\ UNCHANGED <<limiterVars, load, counters>>

Clearing ==
    /\ clears < load.clears
    /\ Clear
    /\ clears' = clears + 1
    /\ UNCHANGED <<limiterVars, load, scans, panics>>

Next ==
    \/ \E t \in Threads :
        BeginScan(t) \/ Scanning(t) \/ Panicking(t) \/ StrayWake(t) \/ Fetching(t)
    \/ Clearing

Spec == Init /\ [][Next]_vars

\* What t does once it is in a call or a scan, panics and stray wake-ups aside.
Proceed(t) == Scanning(t) \/ (CacheStep(t) /\ UNCHANGED <<limiterVars, load, counters>>)

\* The scheduler runs every thread that can run, and native calls return.
\* Nothing is assumed about which sleeper a notification wakes or who gets a
\* lock first.
FairSpec == Spec /\ \A t \in Threads : WF_vars(Proceed(t))

-----------------------------------------------------------------------------
TypeOK ==
    /\ CacheTypeOK /\ LimiterTypeOK
    /\ scans \in 0..load.scans /\ clears \in 0..load.clears /\ panics \in 0..load.panics

\* The tables are consistent and callers share what they hold.
CacheIsSound == SourcesResolve /\ CallersShareBanks /\ EntriesWereCounted

\* Every call for a bank and every scan ends, those that had to wait for a slot
\* included (engine.py 91-150, engine.rs 64-120, 664-700).
Busy(t) == call[t].stage \in {"compiling", "compiled"} \/ scan[t].stage # "idle"

CallsEnd == \A t \in Threads : Busy(t) ~> ~Busy(t)
=============================================================================
